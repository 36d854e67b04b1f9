---------------------------- MODULE PaymentSteps ----------------------------
(***************************************************************************)
(* The steps a payment or a crossing offer is made of                      *)
(* (src/internal/tx/payment/step_*.go): the transfer over a trust line,    *)
(* the order book and the two XRP endpoints, each with its reverse and its *)
(* forward pass.                                                           *)
(*                                                                         *)
(* Accounts are numbers, ordered as their IDs; 0 is the XRP pseudo         *)
(* account.  An issue is <<currency, issuer>>.  Amounts are whole numbers, *)
(* rounded up or down as the code rounds; rates, line qualities and offer  *)
(* qualities are pairs <<in, out>>, exact and smaller when better.         *)
(* A ledger has the fields                                                 *)
(*   xrp, cnt   balance and owner count of each account                    *)
(*   lines      per <<low, high, currency>>: bal as low sees it, lim, qin, *)
(*              qout of either side, and the sides with a flag set (rsv,   *)
(*              nor, frz, deep, auth)                                      *)
(*   offers     per <<owner, sequence>>: in, out, pays, gets, rate, exp    *)
(*   books      the offers of each <<in, out>> by directory quality, then  *)
(*              arrival                                                    *)
(*   glob       accounts with GlobalFreeze;  now   the parent close time   *)
(* A sandbox is a ledger with the tables of the chain of sandboxes that    *)
(* lead to it, innermost first: deferred credits, and the trust lines each *)
(* created and deleted (module PaymentSandbox is about the overlay itself);*)
(* base are the trust lines under the chain.  Owner directories, books     *)
(* with an AMM (module AMM) and permissioned domains are left out.         *)
(*                                                                         *)
(* In an order book step (src/internal/tx/payment/step_book*.go) offers are *)
(* taken at one quality per call, best first, until the amount asked for   *)
(* is met; dead offers on the way are put aside for removal.               *)
(***************************************************************************)
EXTENDS Integers, FiniteSets, SequencesExt

CONSTANTS Accounts,              \* positive numbers
          Rate,                  \* TransferRate of each account, <<in, out>>
          DefaultRipple,         \* accounts with lsfDefaultRipple
          RequireAuth,           \* accounts with lsfRequireAuth
          ReserveBase, ReserveInc,
          MaxOffers              \* maxOffersToConsume of a book step

XRP == <<"XRP", 0>>
One == <<1, 1>>
None == -1
Empty == [k \in {} |-> 0]

Put(f, k, v) == [j \in DOMAIN f \union {k} |-> IF j = k THEN v ELSE f[j]]
Drop(f, k) == [j \in DOMAIN f \ {k} |-> f[j]]
Smaller(m, n) == IF m < n THEN m ELSE n

(* Rates and qualities *)
RateDown(a, r) == (a * r[1]) \div r[2]
RateUp(a, r) == (a * r[1] + r[2] - 1) \div r[2]
Inverse1(r) == <<r[2], r[1]>>
Worse(p, q) == p[1] * q[2] > q[1] * p[2]
SameQuality(p, q) == p[1] * q[2] = q[1] * p[2]
Compose(p, q) == <<p[1] * q[1], p[2] * q[2]>>

(* A limit is <<quality, strict>>: a passive offer's threshold is the next *)
(* better quality, so that it is met by strictly better offers only.       *)
NoLimit == <<>>
WorseThanLimit(q, lim) ==
  lim # NoLimit /\ (Worse(q, lim[1]) \/ (lim[2] /\ SameQuality(q, lim[1])))

CeilOutStrict(q, amt, limit, up) ==
  IF amt[2] <= limit THEN amt
  ELSE <<Smaller(amt[1], IF up THEN RateUp(limit, q) ELSE RateDown(limit, q)), limit>>
(* An amount of <<in, out>> cut to what limit allows, rounded against the  *)
(* taker.                                                                  *)
CeilInStrict(q, amt, limit) ==
  IF amt[1] <= limit THEN amt ELSE <<limit, Smaller(amt[2], RateDown(limit, Inverse1(q)))>>

-----------------------------------------------------------------------------
(* Trust lines *)
LineKey(a, b, c) == IF a < b THEN <<a, b, c>> ELSE <<b, a, c>>
HasLine(l, a, b, c) == LineKey(a, b, c) \in DOMAIN l.lines
LineOf(l, a, b, c) == l.lines[LineKey(a, b, c)]
Seen(a, b, n) == IF a < b THEN n ELSE -n
HeldOn(l, a, b, c) == IF HasLine(l, a, b, c) THEN Seen(a, b, LineOf(l, a, b, c).bal) ELSE 0

isFrozen(l, a, issue) ==
  /\ issue # XRP
  /\ \/ issue[2] \in l.glob
     \/ a # issue[2] /\ HasLine(l, a, issue[2], issue[1])
        /\ issue[2] \in LineOf(l, a, issue[2], issue[1]).frz
isDeepFrozen(l, a, issue) ==
  /\ issue # XRP /\ a # issue[2] /\ HasLine(l, a, issue[2], issue[1])
  /\ LineOf(l, a, issue[2], issue[1]).deep # {}

ReserveFor(n) == ReserveBase + n * ReserveInc

(* Deferred credits: what each pair of accounts has moved so far, and the  *)
(* balance the low one had before; the largest owner count an account had. *)
NoTab == [credits |-> Empty, counts |-> Empty, ins |-> {}, del |-> {}, fin |-> {}]

credit(tab, from, to, c, amount, before) ==
  IF LineKey(from, to, c) \in DOMAIN tab.credits
  THEN [tab EXCEPT !.credits[LineKey(from, to, c)] =
          IF from < to THEN [@ EXCEPT !.high = @ + amount] ELSE [@ EXCEPT !.low = @ + amount]]
  ELSE [tab EXCEPT !.credits = Put(@, LineKey(from, to, c),
          [low |-> IF from < to THEN 0 ELSE amount, high |-> IF from < to THEN amount ELSE 0,
           orig |-> Seen(from, to, before)])]

ownerCount(tab, a, n) ==
  [tab EXCEPT !.counts = Put(@, a, IF a \in DOMAIN @ THEN Max({@[a], n}) ELSE n)]

(* What a table becomes when the table of a child sandbox is applied. *)
applyTab(tab, to) ==
  [credits |-> [k \in DOMAIN tab.credits \union DOMAIN to.credits |->
      IF k \notin DOMAIN to.credits THEN tab.credits[k]
      ELSE IF k \notin DOMAIN tab.credits THEN to.credits[k]
      ELSE [to.credits[k] EXCEPT !.low = @ + tab.credits[k].low, !.high = @ + tab.credits[k].high]],
   counts |-> [a \in DOMAIN tab.counts \union DOMAIN to.counts |->
      Max({t.counts[a] : t \in {u \in {tab, to} : a \in DOMAIN u.counts}})],
   del |-> (to.del \union tab.del) \ tab.ins, ins |-> (to.ins \ tab.del) \union tab.ins,
   fin |-> to.fin \union tab.fin]

Sandbox(l) == [l |-> l, tabs |-> <<NoTab>>, base |-> DOMAIN l.lines]
Child(sb) == [sb EXCEPT !.tabs = <<NoTab>> \o @]
Applied(sb) == [sb EXCEPT !.tabs = <<applyTab(@[1], @[2])>> \o SubSeq(@, 3, Len(@))]

(* A line created, or created again after the same sandbox deleted it, and *)
(* a line deleted; its last state is kept unless the same sandbox created  *)
(* it.  A root sandbox cannot be applied when it deletes a line the ledger *)
(* does not have and it has no last state of, or creates one it has.       *)
Below(sb, key, marks) == IF marks = <<>> THEN key \in sb.base ELSE key \in marks[1].ins
InsertLine(sb, key, ln) ==
  [sb EXCEPT !.l.lines = Put(@, key, ln),
     !.tabs[1].del = @ \ {key},
     !.tabs[1].ins =
        IF key \in sb.tabs[1].del
           /\ Below(sb, key, SelectSeq(Tail(sb.tabs), LAMBDA t : key \in t.ins \union t.del))
        THEN @ ELSE @ \union {key}]
EraseLine(sb, key) ==
  [sb EXCEPT !.l.lines = Drop(@, key), !.tabs[1].del = @ \union {key}, !.tabs[1].ins = @ \ {key},
             !.tabs[1].fin = IF key \in sb.tabs[1].ins THEN @ ELSE @ \union {key}]
ApplyToViewFails(sb) ==
  \/ sb.tabs[1].del \ (sb.base \union sb.tabs[1].fin) # {}
  \/ sb.tabs[1].ins \intersect sb.base # {}

CreditHook(sb, from, to, c, amount, before) ==
  [sb EXCEPT !.tabs[1] = credit(@, from, to, c, amount, before)]

(* The balance an account may count on: neither more than it has, nor than *)
(* it had before each sandbox, nor than the first of these less what it    *)
(* has paid since.                                                         *)
Moved(sb, a, b, c) == SelectSeq(sb.tabs, LAMBDA t : LineKey(a, b, c) \in DOMAIN t.credits)
Debits(a, b, v) == IF a < b THEN v.high ELSE v.low
BalanceHookOver(a, b, c, amount, ts) ==
  IF ts = <<>> THEN amount
  ELSE Min({amount}
       \union {Seen(a, b, ts[i].credits[LineKey(a, b, c)].orig) : i \in DOMAIN ts}
       \union {Seen(a, b, Last(ts).credits[LineKey(a, b, c)].orig)
               - FoldLeft(LAMBDA n, t : n + Debits(a, b, t.credits[LineKey(a, b, c)]), 0, ts)})
BalanceHook(sb, a, b, c, amount) == BalanceHookOver(a, b, c, amount, Moved(sb, a, b, c))

OwnerCountHook(sb, a) ==
  Max({sb.l.cnt[a]} \union {sb.tabs[i].counts[a] :
         i \in {j \in DOMAIN sb.tabs : a \in DOMAIN sb.tabs[j].counts}})

(* Steps over trust lines change owner counts without telling the table. *)
adjustOwnerCount(sb, a, delta, hooked) ==
  [sb EXCEPT !.l.cnt[a] = Max({0, @ + delta}),
             !.tabs[1] = IF hooked THEN ownerCount(@, a, Max({sb.l.cnt[a], sb.l.cnt[a] + delta}))
                         ELSE @]

(* from pays to over a line that is not there yet. *)
trustCreate(sb, from, to, c, amount, hooked) ==
  adjustOwnerCount(
    InsertLine(sb, LineKey(from, to, c),
       [bal |-> Seen(from, to, -amount), lim |-> [x \in {from, to} |-> 0],
        qin |-> [x \in {from, to} |-> One], qout |-> [x \in {from, to} |-> One],
        rsv |-> {to}, nor |-> {to} \ DefaultRipple, frz |-> {}, deep |-> {}, auth |-> {}]),
    to, 1, hooked)

(* The line after from has paid over it: when from's balance is used up    *)
(* and nothing else keeps its side of the line, its reserve is given back, *)
(* and a line that serves nobody is deleted.                               *)
LetsGo(ln, from, before, after) ==
  /\ before > 0 /\ after <= 0
  /\ from \in ln.rsv /\ ((from \in ln.nor) # (from \in DefaultRipple))
  /\ from \notin ln.frz /\ ln.lim[from] = 0 /\ ln.qin[from] = One /\ ln.qout[from] = One
AfterDebit(sb, from, to, key, ln, after, lets, hooked) ==
  IF ~lets THEN [sb EXCEPT !.l.lines[key].bal = Seen(from, to, after)]
  ELSE IF after = 0 /\ to \notin ln.rsv
       THEN adjustOwnerCount(EraseLine(sb, key), from, -1, hooked)
       ELSE adjustOwnerCount([sb EXCEPT !.l.lines[key].bal = Seen(from, to, after),
                                        !.l.lines[key].rsv = @ \ {from}], from, -1, hooked)
Debited(sb, from, to, c, amount, before, hooked) ==
  AfterDebit(CreditHook(sb, from, to, c, amount, before), from, to, LineKey(from, to, c),
             LineOf(sb.l, from, to, c), before - amount,
             LetsGo(LineOf(sb.l, from, to, c), from, before, before - amount), hooked)

rippleCredit(sb, from, to, c, amount) ==
  IF amount = 0 THEN sb
  ELSE IF HasLine(sb.l, from, to, c)
       THEN Debited(sb, from, to, c, amount, HeldOn(sb.l, from, to, c), FALSE)
       ELSE trustCreate(sb, from, to, c, amount, FALSE)

(* The book step's own way to move tokens between an offer's owner and the *)
(* issuer.                                                                 *)
creditTrustline(sb, a, issuer, c, amount) ==
  IF ~HasLine(sb.l, a, issuer, c) THEN trustCreate(sb, issuer, a, c, amount, TRUE)
  ELSE [CreditHook(sb, issuer, a, c, amount, HeldOn(sb.l, issuer, a, c))
        EXCEPT !.l.lines[LineKey(a, issuer, c)].bal = @ + Seen(a, issuer, amount)]
debitTrustline(sb, a, issuer, c, amount) ==
  Debited(sb, a, issuer, c, amount, HeldOn(sb.l, a, issuer, c), TRUE)

-----------------------------------------------------------------------------
(* Steps.  A strand is a record: steps, src, dst, crossing (the strand of  *)
(* an offer that crosses), limit (the quality limit of its only book),     *)
(* default (the default path).  Running it keeps in S the sandbox sb, the  *)
(* offers rm to remove, the cache of each step and the offers it used.     *)
NoCache == [in |-> None, mid |-> None, out |-> None, dir |-> "none"]
Cached(S, i, in, mid, out, dir) ==
  [S EXCEPT !.cache[i] = [in |-> in, mid |-> mid, out |-> out, dir |-> dir]]

DirectStep(src, dst, c, first, last) ==
  [kind |-> "direct", src |-> src, dst |-> dst, cur |-> c, first |-> first, last |-> last]
BookStep(in, out) == [kind |-> "book", in |-> in, out |-> out]
XRPEndpoint(a, last, reduction) ==
  [kind |-> "xrp", acct |-> a, last |-> last, reduction |-> reduction]

accountHolds(sb, s) ==
  IF HasLine(sb.l, s.src, s.dst, s.cur)
  THEN BalanceHook(sb, s.src, s.dst, s.cur, HeldOn(sb.l, s.src, s.dst, s.cur))
  ELSE 0
creditLimit(l, s) ==
  IF HasLine(l, s.src, s.dst, s.cur) THEN LineOf(l, s.src, s.dst, s.cur).lim[s.dst] ELSE 0

(* What may flow and whether it redeems what src holds or issues new debt. *)
maxPaymentFlow(sb, s, holds) ==
  IF holds > 0 THEN <<holds, "redeems">> ELSE <<creditLimit(sb.l, s) + holds, "issues">>

DebtDirection(sx, sb, cache, i, forward) ==
  CASE sx.steps[i].kind = "book" -> IF sx.crossing THEN "issues" ELSE "redeems"
    [] sx.steps[i].kind = "xrp" -> "issues"
    [] OTHER -> IF forward /\ cache[i] # NoCache THEN cache[i].dir
                ELSE IF accountHolds(sb, sx.steps[i]) > 0 THEN "redeems" ELSE "issues"

(* Line qualities: QualityOut of src and QualityIn of dst. *)
LineQuality(sx, l, s, side) ==
  IF sx.crossing \/ ~HasLine(l, s.src, s.dst, s.cur) THEN One
  ELSE IF side = "in" THEN LineOf(l, s.src, s.dst, s.cur).qin[s.dst]
       ELSE LineOf(l, s.src, s.dst, s.cur).qout[s.src]
LineQualityIn(sx, l, i) ==
  IF sx.steps[i].kind = "direct" THEN LineQuality(sx, l, sx.steps[i], "in") ELSE One
Larger(p, q) == IF Worse(p, q) THEN p ELSE q
Capped(q, last) == IF last /\ Worse(q, One) THEN One ELSE q

(* <<srcQOut, dstQIn>> *)
qualities(sx, sb, cache, i, dir, forward) ==
  IF dir = "redeems"
  THEN IF i = 1 THEN <<One, One>>
       ELSE <<Larger(LineQualityIn(sx, sb.l, i - 1), LineQuality(sx, sb.l, sx.steps[i], "out")),
              One>>
  ELSE <<IF i > 1 /\ DebtDirection(sx, sb, cache, i - 1, forward) = "redeems"
         THEN Rate[sx.steps[i].src] ELSE One,
         Capped(LineQuality(sx, sb.l, sx.steps[i], "in"), sx.steps[i].last)>>

(* Move mid over the line; the rest is what the step reports. *)
DirectMove(S, s, i, in, mid, out, dir) ==
  Cached([S EXCEPT !.sb = rippleCredit(@, s.src, s.dst, s.cur, mid)], i, in, mid, out, dir)

(* The last step of a crossing offer is not held back by the line's limit. *)
DirectFlow(sx, S, i, unlimited) ==
  IF sx.crossing /\ sx.steps[i].last THEN <<unlimited, "issues">>
  ELSE maxPaymentFlow(S.sb, sx.steps[i], accountHolds(S.sb, sx.steps[i]))

DirectRevWith(S, s, i, out, flow, q, mid) ==
  IF flow[1] <= 0 THEN Cached(S, i, 0, 0, 0, flow[2])
  ELSE IF mid <= flow[1] THEN DirectMove(S, s, i, RateUp(mid, q[1]), mid, out, flow[2])
  ELSE DirectMove(S, s, i, RateUp(flow[1], q[1]), flow[1], RateDown(flow[1], q[2]), flow[2])
DirectRevAt(S, s, i, out, flow, q) ==
  DirectRevWith(S, s, i, out, flow, q, RateUp(out, Inverse1(q[2])))
DirectRevFlow(sx, S, i, out, flow) ==
  DirectRevAt(S, sx.steps[i], i, out, flow, qualities(sx, S.sb, S.cache, i, flow[2], FALSE))
DirectRev(sx, S, i, out) ==
  DirectRevFlow(sx, [S EXCEPT !.cache[i] = NoCache], i, out, DirectFlow(sx, S, i, out))

(* The forward pass never delivers more than the reverse pass found. *)
setCacheLimiting(S, s, i, in, mid, out, dir) ==
  DirectMove(S, s, i, in, Smaller(mid, S.cache[i].mid), Smaller(out, S.cache[i].out), dir)
DirectFwdWith(S, s, i, in, flow, q, mid) ==
  IF flow[1] <= 0 THEN Cached(S, i, 0, 0, 0, flow[2])
  ELSE IF mid <= flow[1] THEN setCacheLimiting(S, s, i, in, mid, RateDown(mid, q[2]), flow[2])
  ELSE setCacheLimiting(S, s, i, RateUp(flow[1], q[1]), flow[1], RateDown(flow[1], q[2]), flow[2])
DirectFwdAt(S, s, i, in, flow, q) ==
  DirectFwdWith(S, s, i, in, flow, q, RateDown(in, Inverse1(q[1])))
DirectFwdFlow(sx, S, i, in, flow) ==
  DirectFwdAt(S, sx.steps[i], i, in, flow, qualities(sx, S.sb, S.cache, i, flow[2], TRUE))
DirectFwd(sx, S, i, in) ==
  DirectFwdFlow(sx, S, i, in, DirectFlow(sx, S, i, S.cache[i].mid))

-----------------------------------------------------------------------------
(* XRP endpoints: the source gives what its reserve leaves, the            *)
(* destination takes everything.                                           *)
xrpLiquid(sb, a, reduction) ==
  Max({0, sb.l.xrp[a] - ReserveFor(Max({0, OwnerCountHook(sb, a) + reduction}))})
XRPMove(S, s, i, n) ==
  Cached([S EXCEPT !.sb.l.xrp[s.acct] = IF s.last THEN @ + n ELSE @ - n], i, n, n, n, "issues")
XRPPass(S, s, i, n) ==
  XRPMove(S, s, i, IF s.last THEN n ELSE Smaller(n, xrpLiquid(S.sb, s.acct, s.reduction)))

-----------------------------------------------------------------------------
(* The order book step.                                                    *)

(* Rates.  In a crossing the owner pays the fee on what it gives. *)
transferRateIn(sx, in, prevDir) ==
  IF in = XRP \/ in[2] = sx.dst \/ prevDir # "redeems" THEN One ELSE Rate[in[2]]
transferRateOut(sx, out) ==
  IF out = XRP \/ out[2] = sx.dst \/ ~sx.crossing THEN One ELSE Rate[out[2]]
getOfrInRate(C, owner) ==
  IF C.sx.crossing /\ C.i > 1 /\ C.sx.steps[C.i - 1].kind = "direct"
     /\ C.sx.steps[C.i - 1].src = owner
  THEN One ELSE C.trIn
getOfrOutRate(C, owner) ==
  IF C.sx.crossing /\ C.i > 1 /\ C.sx.steps[C.i - 1].kind = "book" /\ C.sx.dst = owner
  THEN One ELSE C.trOut

(* What the owner can deliver, as the sandbox stands now.  The token       *)
(* balance is read without the balance hook.                               *)
getOfferFundedAmount(sb, owner, gets, out) ==
  IF out = XRP
  THEN Max({0, BalanceHook(sb, owner, 0, "XRP", sb.l.xrp[owner])
               - ReserveFor(OwnerCountHook(sb, owner))})
  ELSE IF owner = out[2] THEN gets
  ELSE IF isFrozen(sb.l, owner, out) \/ isDeepFrozen(sb.l, owner, out) THEN 0
  ELSE Max({0, HeldOn(sb.l, owner, out[2], out[1])})

isOfferOwnerAuthorized(l, owner, in) ==
  (in # XRP /\ owner # in[2] /\ in[2] \in RequireAuth)
    => HasLine(l, owner, in[2], in[1]) /\ in[2] \in LineOf(l, owner, in[2], in[1]).auth

(* An underfunded offer that would give a worse quality than it was placed *)
(* at, or nothing, is in the way.                                          *)
SmallAfter(in, q, eff) == eff[1] = 0 \/ eff[2] = 0 \/ (in = XRP /\ eff[1] <= 1 /\ Worse(eff, q))
shouldRmSmallIncreasedQOffer(in, out, owner, amt, funds) ==
  /\ out # XRP
  /\ in # XRP => amt[1] < amt[2]
  /\ SmallAfter(in, amt, IF owner # out[2] /\ funds < amt[2]
                         THEN CeilOutStrict(amt, amt, funds, FALSE) ELSE amt)

(* A mutant: the owner count is not given back. *)
deleteOfferUncounted(sb, k) ==
  [sb EXCEPT !.l.books[<<sb.l.offers[k].in, sb.l.offers[k].out>>] = SelectSeq(@, LAMBDA j : j # k),
             !.l.offers = Drop(@, k)]
deleteOffer(sb, k) ==
  adjustOwnerCount(
    [sb EXCEPT !.l.books[<<sb.l.offers[k].in, sb.l.offers[k].out>>] =
                  SelectSeq(@, LAMBDA j : j # k),
               !.l.offers = Drop(@, k)], k[1], -1, TRUE)

(* Funds move between the owner and the issuer of each side; XRP moves     *)
(* between the owner and nobody, the endpoint steps hold the other end.    *)
transferIn(sb, owner, in, gross, net) ==
  IF owner = in[2] \/ gross = 0 \/ net = 0 THEN sb
  ELSE IF in = XRP
       THEN [CreditHook(sb, 0, owner, "XRP", gross, -sb.l.xrp[owner]) EXCEPT !.l.xrp[owner] = @ + gross]
       ELSE creditTrustline(sb, owner, in[2], in[1], net)
transferOut(sb, owner, out, gives) ==
  IF owner = out[2] \/ gives = 0 THEN sb
  ELSE IF out = XRP
       THEN [CreditHook(sb, owner, 0, "XRP", gives, sb.l.xrp[owner]) EXCEPT !.l.xrp[owner] = @ - gives]
       ELSE debitTrustline(sb, owner, out[2], out[1], gives)

Reduced(sb, k, o, net, got) ==
  IF o.pays = net \/ o.gets = got THEN deleteOffer(sb, k)
  ELSE [sb EXCEPT !.l.offers[k].pays = @ - net, !.l.offers[k].gets = @ - got]
consumeOffer(sb, C, k, o, gross, net, got, gives) ==
  Reduced(transferOut(transferIn(sb, k[1], C.in, gross, net), k[1], C.out, gives), k, o, net, got)

-----------------------------------------------------------------------------
(* The loop.  C holds what is fixed during a call; B the step's state S,   *)
(* the totals, what remains, the quality being taken (or NoQuality),       *)
(* whether an offer was tried at it, the offers used, and whether to go on.*)
NoQuality == <<0, 0>>
Looping(S, amount) ==
  [S |-> S, tin |-> 0, tout |-> 0, rem |-> amount, q |-> NoQuality, tried |-> FALSE,
   used |-> 0, go |-> TRUE]
Discard(B, k) == [B EXCEPT !.S.rm = @ \union {k}, !.used = @ + 1]
DiscardAt(B, k, q) == [Discard(B, k) EXCEPT !.q = IF B.tried THEN q ELSE NoQuality]

Consumed(C, B, k, o, tin, tout, rem, gross, net, got, gives) ==
  [B EXCEPT !.S.sb = consumeOffer(@, C, k, o, gross, net, got, gives),
            !.tin = tin, !.tout = tout, !.rem = rem, !.used = @ + 1]

(* Reverse: take the offer whole, or as much as still has to come out. *)
RevPartly(C, B, k, o, r, adj) ==
  Consumed(C, B, k, o, B.tin + RateUp(adj[1], r[1]), C.amount, 0,
           RateUp(adj[1], r[1]), adj[1], B.rem, RateDown(B.rem, r[2]))
RevTake(C, B, k, o, q, r, amt, st) ==
  IF st.out <= B.rem
  THEN Consumed(C, B, k, o, B.tin + st.in, B.tout + st.out, C.amount - (B.tout + st.out),
                st.in, amt[1], st.out, st.gives)
  ELSE RevPartly(C, B, k, o, r, CeilOutStrict(q, amt, B.rem, TRUE))

(* Forward: take it whole or as much as still may go in.  When that would  *)
(* deliver more than the reverse pass did for no more input, deliver what  *)
(* the reverse pass did if the input is the same.                          *)
FwdExact(C, B, k, o, r, rev, left, otherwise) ==
  IF RateUp(rev[1], r[1]) = B.rem
  THEN Consumed(C, B, k, o, C.amount, C.prev.out, 0, B.rem, rev[1], left, RateDown(left, r[2]))
  ELSE otherwise
FwdChecked(C, B, k, o, q, r, amt, tin, tout, out, otherwise) ==
  IF C.prev # NoCache /\ tout > C.prev.out /\ tin <= C.prev.in
  THEN FwdExact(C, B, k, o, r, CeilOutStrict(q, amt, C.prev.out - (tout - out), TRUE),
                C.prev.out - (tout - out), otherwise)
  ELSE otherwise
FwdPartly(C, B, k, o, q, r, amt, adj) ==
  FwdChecked(C, B, k, o, q, r, amt, C.amount, B.tout + adj[2], adj[2],
             Consumed(C, B, k, o, C.amount, B.tout + adj[2], 0,
                      B.rem, adj[1], adj[2], RateDown(adj[2], r[2])))
FwdTake(C, B, k, o, q, r, amt, st) ==
  IF st.in <= B.rem
  THEN FwdChecked(C, B, k, o, q, r, amt, B.tin + st.in, B.tout + st.out, st.out,
                  Consumed(C, B, k, o, B.tin + st.in, B.tout + st.out,
                           C.amount - (B.tin + st.in), st.in, amt[1], st.out, st.gives))
  ELSE FwdPartly(C, B, k, o, q, r, amt, CeilInStrict(q, amt, RateDown(B.rem, Inverse1(r[1]))))

(* The offer as far as its owner can fund it. *)
FundedTake(C, B, k, o, q, r, amt, st) ==
  IF C.fwd THEN FwdTake(C, B, k, o, q, r, amt, st) ELSE RevTake(C, B, k, o, q, r, amt, st)
UnderfundedTake(C, B, k, o, q, r, funds, out, amt) ==
  FundedTake(C, B, k, o, q, r, amt, [in |-> RateUp(amt[1], r[1]), out |-> out, gives |-> funds])
TakeOffer(C, B, k, o, q, r, funds) ==
  IF k[1] # C.out[2] /\ funds < RateDown(o.gets, r[2])
  THEN UnderfundedTake(C, B, k, o, q, r, funds, RateDown(funds, Inverse1(r[2])),
         CeilOutStrict(q, <<o.pays, o.gets>>, RateDown(funds, Inverse1(r[2])), FALSE))
  ELSE FundedTake(C, B, k, o, q, r, <<o.pays, o.gets>>,
         [in |-> RateUp(o.pays, r[1]), out |-> o.gets, gives |-> RateDown(o.gets, r[2])])

(* The taker's own offer in its way is removed, as is one whose owner may  *)
(* not hold what it asks for.                                              *)
selfCross(C, k, q) ==
  /\ C.sx.default /\ C.sx.limit # NoLimit /\ ~WorseThanLimit(q, C.sx.limit)
  /\ C.sx.src = k[1] /\ C.sx.dst = k[1]
execOffer(C, B, k, o, q, funds) ==
  IF B.q # NoQuality /\ ~SameQuality(B.q, q) THEN [B EXCEPT !.go = FALSE]
  ELSE IF selfCross(C, k, q) \/ ~isOfferOwnerAuthorized(B.S.af, k[1], C.in) THEN DiscardAt(B, k, q)
  ELSE IF WorseThanLimit(q, C.sx.limit) THEN [B EXCEPT !.go = FALSE]
  ELSE TakeOffer(C, [B EXCEPT !.q = q, !.tried = TRUE], k, o, q,
                 <<getOfrInRate(C, k[1]), getOfrOutRate(C, k[1])>>, funds)

Expired(l, o) == l.now > 0 /\ o.exp > 0 /\ o.exp <= l.now
FundedOffer(C, B, k, o, funds) ==
  IF funds = 0 \/ o.gets = 0
     \/ shouldRmSmallIncreasedQOffer(C.in, C.out, k[1], <<o.pays, o.gets>>, funds)
  THEN Discard(B, k)
  ELSE execOffer(C, B, k, o, <<o.pays, o.gets>>, funds)
NextOffer(C, B, k, o) ==
  IF Expired(B.S.sb.l, o) THEN [B EXCEPT !.S.sb = deleteOffer(@, k), !.S.rm = @ \union {k}]
  ELSE IF isDeepFrozen(B.S.sb.l, k[1], C.in) THEN Discard(B, k)
  ELSE FundedOffer(C, B, k, o, getOfferFundedAmount(B.S.sb, k[1], o.gets, C.out))
Visit(C, B, k) ==
  IF B.go /\ B.used < MaxOffers /\ B.rem # 0 /\ k \notin B.S.rm /\ k \in DOMAIN B.S.sb.l.offers
  THEN NextOffer(C, B, k, B.S.sb.l.offers[k]) ELSE B

(* What the call leaves: its cache, the offers used, inactive at the limit.*)
Booked(C, B) ==
  [Cached(B.S, C.i, IF C.fwd /\ B.rem = 0 THEN C.amount ELSE B.tin, None,
          IF ~C.fwd /\ B.rem = 0 THEN C.amount ELSE B.tout, "none")
   EXCEPT !.used[C.i] = B.used, !.inactive = @ \/ B.used >= MaxOffers]
BookLoop(C, S) ==
  Booked(C, FoldLeft(LAMBDA B, k : Visit(C, B, k), Looping(S, C.amount),
                     S.sb.l.books[<<C.in, C.out>>]))
prevDebtDirection(sx, S, i, fwd) ==
  IF i = 1 THEN "issues" ELSE DebtDirection(sx, S.sb, S.cache, i - 1, fwd)
BookPass(sx, S, i, amount, fwd) ==
  BookLoop([sx |-> sx, i |-> i, fwd |-> fwd, amount |-> amount,
            prev |-> IF fwd THEN S.cache[i] ELSE NoCache,
            in |-> sx.steps[i].in, out |-> sx.steps[i].out,
            trIn |-> transferRateIn(sx, sx.steps[i].in, prevDebtDirection(sx, S, i, fwd)),
            trOut |-> transferRateOut(sx, sx.steps[i].out)], S)

-----------------------------------------------------------------------------
(* A step of a strand, in reverse for a wanted output and forward for a    *)
(* given input.                                                            *)
Rev(sx, S, i, out) ==
  CASE sx.steps[i].kind = "direct" -> DirectRev(sx, S, i, out)
    [] sx.steps[i].kind = "book" -> BookPass(sx, S, i, out, FALSE)
    [] OTHER -> XRPPass(S, sx.steps[i], i, out)
Fwd(sx, S, i, in) ==
  CASE sx.steps[i].kind = "direct" -> DirectFwd(sx, S, i, in)
    [] sx.steps[i].kind = "book" -> BookPass(sx, S, i, in, TRUE)
    [] OTHER -> XRPPass(S, sx.steps[i], i, in)

=============================================================================
