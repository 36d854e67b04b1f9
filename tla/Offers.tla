------------------------------- MODULE Offers -------------------------------
(***************************************************************************)
(* The transactions of the exchange: Payment over the flow engine          *)
(* (src/internal/tx/payment/payment.go, payment_iou.go), OfferCreate and   *)
(* OfferCancel (src/internal/tx/offer).  dex is the ledger of module       *)
(* PaymentSteps, seqs the next sequence of each account, done what the     *)
(* last transaction was and did.  Fees are left out, and with them the     *)
(* difference between the balance before and after the fee.                *)
(***************************************************************************)
EXTENDS PaymentFlow

CONSTANTS Payments,              \* the payments that may be submitted
          Creates,               \* the offers: in, out, pays, gets, exp
          CreateFlags            \* sets of flags: passive, sell, fok, ioc

VARIABLES dex, seqs, done

dexVars == <<dex, seqs, done>>

-----------------------------------------------------------------------------
(* Payment *)
NoTx == [kind |-> "none", res |-> "tesSUCCESS"]

Validate(p) ==
  IF p.sendMax = None /\ p.deliver = XRP /\ p.paths = <<>> THEN "xrpDirect"
  ELSE IF p.src = p.dst /\ p.sendIssue \in {NoIssue, p.deliver} /\ p.paths = <<>> THEN "temREDUNDANT"
  ELSE IF p.min # None /\ ~p.partial THEN "temBAD_AMOUNT"
  ELSE IF p.min > p.amount THEN "temBAD_AMOUNT"
  ELSE "tesSUCCESS"

(* A result other than success leaves nothing but the fee. *)
PaidResult(p, r) ==
  IF r.res \in {"terNO_LINE", "terNO_AUTH", "terNO_RIPPLE"} THEN "tecPATH_DRY"
  ELSE IF r.res # "tesSUCCESS" THEN r.res
  ELSE IF ApplyToViewFails(r.sb) THEN "tefINTERNAL"
  ELSE IF p.partial /\ p.min # None /\ r.out < p.min THEN "tecPATH_PARTIAL"
  ELSE "tesSUCCESS"
Paid(p, r, res) ==
  /\ dex' = IF res = "tesSUCCESS" THEN r.sb.l ELSE dex
  /\ done' = [kind |-> "payment", tx |-> p, res |-> res, in |-> r.in, out |-> r.out, rm |-> r.rm]
applyIOUPaymentWithPaths(p) ==
  \E r \in {RippleCalculate(dex, p.src, p.dst, p.deliver, p.amount, p.sendIssue, p.sendMax, p.paths,
                            p.direct, p.partial, p.limitQ)} :
     Paid(p, r, PaidResult(p, r))
Payment(p) ==
  /\ Validate(p) = "tesSUCCESS"
  /\ applyIOUPaymentWithPaths(p)
  /\ seqs' = [seqs EXCEPT ![p.src] = @ + 1]

-----------------------------------------------------------------------------
(* OfferCreate *)
hasExpired(l, exp) == exp # 0 /\ exp <= l.now

checkAcceptAsset(l, a, issue) ==
  IF a = issue[2] THEN "tesSUCCESS"
  ELSE IF issue[2] \in RequireAuth /\ ~HasLine(l, a, issue[2], issue[1]) THEN "tecNO_LINE"
  ELSE IF issue[2] \in RequireAuth /\ issue[2] \notin LineOf(l, a, issue[2], issue[1]).auth
  THEN "tecNO_AUTH"
  ELSE IF isDeepFrozen(l, a, issue) THEN "tecFROZEN" ELSE "tesSUCCESS"
Preclaim(l, a, o) ==
  IF {o.in[2], o.out[2]} \intersect l.glob # {} THEN "tecFROZEN"
  ELSE IF AccountFunds(Sandbox(l), a, o.out, o.gets, FALSE) <= 0 THEN "tecUNFUNDED_OFFER"
  ELSE IF hasExpired(l, o.exp) THEN "tecEXPIRED"
  ELSE IF o.in # XRP THEN checkAcceptAsset(l, a, o.in) ELSE "tesSUCCESS"

offerDeleteInView(l, k) ==
  IF k \notin DOMAIN l.offers THEN l
  ELSE [l EXCEPT !.books[<<l.offers[k].in, l.offers[k].out>>] = SelectSeq(@, LAMBDA j : j # k),
                 !.offers = Drop(@, k)]
Counted(l, a, delta) == [l EXCEPT !.cnt[a] = @ + delta]
Deleted(l, rm) ==
  FoldSet(LAMBDA k, m : IF k \in DOMAIN m.offers THEN Counted(offerDeleteInView(m, k), k[1], -1) ELSE m,
          l, rm)

(* What is left of the offer after crossing: of what it sells when it is   *)
(* to sell everything, of what it buys otherwise.                          *)
Remaining(o, flags, x) ==
  IF x.got = 0 /\ x.net = 0 THEN <<o.pays, o.gets>>
  ELSE IF "sell" \in flags
  THEN <<RateDown(Max({0, o.gets - x.net}), <<o.pays, o.gets>>), Max({0, o.gets - x.net})>>
  ELSE <<Max({0, o.pays - x.got}), RateUp(Max({0, o.pays - x.got}), <<o.gets, o.pays>>)>>

PlaceIn(l, b, k, rate) ==
  SelectSeq(l.books[b], LAMBDA j : ~Worse(l.offers[j].rate, rate)) \o <<k>>
  \o SelectSeq(l.books[b], LAMBDA j : Worse(l.offers[j].rate, rate))
Place(l, k, o, rest) ==
  [l EXCEPT !.books[<<o.in, o.out>>] = PlaceIn(l, <<o.in, o.out>>, k, <<o.pays, o.gets>>),
            !.offers = Put(@, k, [in |-> o.in, out |-> o.out, pays |-> rest[1], gets |-> rest[2],
                                  rate |-> <<o.pays, o.gets>>, exp |-> o.exp])]

(* The result, the ledger of the sandbox that is applied, what is to be    *)
(* added to the count of the account's objects, and whether it is placed.  *)
Outcome(res, l, delta, placed) == [res |-> res, l |-> l, delta |-> delta, placed |-> placed]
AfterCross(a, k, o, flags, prior, delta, x, cancelled, rest) ==
  IF AccountFunds(x.sb, a, o.out, o.gets, TRUE) <= 0 \/ rest[1] = 0 \/ rest[2] = 0
  THEN Outcome("tesSUCCESS", x.sb.l, delta, FALSE)
  ELSE IF "fok" \in flags \/ ("ioc" \in flags /\ x.got = 0 /\ x.net = 0)
  THEN Outcome("tecKILLED", Deleted(cancelled, x.rm), delta, FALSE)
  ELSE IF "ioc" \in flags THEN Outcome("tesSUCCESS", x.sb.l, delta, FALSE)
  ELSE IF prior < ReserveFor(x.sb.l.cnt[a] + 1)
  THEN Outcome(IF x.got = 0 /\ x.net = 0 THEN "tecINSUF_RESERVE_OFFER" ELSE "tesSUCCESS",
               x.sb.l, delta, FALSE)
  ELSE Outcome("tesSUCCESS", Place(x.sb.l, k, o, rest), delta + 1, TRUE)
applyGuts(a, k, o, flags, cancelled, delta, x) ==
  IF ApplyToViewFails(x.sb) THEN Outcome("tefINTERNAL", cancelled, delta, FALSE)
  ELSE AfterCross(a, k, o, flags, dex.xrp[a], delta, x, cancelled, Remaining(o, flags, x))

(* Success applies the sandbox; tecKILLED keeps the offers it found dead   *)
(* and the cancelled one deleted; any other failure leaves nothing.        *)
Created(a, k, o, flags, x, u) ==
  /\ dex' = IF u.res \in {"tesSUCCESS", "tecKILLED"} THEN Counted(u.l, a, u.delta) ELSE dex
  /\ done' = [kind |-> "create", tx |-> o, flags |-> flags, acct |-> a, key |-> k,
              res |-> u.res, paid |-> x.paid, got |-> x.got, rm |-> x.rm, placed |-> u.placed]
ApplyCreate(a, k, o, flags, cancelled, delta) ==
  \E x \in {FlowCross(cancelled, a, o, flags)} :
     \E u \in {applyGuts(a, k, o, flags, cancelled, delta, x)} : Created(a, k, o, flags, x, u)
Refused(a, k, o, flags, res) ==
  /\ dex' = dex
  /\ done' = [kind |-> "create", tx |-> o, flags |-> flags, acct |-> a, key |-> k,
              res |-> res, paid |-> 0, got |-> 0, rm |-> {}, placed |-> FALSE]
OfferCreate(a, o, flags, cancel) ==
  /\ seqs' = [seqs EXCEPT ![a] = @ + 1]
  /\ cancel < seqs[a]
  /\ IF Preclaim(dex, a, o) # "tesSUCCESS"
     THEN Refused(a, <<a, seqs[a]>>, o, flags, Preclaim(dex, a, o))
     ELSE ApplyCreate(a, <<a, seqs[a]>>, o, flags, offerDeleteInView(dex, <<a, cancel>>),
                      IF <<a, cancel>> \in DOMAIN dex.offers THEN -1 ELSE 0)

(* OfferCancel *)
OfferCancel(k) ==
  /\ dex' = IF k \in DOMAIN dex.offers THEN Counted(offerDeleteInView(dex, k), k[1], -1) ELSE dex
  /\ done' = [kind |-> "cancel", res |-> "tesSUCCESS", key |-> k]
  /\ seqs' = [seqs EXCEPT ![k[1]] = @ + 1]

-----------------------------------------------------------------------------
(* What happens around: time passes, a gateway freezes a line or all. *)
Tick ==
  /\ dex' = [dex EXCEPT !.now = @ + 1]
  /\ done' = NoTx /\ UNCHANGED seqs
Freeze(k, g) ==
  /\ dex' = [dex EXCEPT !.lines[k].frz = IF g \in @ THEN @ \ {g} ELSE @ \union {g}]
  /\ done' = NoTx /\ UNCHANGED seqs
-----------------------------------------------------------------------------
(* Properties *)
\* What an account holds, and what a step changed of it.
Holds(l, a, issue) == IF issue = XRP THEN l.xrp[a] ELSE HeldOn(l, a, issue[2], issue[1])
Change(a, issue) == Holds(dex', a, issue) - Holds(dex, a, issue)
Idle(a) == \A k \in DOMAIN dex.offers : k[1] # a
Succeeded(kind) == done'.kind = kind /\ done'.res = "tesSUCCESS"
\* Transfer rate that the taker of an offer pays; issuers; entries in an owner count.
Fee(kind, issue) == IF kind = "create" /\ issue # XRP THEN Rate[issue[2]] ELSE One
Gateways == {b[1][2] : b \in DOMAIN dex.books}
OwnedBy(a) ==
  Cardinality({k \in DOMAIN dex.offers : k[1] = a})
  + Cardinality({k \in DOMAIN dex.lines : a \in dex.lines[k].rsv})

(* A payment that succeeds has delivered what it reports: no more than     *)
(* Amount, all of it unless it may be partial, no less than DeliverMin,    *)
(* for no more than SendMax and at no worse a quality when that is         *)
(* limited; a destination without offers of its own has received exactly   *)
(* the amount delivered and a sender without offers has lost exactly the   *)
(* amount spent, over however many strands and offers the flow loop took,  *)
(* and however often a strand was started anew.                            *)
PaymentAsReported ==
  [][Succeeded("payment") =>
      \A p \in {done'.tx}, in \in {done'.in}, out \in {done'.out} :
        /\ out <= p.amount /\ (p.partial \/ out = p.amount)
        /\ p.min # None => out >= p.min
        /\ p.sendMax # None => in <= p.sendMax
        /\ p.limitQ => ~Worse(<<in, out>>, <<p.sendMax, p.amount>>)
        /\ p.src # p.dst /\ Idle(p.dst) /\ p.dst # p.deliver[2] => Change(p.dst, p.deliver) = out
        /\ p.src # p.dst /\ Idle(p.src) /\ p.sendIssue # NoIssue /\ p.src # p.sendIssue[2]
             => Change(p.src, p.sendIssue) = -in]_dexVars

(* No transaction of the exchange makes or destroys XRP, puts a holder in  *)
(* debt, or takes an account's XRP below its reserve.                      *)
NobodyOverdrawn ==
  [][/\ FoldSet(LAMBDA a, n : n + dex'.xrp[a] - dex.xrp[a], 0, Accounts) = 0
     /\ \A a \in Accounts \ Gateways, i \in DOMAIN dex.books :
          Holds(dex', a, i[1]) >= Smaller(0, Holds(dex, a, i[1]))
     /\ \A a \in Accounts : dex'.xrp[a] < dex.xrp[a] => dex'.xrp[a] >= ReserveFor(dex.cnt[a])]_dexVars

(* What the exchange moves is what it says: a payment as reported, and     *)
(* nobody's money but what they had.                                       *)
MoneyKept == PaymentAsReported /\ NobodyOverdrawn

(* An offer that crosses pays no worse a price than it names, transfer fee *)
(* included, over all the strands and books it is filled from; what its    *)
(* account holds changes by what it paid and got, unless it traded with    *)
(* itself.                                                                 *)
TakerPriceKept ==
  [][Succeeded("create") /\ done'.got > 0 =>
      \A a \in {done'.acct}, o \in {done'.tx} :
        /\ ~WorseThanLimit(<<done'.paid, done'.got>>,
                           <<<<RateUp(o.gets, GrossRate(a, o.out)), o.pays>>, FALSE>>)
        /\ Idle(a) /\ a # o.in[2] => Change(a, o.in) = done'.got
        /\ Idle(a) /\ a # o.out[2] => Change(a, o.out) = -done'.paid]_dexVars

(* Whoever made an offer gets its price for all that is taken of it, less  *)
(* at most one unit of rounding.                                           *)
MakerPriceKept ==
  [][\A k \in DOMAIN dex.offers : \A o \in {dex.offers[k]} :
        /\ done'.kind \in {"payment", "create"}
        /\ \A j \in DOMAIN dex.offers \ {k} : j[1] # k[1]
        /\ k[1] \notin (IF done'.kind = "payment" THEN {done'.tx.src, done'.tx.dst} ELSE {done'.acct})
        /\ k[1] \notin {o.in[2], o.out[2]}
        => (Change(k[1], o.in) + 1) * o.gets
             > RateDown(-Change(k[1], o.out), Inverse1(Fee(done'.kind, o.out))) * o.pays]_dexVars

(* Neither side of a trade gets a worse price than it asked for.           *)
PricesKept == TakerPriceKept /\ MakerPriceKept

(* The books list exactly the offers there are, best rate first, and an    *)
(* account's owner count is the number of its offers and of the lines it   *)
(* keeps a reserve for, whoever created or deleted them.                   *)
OffersConsistent ==
  /\ \A a \in Accounts : dex.cnt[a] = OwnedBy(a)
  /\ \A b \in DOMAIN dex.books :
       /\ ToSet(dex.books[b]) = {k \in DOMAIN dex.offers : <<dex.offers[k].in, dex.offers[k].out>> = b}
       /\ Len(dex.books[b]) = Cardinality(ToSet(dex.books[b]))
       /\ \A i \in 1..(Len(dex.books[b]) - 1) :
            ~Worse(dex.offers[dex.books[b][i]].rate, dex.offers[dex.books[b][i + 1]].rate)

(* The sandbox of a payment or an offer can always be applied to the view: *)
(* Insert makes of an erased entry a modification (sandbox.go 231-235).    *)
SandboxApplies == done.res # "tefINTERNAL"
=============================================================================
