----------------------------- MODULE PaymentFlow -----------------------------
(***************************************************************************)
(* The payment engine (src/internal/tx/payment): paths become strands of   *)
(* steps (strand.go), a strand is run backwards for what is wanted and     *)
(* forwards from the step that limits it (strand_flow.go), the best strand *)
(* is taken again and again until the amount is met (flow.go), and an      *)
(* offer that crosses is a payment of its taker to itself (flow_cross.go). *)
(* A path is a sequence of nodes: accounts, or issues to convert into.     *)
(***************************************************************************)
EXTENDS PaymentSteps

CONSTANTS MaxTries,              \* maxTries of the flow loop
          MaxConsidered,         \* maxOffersToConsider
          MaxDeliver             \* what a sell offer asks for

NoIssue == <<"none", 0>>
AccountNode(a) == [acct |-> a, issue |-> NoIssue]
OfferNode(issue) == [acct |-> 0, issue |-> issue]
StartIssue(src, sendIssue, dstIssue) ==
  IF sendIssue = XRP \/ (sendIssue = NoIssue /\ dstIssue = XRP) THEN XRP
  ELSE <<IF sendIssue = NoIssue THEN dstIssue[1] ELSE sendIssue[1], src>>

(* The path with the nodes it leaves out: the source, the issuer of what   *)
(* is sent, a last conversion, the issuer of what is delivered, the        *)
(* destination.                                                            *)
FromSource(src, dstIssue, sendIssue, path) ==
  <<[acct |-> src, issue |-> StartIssue(src, sendIssue, dstIssue)]>>
  \o (IF sendIssue \notin {NoIssue, XRP} /\ sendIssue[2] # src
         /\ ~(path # <<>> /\ path[1].acct = sendIssue[2])
      THEN <<AccountNode(sendIssue[2])>> ELSE <<>>)
  \o path
LastIssue(p) == Last(SelectSeq(p, LAMBDA n : n.issue # NoIssue)).issue
WithConversion(p, dstIssue, crossing) ==
  IF LastIssue(p)[1] # dstIssue[1] \/ (crossing /\ LastIssue(p)[2] # dstIssue[2])
  THEN Append(p, OfferNode(dstIssue)) ELSE p
WithIssuer(p, dst, dstIssue) ==
  IF dstIssue # XRP /\ Last(p).acct # dstIssue[2] /\ dst # dstIssue[2]
  THEN Append(p, AccountNode(dstIssue[2])) ELSE p
WithDestination(p, dst) == IF Last(p).acct # dst THEN Append(p, AccountNode(dst)) ELSE p
normPath(ctx, sendIssue, path) ==
  WithDestination(
    WithIssuer(WithConversion(FromSource(ctx.src, ctx.deliver, sendIssue, path),
                              ctx.deliver, ctx.crossing),
               ctx.dst, ctx.deliver), ctx.dst)

-----------------------------------------------------------------------------
(* What a strand may be made of. *)
checkFreeze(l, src, dst, c) ==
  \/ dst \in l.glob
  \/ HasLine(l, src, dst, c)
     /\ (dst \in LineOf(l, src, dst, c).frz \/ LineOf(l, src, dst, c).deep # {})
checkAuth(l, src, dst, c) ==
  src \in RequireAuth => src \in LineOf(l, src, dst, c).auth \/ LineOf(l, src, dst, c).bal # 0
creditExhausted(l, s) ==
  /\ HeldOn(l, s.src, s.dst, s.cur) <= 0
  /\ -HeldOn(l, s.src, s.dst, s.cur) >= LineOf(l, s.src, s.dst, s.cur).lim[s.dst]
checkNoRipple(l, prev, cur, next, c) ==
  IF ~HasLine(l, prev, cur, c) THEN "terNO_LINE"
  ELSE IF cur \in LineOf(l, prev, cur, c).nor /\ cur \in LineOf(l, cur, next, c).nor
       THEN "terNO_RIPPLE" ELSE "tesSUCCESS"
checkDirectStep(ctx, s, steps) ==
  IF ~(s.first /\ s.last) /\ checkFreeze(ctx.l, s.src, s.dst, s.cur) THEN "terNO_LINE"
  ELSE IF ctx.crossing THEN "tesSUCCESS"
  ELSE IF ~HasLine(ctx.l, s.src, s.dst, s.cur) THEN "terNO_LINE"
  ELSE IF ~checkAuth(ctx.l, s.src, s.dst, s.cur) THEN "terNO_AUTH"
  ELSE IF steps # <<>> /\ Last(steps).kind = "book"
          /\ s.src \in LineOf(ctx.l, s.src, s.dst, s.cur).nor THEN "terNO_RIPPLE"
  ELSE IF creditExhausted(ctx.l, s) THEN "tecPATH_DRY"
  ELSE IF steps # <<>> /\ Last(steps).kind = "direct"
       THEN checkNoRipple(ctx.l, Last(steps).src, s.src, s.dst, s.cur)
  ELSE "tesSUCCESS"
checkBookStep(ctx, in, steps) ==
  IF steps = <<>> \/ in = XRP THEN "tesSUCCESS"
  ELSE IF Last(steps).kind # "direct" THEN "tesSUCCESS"
  ELSE IF ~HasLine(ctx.l, Last(steps).src, in[2], in[1]) THEN "terNO_LINE"
  ELSE IF in[2] \in LineOf(ctx.l, Last(steps).src, in[2], in[1]).nor THEN "terNO_RIPPLE"
  ELSE "tesSUCCESS"

(* Building.  T is the strand so far: its result, current issue, steps,    *)
(* and the issues seen as source and destination of direct steps and as    *)
(* output of books, which may not come twice.                              *)
Building(start) ==
  [res |-> "tesSUCCESS", cur |-> start, steps |-> <<>>, srcs |-> {}, dsts |-> {}, outs |-> {}]
Added(T, s, res) ==
  IF res # "tesSUCCESS" THEN [T EXCEPT !.res = res] ELSE [T EXCEPT !.steps = Append(@, s)]

DirectLoops(ctx, T, a, b, c) ==
  \/ a \notin {ctx.src, ctx.dst} /\ <<c, a>> \in T.srcs
  \/ b \notin {ctx.src, ctx.dst} /\ <<c, b>> \in T.dsts
AddDirectStep(ctx, T, s) ==
  IF DirectLoops(ctx, T, s.src, s.dst, s.cur) THEN [T EXCEPT !.res = "temBAD_PATH_LOOP"]
  ELSE Added([T EXCEPT !.srcs = @ \union {<<s.cur, s.src>>}, !.dsts = @ \union {<<s.cur, s.dst>>}],
             s, checkDirectStep(ctx, s, T.steps))
AddDirect(ctx, T, a, b, c, last) ==
  AddDirectStep(ctx, T, DirectStep(a, b, c, T.steps = <<>>, last))

(* The taker's reserve need not grow for the line its offer is to create. *)
reserveReduction(ctx, a, first) ==
  IF ctx.crossing /\ first /\ ctx.deliver # XRP /\ ~HasLine(ctx.l, a, ctx.deliver[2], ctx.deliver[1])
  THEN -1 ELSE 0
AddXRP(ctx, T, a, last) ==
  IF (last /\ XRP \in T.srcs) \/ (~last /\ XRP \in T.dsts) THEN [T EXCEPT !.res = "temBAD_PATH_LOOP"]
  ELSE Added(IF last THEN [T EXCEPT !.srcs = @ \union {XRP}] ELSE [T EXCEPT !.dsts = @ \union {XRP}],
             XRPEndpoint(a, last, reserveReduction(ctx, a, ~last)), "tesSUCCESS")
AddBook(ctx, T, out) ==
  IF T.res # "tesSUCCESS" THEN T
  ELSE IF T.cur = out THEN [T EXCEPT !.res = "temBAD_PATH"]
  ELSE IF out \in T.outs \union T.srcs \union T.dsts THEN [T EXCEPT !.res = "temBAD_PATH_LOOP"]
  ELSE Added([T EXCEPT !.outs = @ \union {out}, !.cur = out], BookStep(T.cur, out),
             checkBookStep(ctx, T.cur, T.steps))

AccountToAccount(ctx, T, a, b, first, last) ==
  IF T.cur # XRP THEN AddDirect(ctx, T, a, b, T.cur[1], last)
  ELSE FoldLeft(LAMBDA U, end : IF U.res # "tesSUCCESS" \/ (IF end THEN ~last ELSE ~first) THEN U
                                ELSE AddXRP(ctx, U, IF end THEN b ELSE a, end),
                T, <<FALSE, TRUE>>)
AccountToOffer(ctx, T, a, out, first) ==
  IF T.cur = XRP /\ first
  THEN IF out = XRP THEN AddXRP(ctx, T, a, FALSE) ELSE AddBook(ctx, AddXRP(ctx, T, a, FALSE), out)
  ELSE AddBook(ctx, T, out)
OfferToAccount(ctx, T, b, last) ==
  IF T.cur = XRP THEN AddXRP(ctx, T, b, TRUE)
  ELSE IF T.cur[2] # b THEN AddDirect(ctx, T, T.cur[2], b, T.cur[1], last) ELSE T

(* The issue held at a node. *)
CurIssue(T, n) ==
  IF n.issue # NoIssue THEN n.issue ELSE IF T.cur = XRP THEN XRP ELSE <<T.cur[1], n.acct>>
Between(ctx, T, m, n, first, last) ==
  IF m.acct # 0
  THEN IF n.acct # 0 THEN AccountToAccount(ctx, T, m.acct, n.acct, first, last)
       ELSE AccountToOffer(ctx, T, m.acct, n.issue, first)
  ELSE IF n.acct # 0 THEN OfferToAccount(ctx, T, n.acct, last) ELSE AddBook(ctx, T, n.issue)
StepAt(ctx, T, p, i) ==
  IF T.res # "tesSUCCESS" THEN T
  ELSE Between(ctx, [T EXCEPT !.cur = CurIssue(T, p[i])], p[i], p[i + 1], i = 1, i = Len(p) - 1)
ToStrandOver(ctx, p) ==
  IF Len(p) < 2 THEN [Building(NoIssue) EXCEPT !.res = "temBAD_PATH"]
  ELSE FoldLeft(LAMBDA T, i : StepAt(ctx, T, p, i), Building(p[1].issue),
                [i \in 1..(Len(p) - 1) |-> i])
ToStrand(ctx, sendIssue, path) == ToStrandOver(ctx, normPath(ctx, sendIssue, path))

(* Strands are the same when their steps join the same accounts and books. *)
Joins(s) == CASE s.kind = "direct" -> <<s.src, s.dst>> [] s.kind = "book" -> <<s.in, s.out>>
              [] OTHER -> IF s.last THEN <<0, s.acct>> ELSE <<s.acct, 0>>
strandsEqual(a, b) == [i \in DOMAIN a |-> Joins(a[i])] = [i \in DOMAIN b |-> Joins(b[i])]

Malformed(res) == res \in {"temBAD_PATH", "temBAD_PATH_LOOP"}
Strand(ctx, steps, default) ==
  [steps |-> steps, src |-> ctx.src, dst |-> ctx.dst, crossing |-> ctx.crossing,
   limit |-> IF Cardinality({i \in DOMAIN steps : steps[i].kind = "book"}) = 1
             THEN ctx.limit ELSE NoLimit,
   default |-> default, cache |-> [i \in DOMAIN steps |-> NoCache]]
AddStrand(ctx, G, T, default) ==
  IF T.res # "tesSUCCESS" THEN [G EXCEPT !.res = T.res, !.stop = Malformed(T.res)]
  ELSE IF T.steps = <<>> \/ \E i \in DOMAIN G.strands : strandsEqual(G.strands[i].steps, T.steps)
       THEN G
  ELSE [G EXCEPT !.strands = Append(@, Strand(ctx, T.steps, default))]
ToStrands(ctx, sendIssue, paths, addDefault) ==
  FoldLeft(LAMBDA G, path : IF G.stop THEN G
                            ELSE AddStrand(ctx, G, ToStrand(ctx, sendIssue, path), path = <<>>),
           [strands |-> <<>>, stop |-> FALSE,
            res |-> IF addDefault \/ paths # <<>> THEN "tesSUCCESS" ELSE "temRIPPLE_EMPTY"],
           (IF addDefault THEN <<<<>>>> ELSE <<>>) \o paths)
StrandsResult(G) ==
  IF G.stop THEN G.res
  ELSE IF G.strands = <<>> THEN (IF G.res = "tesSUCCESS" THEN "tecPATH_DRY" ELSE G.res)
  ELSE "tesSUCCESS"

-----------------------------------------------------------------------------
(* One strand: backwards for the wanted output; a step that gives less, or *)
(* a first step that takes more than it may, starts the sandbox anew; then *)
(* forwards from there.  R is the pass: the state S, the amount wanted of  *)
(* or given to the next step, the limiting step, whether it ran dry.       *)
(* A mutant: the sandbox keeps what the first attempt moved. *)
ResetNot(S, base) == S
Reset(S, base) == [S EXCEPT !.sb = Child(base)]
Refit(R, S, i) ==
  [R EXCEPT !.S = S, !.lim = i, !.dry = S.cache[i].out = 0, !.want = S.cache[i].in]
RevResult(sx, base, maxIn, R, i, S) ==
  IF S.cache[i].out = 0 THEN [R EXCEPT !.S = S, !.dry = TRUE]
  ELSE IF i = 1 /\ maxIn # None /\ maxIn < S.cache[1].in
  THEN Refit(R, Fwd(sx, Reset(S, base), 1, maxIn), 1)
  ELSE IF S.cache[i].out # R.want
  THEN Refit(R, Rev(sx, Reset(S, base), i, S.cache[i].out), i)
  ELSE [R EXCEPT !.S = S, !.want = S.cache[i].in]
ReversePass(sx, base, maxIn, R, i) ==
  IF R.dry THEN R ELSE RevResult(sx, base, maxIn, R, i, Rev(sx, R.S, i, R.want))

FwdResult(R, S, i) == [R EXCEPT !.S = S, !.dry = S.cache[i].out = 0]
ForwardPass(sx, R, i) ==
  IF R.dry \/ i <= R.lim THEN R ELSE FwdResult(R, Fwd(sx, R.S, i, R.S.cache[i - 1].out), i)

StrandStart(sx, base) ==
  [sb |-> Child(base), af |-> base.l, rm |-> {}, cache |-> sx.cache,
   used |-> [i \in DOMAIN sx.steps |-> 0], inactive |-> FALSE]
Backwards(n) == [i \in 1..n |-> n + 1 - i]
Upwards(n) == [i \in 1..n |-> i]
StrandResult(R, n) ==
  IF R.dry THEN [ok |-> FALSE, rm |-> R.S.rm]
  ELSE [ok |-> TRUE, rm |-> R.S.rm, in |-> R.S.cache[1].in, out |-> R.S.cache[n].out,
        sb |-> R.S.sb, cache |-> R.S.cache, inactive |-> R.S.inactive,
        used |-> FoldLeft(LAMBDA k, u : k + u, 0, R.S.used)]
ExecuteStrand(sx, base, maxIn, out) ==
  StrandResult(
    FoldLeft(LAMBDA R, i : ForwardPass(sx, R, i),
      FoldLeft(LAMBDA R, i : ReversePass(sx, base, maxIn, R, i),
               [S |-> StrandStart(sx, base), want |-> out, lim |-> Len(sx.steps), dry |-> FALSE],
               Backwards(Len(sx.steps))),
      Upwards(Len(sx.steps))),
    Len(sx.steps))

-----------------------------------------------------------------------------
(* An upper bound of a strand's quality, from the tips of its books. *)
NoBound == <<0, 0>>
DirectBound(q) == Compose(q[1], Inverse1(q[2]))
QualityUpperBound(sx, sb, i) ==
  CASE sx.steps[i].kind = "xrp" -> One
    [] sx.steps[i].kind = "book" ->
         IF sb.l.books[<<sx.steps[i].in, sx.steps[i].out>>] = <<>> THEN NoBound
         ELSE sb.l.offers[Head(sb.l.books[<<sx.steps[i].in, sx.steps[i].out>>])].rate
    [] OTHER -> IF sx.crossing THEN One
                ELSE DirectBound(qualities(sx, sb, sx.cache, i,
                                           DebtDirection(sx, sb, sx.cache, i, TRUE), TRUE))
GetStrandQuality(sx, sb) ==
  FoldLeft(LAMBDA q, i : Compose(q, QualityUpperBound(sx, sb, i)),
           One, Upwards(Len(sx.steps)))
Ranked(s, e) ==
  SelectSeq(s, LAMBDA x : ~Worse(x.q, e.q)) \o <<e>> \o SelectSeq(s, LAMBDA x : Worse(x.q, e.q))
RankStrand(s, sx, q, limit) ==
  IF q = NoBound \/ WorseThanLimit(q, limit) THEN s ELSE Ranked(s, [sx |-> sx, q |-> q])
Strands(s) == [i \in DOMAIN s |-> s[i].sx]
activateNext(next, sb, limit) ==
  IF Len(next) <= 1 THEN next
  ELSE Strands(FoldLeft(LAMBDA r, sx : RankStrand(r, sx, GetStrandQuality(sx, sb), limit), <<>>, next))

(* The flow: F accumulates what the best strand of each round did; X is a  *)
(* round.  Offers found dead are deleted at the end of the round, those    *)
(* met by strands that failed included.                                    *)
NoBest == [ok |-> FALSE]
(* A mutant: what a strand did is taken at any quality. *)
StrandTriedAnyway(X, sx, r, limit) ==
  IF ~r.ok THEN [X EXCEPT !.rm = @ \union r.rm]
  ELSE [X EXCEPT !.rm = @ \union r.rm, !.considered = @ + r.used, !.best = r,
                 !.next = IF r.inactive THEN @ ELSE Append(@, [sx EXCEPT !.cache = r.cache])]
StrandTried(X, sx, r, limit) ==
  IF ~r.ok THEN [X EXCEPT !.rm = @ \union r.rm]
  ELSE IF WorseThanLimit(<<r.in, r.out>>, limit)
  THEN [X EXCEPT !.rm = @ \union r.rm, !.considered = @ + r.used]
  ELSE [X EXCEPT !.rm = @ \union r.rm, !.considered = @ + r.used, !.best = r,
                 !.next = IF r.inactive THEN @ ELSE Append(@, [sx EXCEPT !.cache = r.cache])]
TryStrand(F, X, sx, limit) ==
  IF X.best.ok THEN [X EXCEPT !.next = Append(@, sx)]
  ELSE StrandTried(X, sx, ExecuteStrand(sx, F.sb, F.maxIn, F.want), limit)
offerDeleteInSandbox(sb, k) == IF k \in DOMAIN sb.l.offers THEN deleteOffer(sb, k) ELSE sb
Swept(sb, rm) == FoldSet(LAMBDA k, s : offerDeleteInSandbox(s, k), sb, rm)
RoundOver(F, X) ==
  [F EXCEPT
     !.sb = Swept(IF X.best.ok THEN Applied(X.best.sb) ELSE @, X.rm), !.rm = @ \union X.rm,
     !.in = @ + (IF X.best.ok THEN X.best.in ELSE 0),
     !.out = @ + (IF X.best.ok THEN X.best.out ELSE 0),
     !.want = Max({0, @ - (IF X.best.ok THEN X.best.out ELSE 0)}),
     !.maxIn = IF @ = None \/ ~X.best.ok THEN @ ELSE @ - X.best.in,
     !.next = X.next, !.considered = X.considered,
     !.go = X.best.ok /\ X.considered < MaxConsidered]
FlowRound(F, cur, limit) ==
  IF cur = <<>> THEN [F EXCEPT !.go = FALSE]
  ELSE RoundOver(F, FoldLeft(LAMBDA X, sx : TryStrand(F, X, sx, limit),
         [best |-> NoBest, next |-> <<>>, rm |-> {}, considered |-> F.considered], cur))
FlowLoop(F, limit) ==
  IF F.go /\ F.want # 0 /\ (F.maxIn # None => F.maxIn > 0)
  THEN FlowRound(F, activateNext(F.next, F.sb, limit), limit) ELSE F
FlowResult(F, outReq, partial) ==
  [in |-> F.in, out |-> F.out, sb |-> F.sb, rm |-> F.rm,
   res |-> IF F.out >= outReq THEN "tesSUCCESS"
           ELSE IF ~partial THEN "tecPATH_PARTIAL"
           ELSE IF F.out = 0 THEN "tecPATH_DRY" ELSE "tesSUCCESS"]
Flow(sb, strands, outReq, partial, limit, sendMax) ==
  FlowResult(FoldLeft(LAMBDA F, i : FlowLoop(F, limit),
    [sb |-> Child(sb), next |-> strands, want |-> outReq, maxIn |-> sendMax, in |-> 0, out |-> 0,
     rm |-> {}, considered |-> 0, go |-> TRUE], Upwards(MaxTries)), outReq, partial)

-----------------------------------------------------------------------------
(* A payment over paths. *)
Context(l, src, dst, deliver, crossing, limit) ==
  [l |-> l, src |-> src, dst |-> dst, deliver |-> deliver, crossing |-> crossing, limit |-> limit]
Calculated(sb, r) ==
  [r EXCEPT !.sb = IF r.res \in {"tesSUCCESS", "tecPATH_PARTIAL"} THEN Applied(r.sb) ELSE sb]
CalculateOver(sb, G, amount, sendMax, partial, limit) ==
  IF StrandsResult(G) # "tesSUCCESS"
  THEN [in |-> 0, out |-> 0, sb |-> sb, rm |-> {}, res |-> StrandsResult(G)]
  ELSE Calculated(sb, Flow(sb, G.strands, amount, partial, limit, sendMax))
RippleCalculate(l, src, dst, deliver, amount, sendIssue, sendMax, paths, addDefault, partial, limitQ) ==
  CalculateOver(Sandbox(l), ToStrands(Context(l, src, dst, deliver, FALSE, NoLimit), sendIssue, paths,
                                      addDefault),
                amount, sendMax, partial,
                IF limitQ /\ sendMax # None THEN <<<<sendMax, amount>>, FALSE>> ELSE NoLimit)

(* What an account may spend of an issue; its issuer may spend any amount. *)
Hooked(sb, a, issue, n, hooked) ==
  IF hooked THEN BalanceHook(sb, a, issue[2], issue[1], n) ELSE n
AccountFunds(sb, a, issue, amount, hooked) ==
  IF issue = XRP
  THEN Max({0, Hooked(sb, a, XRP, Max({0, sb.l.xrp[a] - ReserveFor(sb.l.cnt[a])}), hooked)})
  ELSE IF a = issue[2] THEN amount
  ELSE IF isFrozen(sb.l, a, issue) \/ isDeepFrozen(sb.l, a, issue) THEN 0
  ELSE Hooked(sb, a, issue, Max({0, HeldOn(sb.l, a, issue[2], issue[1])}), hooked)

(* A crossing: the taker sells gets of sell for pays of buy. *)
GrossRate(taker, issue) == IF issue = XRP \/ taker = issue[2] THEN One ELSE Rate[issue[2]]
Crossed(r, rate) ==
  [res |-> r.res, got |-> r.out, paid |-> r.in, net |-> RateUp(r.in, Inverse1(rate)),
   sb |-> Applied(r.sb), rm |-> r.rm]
CrossOver(sb, G, deliver, limit, sendMax, rate) ==
  IF StrandsResult(G) # "tesSUCCESS"
  THEN [res |-> "tecPATH_DRY", got |-> 0, paid |-> 0, net |-> 0, sb |-> sb, rm |-> {}]
  ELSE Crossed(Flow(sb, G.strands, deliver, TRUE, limit, sendMax), rate)
CrossLimited(l, taker, o, flags, limit, rate, gross) ==
  CrossOver(Sandbox(l),
    ToStrands(Context(l, taker, taker, o.in, TRUE, limit), o.out,
              IF o.in # XRP /\ o.out # XRP THEN <<<<OfferNode(XRP)>>>> ELSE <<>>, TRUE),
    IF "sell" \in flags THEN MaxDeliver ELSE o.pays, limit,
    Smaller(gross, AccountFunds(Sandbox(l), taker, o.out, gross, FALSE)), rate)
FlowCross(l, taker, o, flags) ==
  CrossLimited(l, taker, o, flags,
    <<<<RateUp(o.gets, GrossRate(taker, o.out)), o.pays>>, "passive" \in flags>>,
    GrossRate(taker, o.out), RateUp(o.gets, GrossRate(taker, o.out)))
=============================================================================
