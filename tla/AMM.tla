-------------------------------- MODULE AMM --------------------------------
(***************************************************************************)
(* The automated market maker: its seven transactions                      *)
(* (src/internal/tx/amm) and the swaps payments make with its pool         *)
(* (src/internal/tx/payment/amm_*.go).                                     *)
(*                                                                         *)
(* There is one pair.  Asset 1 is a token of Issuer; asset 2 is XRP when   *)
(* native, else another token of Issuer.  Amounts and LP tokens are whole  *)
(* numbers and the formulas are exact, rounded as the code rounds: what a  *)
(* party gets down, what it gives up.  A fee of p stands for p / FeeScale. *)
(* The ledger is a record:                                                 *)
(*   amm    NoAMM, or lpt (LPTokenBalance), fee, votes, slot, and whether  *)
(*          lpt has always counted everybody's tokens (whole, a ghost)     *)
(*   pool   what the AMM account holds of each asset                       *)
(*   links  the trust lines in the AMM's owner directory: the parties with *)
(*          an LP line and the assets with a pool line                     *)
(*   xrp, owners   XRP and owner count of each party                       *)
(*   line   each party's line with Issuer for each asset, or NoLine        *)
(*   lp     each party's balance on its LP line, or Absent                 *)
(* A transaction that fails changes nothing here; its fee is charged by    *)
(* the engine (module Transactor).  Whole numbers lose no digits, so the   *)
(* LPTokenBalance differs from the tokens held only where the code makes   *)
(* it differ; when that takes it below zero nothing more is deposited,     *)
(* withdrawn, clawed back, voted or bid here.                              *)
(***************************************************************************)
EXTENDS Integers, FiniteSets, SequencesExt

CONSTANTS Parties, Issuer,
          Amounts, Tokens,       \* what a transaction may name; 0 is "not given"
          Prices,                \* effective prices, pairs <<numerator, denominator>>
          Fees, FeeScale,        \* TradingFee values and what stands for one
          DiscountFraction,      \* AUCTION_SLOT_DISCOUNTED_FEE_FRACTION
          MinFeeFraction,        \* auctionSlotMinFeeFraction
          voteMaxSlots, VoteScale,
          Intervals, IntervalLength, DecayPower,
          Tolerance,             \* 1 / Tolerance is the 0.001 of verifyAndAdjustLPTokenBalance
          maxDeletableAMMTrustLines,
          BaseReserve, IncReserve,
          Funds, FundsXRP,       \* what each party starts with
          LastTime

ASSUME AMMConstants ==
  /\ Issuer \in Parties /\ Fees \subseteq 0..(FeeScale - 1)
  /\ \A n \in {FeeScale, DiscountFraction, MinFeeFraction, voteMaxSlots, VoteScale, Intervals,
               IntervalLength, DecayPower, Tolerance, maxDeletableAMMTrustLines} : n \in Nat \ {0}
  /\ BaseReserve \in Nat /\ IncReserve \in Nat /\ Funds \in Nat /\ FundsXRP \in Nat
  /\ Amounts \subseteq Nat /\ Tokens \subseteq Nat
  /\ \A e \in Prices : e[1] \in Nat \ {0} /\ e[2] \in Nat \ {0}

VARIABLES pools,                 \* the ledger
          native,                \* whether asset 2 is XRP
          frozen,                \* whether Issuer has GlobalFreeze
          clock                  \* parent close time

ammVars == <<pools, native, frozen, clock>>

Assets == {1, 2}
Other(x) == 3 - x
Absent == -1
NoLine == [bal |-> Absent, trusted |-> FALSE]
NoAMM == [lpt |-> Absent]

IsXRP(x) == x = 2 /\ native
IOUs == {x \in Assets : ~IsXRP(x)}

Ceil(n, d) == (n + d - 1) \div d
Less(n, m) == IF n > m THEN n - m ELSE 0

-----------------------------------------------------------------------------
(* The formulas.  b is a pool balance, T the LP tokens outstanding, p the  *)
(* fee.                                                                    *)

(* calculateLPTokens.                                                      *)
calculateLPTokens(a1, a2) == CHOOSE n \in 0..(a1 + a2) : n * n <= a1 * a2 /\ (n + 1) * (n + 1) > a1 * a2

(* getRoundedAsset and getRoundedLPTokens, with the fraction n / d.        *)
getRoundedAssetDown(b, n, d, isDeposit) == (b * n) \div d     \* a mutant
getRoundedAsset(b, n, d, isDeposit) == IF isDeposit THEN Ceil(b * n, d) ELSE (b * n) \div d
getRoundedLPTokens(T, n, d, isDeposit) == IF isDeposit THEN (T * n) \div d ELSE Ceil(T * n, d)

(* By its sign, whether a deposit of i is worth more than t / td LP        *)
(* tokens: equation 3 of the AMM, t = T (r - c) / (1 + c) with r = i / b   *)
(* and c = sqrt(f2^2 + r / f1) - f2, cleared of its root and fractions.    *)
Surplus(b, i, T, t, td, p) ==
  LET f1 == FeeScale - p
      h  == 2 * FeeScale - p
      N  == 2 * f1 * (T * td * i - t * b) + h * b * (T * td + t)
      M  == T * td + t
  IN  IF N < 0 THEN -1 ELSE N * N - (h * h * b + 4 * f1 * FeeScale * i) * b * M * M

Largest(S) == CHOOSE n \in S : \A m \in S : m <= n
Smallest(S) == CHOOSE n \in S : \A m \in S : n <= m

(* lpTokensOut: never more than the deposit's share of the pool.           *)
lpTokensOut(b, i, T, p) ==
  Largest({t \in 0..((T * i) \div b) : Surplus(b, i, T, t, 1, p) >= 0})

(* ammAssetIn (equation 4), the inverse of lpTokensOut, rounded up.        *)
ammAssetIn(b, T, t, p) ==
  Smallest({i \in 0..(Ceil(b * t * (2 * T + t) * FeeScale, T * T * (FeeScale - p)) + 1) :
              Surplus(b, i, T, t, 1, p) >= 0})

(* ammAssetOut (equation 8).                                               *)
ammAssetOut(b, T, t, p) ==
  (b * t * ((2 * FeeScale - p) * T - FeeScale * t)) \div (T * (FeeScale * T - p * t))

(* calcLPTokensIn (equation 7): the fewest tokens worth the amount.        *)
calcLPTokensIn(b, out, T, p) ==
  Smallest({t \in 0..T : out * T * (FeeScale * T - p * t)
                          <= b * t * ((2 * FeeScale - p) * T - FeeScale * t)})

(* adjustAssetInByTokens and adjustAssetOutByTokens: when the tokens are   *)
(* worth more than the amount, both are recomputed for as much less.       *)
adjustAssetInByTokens(b, amount, T, t, p) ==
  LET over  == ammAssetIn(b, T, t, p) - amount
      again == lpTokensOut(b, Less(amount, over), T, p)
  IN  IF over > 0
        THEN [tokens |-> again, amount |-> Smallest({amount, ammAssetIn(b, T, again, p)})]
        ELSE [tokens |-> t, amount |-> amount + over]

adjustAssetOutByTokens(b, amount, T, t, p) ==
  LET over  == ammAssetOut(b, T, t, p) - amount
      again == calcLPTokensIn(b, Less(amount, over), T, p)
  IN  IF over > 0
        THEN [tokens |-> again, amount |-> Smallest({amount, ammAssetOut(b, T, again, p)})]
        ELSE [tokens |-> t, amount |-> amount + over]

(* SwapAssetIn and SwapAssetOut: what a taker gets for in, and gives for   *)
(* out.                                                                    *)
SwapAssetIn(poolIn, poolOut, in, p) ==
  Less(poolOut, Ceil(poolIn * poolOut * FeeScale, poolIn * FeeScale + in * (FeeScale - p)))

SwapAssetOut(poolIn, poolOut, out, p) ==
  Ceil((Ceil(poolIn * poolOut, poolOut - out) - poolIn) * FeeScale, FeeScale - p)

-----------------------------------------------------------------------------
(* What a deposit or withdrawal will do: amounts d of both assets, and     *)
(* tokens.  A mode yields the set of its one plan, or {} where it fails.   *)
(* m is the transaction: amt, the Amount and Amount2 given, already in     *)
(* asset order, tokens and price.                                          *)
Plan(d1, d2, tokens) == {[d |-> <<d1, d2>>, tokens |-> tokens]}
OneSided(x, amount, tokens) == IF x = 1 THEN Plan(amount, 0, tokens) ELSE Plan(0, amount, tokens)

equalDepositTokens(b, T, m) ==
  LET d(x) == getRoundedAsset(b[x], m.tokens, T, TRUE)
  IN  IF \A x \in Assets : m.amt[x] <= d(x) THEN Plan(d(1), d(2), m.tokens) ELSE {}

singleDeposit(b, T, p, m, x) ==
  LET adj == adjustAssetInByTokens(b[x], m.amt[x], T, lpTokensOut(b[x], m.amt[x], T, p), p)
  IN  IF lpTokensOut(b[x], m.amt[x], T, p) > 0 /\ adj.tokens >= m.tokens
        THEN OneSided(x, adj.amount, adj.tokens) ELSE {}

(* The first amount taken whole, then the second.                          *)
equalDepositLimit(b, T, m) ==
  LET tok(x) == getRoundedLPTokens(T, m.amt[x], b[x], TRUE)
      d(x)   == getRoundedAsset(b[Other(x)], tok(x), T, TRUE)
  IN  IF tok(1) = 0 THEN {}
      ELSE IF d(1) <= m.amt[2] THEN (IF tok(1) >= m.tokens THEN Plan(m.amt[1], d(1), tok(1)) ELSE {})
      ELSE IF tok(2) > 0 /\ d(2) <= m.amt[1] /\ tok(2) >= m.tokens THEN Plan(d(2), m.amt[2], tok(2))
      ELSE {}

singleDepositTokens(b, T, p, m, x) ==
  IF m.tokens > 0 /\ ammAssetIn(b[x], T, m.tokens, p) <= m.amt[x]
    THEN OneSided(x, ammAssetIn(b[x], T, m.tokens, p), m.tokens) ELSE {}

(* Directly when the amount given has the price; else the amount at which  *)
(* the price is met, where the quadratic has its positive root.  A root    *)
(* beyond twice what a party starts with is not looked for: nobody could   *)
(* fund it.                                                                *)
singleDepositEPrice(b, T, p, m, x) ==
  LET en     == m.price[1]
      ed     == m.price[2]
      direct == singleDeposit(b, T, p, [m EXCEPT !.tokens = 0], x)
      roots  == {i \in 1..(2 * Funds) : Surplus(b[x], i, T, i * ed, en, p) <= 0}
      root   == Smallest(roots)
      adj    == adjustAssetInByTokens(b[x], root, T, (root * ed) \div en, p)
  IN  IF m.amt[x] > 0 /\ direct = {} THEN {}
      ELSE IF m.amt[x] > 0 /\ \E q \in direct : q.d[x] * ed <= en * q.tokens THEN direct
      ELSE IF en * T * (FeeScale - p) <= ed * b[x] * (2 * FeeScale - p) \/ roots = {} THEN {}
      ELSE OneSided(x, adj.amount, adj.tokens)

equalWithdrawTokens(b, T, held, t) ==
  LET d(x) == getRoundedAsset(b[x], t, T, FALSE)
  IN  IF t = 0 \/ t > held THEN {}
      ELSE IF t = T THEN Plan(b[1], b[2], t)
      ELSE IF d(1) = 0 \/ d(2) = 0 THEN {}
      ELSE Plan(d(1), d(2), t)

singleWithdraw(b, T, p, m, x) ==
  LET adj == adjustAssetOutByTokens(b[x], m.amt[x], T, calcLPTokensIn(b[x], m.amt[x], T, p), p)
  IN  IF m.amt[x] > 0 /\ adj.tokens > 0 THEN OneSided(x, adj.amount, adj.tokens) ELSE {}

(* Amount is taken for asset 1 and Amount2 for asset 2, whichever assets   *)
(* they were given in.                                                     *)
equalWithdrawLimit(b, T, m) ==
  LET given(x) == IF m.swapped THEN m.amt[Other(x)] ELSE m.amt[x]
      tok(x)   == getRoundedLPTokens(T, given(x), b[x], FALSE)
      d(x)     == getRoundedAsset(b[Other(x)], tok(x), T, FALSE)
  IN  IF tok(1) = 0 \/ tok(2) = 0 THEN {}
      ELSE IF d(1) <= given(2) THEN Plan(given(1), d(1), tok(1))
      ELSE IF d(2) <= given(1) THEN Plan(d(2), given(2), tok(2))
      ELSE {}

(* The amount given is the least that will do.  Who holds more tokens than *)
(* LPTokenBalance says there are may still withdraw, up to the root of the *)
(* formula.                                                                *)
singleWithdrawTokens(b, T, p, m, x, t) ==
  IF /\ t > 0 /\ FeeScale * T > p * t /\ FeeScale * t < (2 * FeeScale - p) * T
     /\ ammAssetOut(b[x], T, t, p) >= m.amt[x]
    THEN OneSided(x, ammAssetOut(b[x], T, t, p), t) ELSE {}

(* Tokens per unit withdrawn at least the price en / ed:                   *)
(* t = T (T + A E (f - 2)) / (T f - A E), rounded up.  What is taken out   *)
(* is t / E, as if the tokens t was rounded up by were worth the price too.*)
singleWithdrawEPrice(b, T, p, m, x) ==
  LET en  == m.price[1]
      ed  == m.price[2]
      num == T * (T * FeeScale * ed + b[x] * en * (p - 2 * FeeScale))
      den == T * p * ed - b[x] * en * FeeScale
      t   == IF den > 0 THEN Ceil(num, den) ELSE Ceil(-num, -den)
  IN  IF den = 0 \/ num * den <= 0 THEN {}
      ELSE IF (t * ed) \div en >= m.amt[x] THEN OneSided(x, (t * ed) \div en, t)
      ELSE {}

-----------------------------------------------------------------------------
(* Balances.                                                               *)
HasLP(L, a) == L.lp[a] # Absent
Held(L, a) == IF HasLP(L, a) THEN L.lp[a] ELSE 0          \* ammLPHolds

(* AccountFunds of an asset: nothing of a frozen one, without end of one's *)
(* own.  XRP is what the reserve leaves.                                   *)
Reserve(n) == BaseReserve + n * IncReserve
Liquid(L, a, more) == Less(L.xrp[a], Reserve(L.owners[a] + more))

HasFunds(L, a, x, n) ==
  IF a = Issuer THEN TRUE ELSE n = 0 \/ (~frozen /\ L.line[a][x].bal >= n)

(* updateTrustlineBalanceInViewEx: a line nobody asked for goes when its   *)
(* balance does.  Its owner count is lowered by the callers that use the   *)
(* result; those of updateTrustlineBalanceInView drop it.                  *)
Debit(L, a, x, n, counted) ==
  IF n = 0 \/ (a = Issuer /\ ~IsXRP(x)) THEN L
  ELSE IF IsXRP(x) THEN [L EXCEPT !.xrp[a] = @ - n]
  ELSE IF L.line[a][x].bal = n /\ ~L.line[a][x].trusted
    THEN [L EXCEPT !.line[a][x] = NoLine, !.owners[a] = IF counted THEN @ - 1 ELSE @]
  ELSE [L EXCEPT !.line[a][x].bal = @ - n]

createWithdrawTrustLine(L, a, x, n) ==
  [L EXCEPT !.line[a][x] = [bal |-> n, trusted |-> FALSE], !.owners[a] = @ + 1]

(* withdrawIOUToAccount: a missing line is made, with no limit.            *)
Credit(L, a, x, n) ==
  IF n = 0 \/ (a = Issuer /\ ~IsXRP(x)) THEN L
  ELSE IF IsXRP(x) THEN [L EXCEPT !.xrp[a] = @ + n]
  ELSE IF L.line[a][x] = NoLine THEN createWithdrawTrustLine(L, a, x, n)
  ELSE [L EXCEPT !.line[a][x].bal = @ + n]

(* createOrUpdateAMMTrustline: the AMM's own line is made when needed and  *)
(* stays at zero.                                                          *)
PoolAdd(L, x, n) ==
  IF n = 0 THEN L
  ELSE [L EXCEPT !.pool[x] = @ + n, !.links = IF IsXRP(x) THEN @ ELSE @ \cup {x}]

Into(L, a, d, counted) ==
  PoolAdd(PoolAdd(Debit(Debit(L, a, 1, d[1], counted), a, 2, d[2], counted), 1, d[1]), 2, d[2])

OutOf(L, a, d) == PoolAdd(PoolAdd(Credit(Credit(L, a, 1, d[1]), a, 2, d[2]), 1, -d[1]), 2, -d[2])

(* createLPTokenTrustline and the owner count that goes with a new line.   *)
IssueLP(L, a, t) ==
  [L EXCEPT !.lp[a] = Held(L, a) + t, !.links = @ \cup {a},
            !.owners[a] = IF HasLP(L, a) THEN @ ELSE @ + 1, !.amm.lpt = @ + t]

(* adjustLPTrustLine: a line stays at zero.                                *)
AdjustLP(L, a, n) == [L EXCEPT !.lp[a] = @ + n]

(* redeemIOUWithCleanup and trustDeleteRippleState.                        *)
RedeemLPLinked(L, a, t) ==                                     \* a mutant
  IF t = 0 THEN L
  ELSE IF L.lp[a] = t THEN [L EXCEPT !.lp[a] = Absent, !.owners[a] = Less(@, 1)]
  ELSE AdjustLP(L, a, -t)
RedeemLP(L, a, t) ==
  IF t = 0 THEN L
  ELSE IF L.lp[a] = t
    THEN [L EXCEPT !.lp[a] = Absent, !.owners[a] = Less(@, 1), !.links = @ \ {a}]
  ELSE AdjustLP(L, a, -t)

-----------------------------------------------------------------------------
(* The auction slot and the fee.                                           *)
HasAMM(L) == L.amm # NoAMM
SlotLife == Intervals * IntervalLength

(* getAccountTradingFee.                                                   *)
getAccountTradingFee(A, a) ==
  IF clock < A.slot.expiration /\ a \in {A.slot.who} \cup A.slot.auth
    THEN A.slot.discounted ELSE A.fee

(* initializeFeeAuctionVote.                                               *)
initializeFeeAuctionVote(a, fee, lpt) ==
  [lpt |-> lpt, whole |-> TRUE, fee |-> fee, votes |-> <<[who |-> a, fee |-> fee, weight |-> VoteScale]>>,
   slot |-> [who |-> a, expiration |-> clock + SlotLife, price |-> 0,
             discounted |-> fee \div DiscountFraction, auth |-> {}]]

-----------------------------------------------------------------------------
(* The transactions.                                                       *)

(* AMMCreate.Apply: the reserve for the LP line is asked for first, XRP    *)
(* must leave it, and the funds' lines that empty are counted.             *)
CreateAllowed(L, a, d) ==
  /\ ~HasAMM(L) /\ ~frozen
  /\ L.xrp[a] > Reserve(L.owners[a] + 1)
  /\ \A x \in Assets : IF IsXRP(x) THEN Liquid(L, a, 1) >= d[x] ELSE HasFunds(L, a, x, d[x])

AMMCreate(a, d, fee) ==
  /\ CreateAllowed(pools, a, d) /\ calculateLPTokens(d[1], d[2]) > 0
  /\ pools' = IssueLP(Into([pools EXCEPT !.amm = initializeFeeAuctionVote(a, fee, 0)], a, d, TRUE),
                      a, calculateLPTokens(d[1], d[2]))
  /\ UNCHANGED <<native, frozen, clock>>

(* AMMDeposit.Validate: the fields a mode takes.                           *)
DepositFields(mode, x, m) ==
  CASE mode = "LPToken"         -> m.tokens > 0 /\ (m.amt[1] > 0 <=> m.amt[2] > 0)
    [] mode = "SingleAsset"     -> m.amt[x] > 0 /\ m.amt[Other(x)] = 0
    [] mode = "TwoAsset"        -> m.amt[1] > 0 /\ m.amt[2] > 0
    [] mode = "OneAssetLPToken" -> m.amt[x] > 0 /\ m.amt[Other(x)] = 0 /\ m.tokens > 0
    [] mode = "LimitLPToken"    -> m.amt[Other(x)] = 0 /\ m.tokens = 0
    [] mode = "TwoAssetIfEmpty" -> m.amt[1] > 0 /\ m.amt[2] > 0 /\ m.tokens = 0

DepositPlans(L, mode, x, m, p) ==
  CASE mode = "LPToken"         -> equalDepositTokens(L.pool, L.amm.lpt, m)
    [] mode = "SingleAsset"     -> singleDeposit(L.pool, L.amm.lpt, p, m, x)
    [] mode = "TwoAsset"        -> equalDepositLimit(L.pool, L.amm.lpt, m)
    [] mode = "OneAssetLPToken" -> singleDepositTokens(L.pool, L.amm.lpt, p, m, x)
    [] mode = "LimitLPToken"    -> singleDepositEPrice(L.pool, L.amm.lpt, p, m, x)
    [] mode = "TwoAssetIfEmpty" -> Plan(m.amt[1], m.amt[2], calculateLPTokens(m.amt[1], m.amt[2]))

(* The checks before the plan: what was named must be there, XRP above the *)
(* reserve with an LP line, and a party that holds no LP tokens must have  *)
(* the reserve for one more.                                               *)
DepositAllowed(L, a, mode, m) ==
  /\ HasAMM(L) /\ ~frozen
  /\ IF mode = "TwoAssetIfEmpty" THEN L.amm.lpt = 0 /\ L.pool[1] = 0 /\ L.pool[2] = 0
                                 ELSE L.amm.lpt > 0 /\ L.pool[1] > 0 /\ L.pool[2] > 0
  /\ mode # "LPToken" => \A x \in Assets :
       IF IsXRP(x) THEN Liquid(L, a, IF HasLP(L, a) THEN 0 ELSE 1) >= m.amt[x]
                   ELSE HasFunds(L, a, x, m.amt[x])
  /\ Held(L, a) = 0 => L.xrp[a] >= Reserve(L.owners[a] + 1)

(* What was planned must be positive, and there; the reserve is not looked *)
(* at again.                                                               *)
DepositFunded(L, a, mode, x, plan) ==
  /\ plan.tokens > 0
  /\ \A y \in IF mode \in {"SingleAsset", "OneAssetLPToken", "LimitLPToken"} THEN {x} ELSE Assets :
       plan.d[y] > 0
  /\ \A y \in Assets : IF IsXRP(y) THEN L.xrp[a] >= plan.d[y] ELSE HasFunds(L, a, y, plan.d[y])

(* The assets move, LP tokens are issued, and an empty AMM starts over     *)
(* with its fee, votes and slot.  The line of a depositor that empties     *)
(* goes, uncounted.                                                        *)
AMMDeposit(a, mode, x, m, fee) ==
  /\ DepositFields(mode, x, m) /\ DepositAllowed(pools, a, mode, m)
  /\ \E p \in {IF pools.amm.lpt = 0 THEN fee ELSE getAccountTradingFee(pools.amm, a)} :
     \E plan \in DepositPlans(pools, mode, x, m, p) :
       /\ DepositFunded(pools, a, mode, x, plan)
       /\ pools' = IssueLP(Into(IF pools.amm.lpt > 0 THEN pools
                                ELSE [pools EXCEPT !.amm = [initializeFeeAuctionVote(a, fee, 0)
                                                              EXCEPT !.whole = pools.amm.whole]],
                                a, plan.d, FALSE), a, plan.tokens)
  /\ UNCHANGED <<native, frozen, clock>>

-----------------------------------------------------------------------------
(* DeleteAMMAccount and deleteAMMTrustLines: as many lines of the AMM's    *)
(* directory as a transaction may delete, in key order, which may be any.  *)
(* A line with a balance fails it.  The owner counts of LP lines go with   *)
(* them, but for keep's, whose account root is written over afterwards.    *)
BalanceOf(L, k) == IF k \in Assets THEN L.pool[k] ELSE L.lp[k]

Unlinked(L, D, keep) ==
  [L EXCEPT !.links = @ \ D,
            !.lp = [a \in Parties |-> IF a \in D THEN Absent ELSE @[a]],
            !.owners = [a \in Parties |-> IF a \in D \ keep THEN Less(@[a], 1) ELSE @[a]]]

Erased(L) == [L EXCEPT !.amm = NoAMM, !.pool = <<0, 0>>]

deleteAMMTrustLines(L) ==
  {S \in SUBSET L.links : /\ Cardinality(S) = Smallest({maxDeletableAMMTrustLines, Cardinality(L.links)})
                          /\ \A k \in S : BalanceOf(L, k) = 0}

DeleteAMMAccount(L, keep) ==
  {IF D = L.links THEN Erased(Unlinked(L, D, keep)) ELSE Unlinked(L, D, keep) :
     D \in deleteAMMTrustLines(L)}

(* deleteAMMAccountIfEmpty.                                                *)
deleteAMMAccountIfEmpty(L, t, keep) ==
  IF L.amm.lpt = t THEN DeleteAMMAccount([L EXCEPT !.amm.lpt = 0], keep)
                   ELSE {[L EXCEPT !.amm.lpt = @ - t]}

(* AMMDelete.Apply.                                                        *)
AMMDelete(a) ==
  /\ HasAMM(pools) /\ pools.amm.lpt = 0
  /\ pools' \in DeleteAMMAccount(pools, {a})
  /\ UNCHANGED <<native, frozen, clock>>

(* AMMWithdraw.Validate: the fields a mode takes; x is the asset of Amount.*)
WithdrawFields(mode, x, m) ==
  CASE mode = "LPToken"             -> m.tokens > 0 /\ m.amt = <<0, 0>>
    [] mode = "WithdrawAll"         -> m.tokens = 0 /\ m.amt = <<0, 0>>
    [] mode = "OneAssetWithdrawAll" -> m.tokens = 0 /\ m.amt[Other(x)] = 0
    [] mode = "SingleAsset"         -> m.tokens = 0 /\ m.amt[x] > 0 /\ m.amt[Other(x)] = 0
    [] mode = "TwoAsset"            -> m.tokens = 0 /\ m.amt[1] > 0 /\ m.amt[2] > 0
    [] mode = "OneAssetLPToken"     -> m.tokens > 0 /\ m.amt[Other(x)] = 0
    [] mode = "LimitLPToken"        -> m.tokens = 0 /\ m.amt[Other(x)] = 0

WithdrawPlans(L, held, mode, x, m, p) ==
  CASE mode = "LPToken"             -> equalWithdrawTokens(L.pool, L.amm.lpt, held, m.tokens)
    [] mode = "WithdrawAll"         -> equalWithdrawTokens(L.pool, L.amm.lpt, held, held)
    [] mode = "OneAssetWithdrawAll" -> singleWithdrawTokens(L.pool, L.amm.lpt, p, m, x, held)
    [] mode = "SingleAsset"         -> singleWithdraw(L.pool, L.amm.lpt, p, m, x)
    [] mode = "TwoAsset"            -> equalWithdrawLimit(L.pool, L.amm.lpt, m)
    [] mode = "OneAssetLPToken"     -> singleWithdrawTokens(L.pool, L.amm.lpt, p, m, x,
                                                            IF m.tokens > held \/ m.tokens > L.amm.lpt
                                                            THEN 0 ELSE m.tokens)
    [] mode = "LimitLPToken"        -> singleWithdrawEPrice(L.pool, L.amm.lpt, p, m, x)

(* The checks before the plan; only the assets the mode names must not be  *)
(* frozen.                                                                 *)
WithdrawAllowed(L, a, mode, x, m) ==
  /\ HasAMM(L) /\ L.amm.lpt > 0 /\ Held(L, a) > 0
  /\ \A y \in Assets : m.amt[y] <= L.pool[y]
  /\ frozen => \A y \in IOUs : mode \notin {"LPToken", "WithdrawAll", "TwoAsset"} /\ y # x

(* The checks after it: neither side, nor the tokens, may run out alone.   *)
WithdrawSound(L, held, plan) ==
  /\ plan.tokens > 0 /\ plan.tokens <= held
  /\ \A x \in Assets : plan.d[x] <= L.pool[x]
  /\ plan.d[1] = L.pool[1] <=> plan.d[2] = L.pool[2]
  /\ plan.tokens = L.amm.lpt => plan.d = L.pool

(* The reserve for a line a withdrawal makes; the first two are free.      *)
CanReceive(L, a, x, n) ==
  (n > 0 /\ ~IsXRP(x) /\ a # Issuer /\ L.line[a][x] = NoLine /\ L.owners[a] >= 2)
    => L.xrp[a] >= Reserve(L.owners[a] + 1)

(* verifyAndAdjustLPTokenBalance: an LP whose tokens are nearly all there  *)
(* are is taken for the only one, whether others hold some or not, and the *)
(* LPTokenBalance becomes what it holds.                                   *)
withinRelativeDistance(n, m) ==
  n = m \/ (Largest({n, m}) - Smallest({n, m})) * Tolerance < Largest({n, m})

isOnlyLiquidityProvider(held, lpt) == withinRelativeDistance(held, lpt)

verifyAndAdjustLPTokenBalance(L, a) ==
  IF ~isOnlyLiquidityProvider(Held(L, a), L.amm.lpt) THEN {L}
  ELSE IF withinRelativeDistance(Held(L, a), L.amm.lpt)
    THEN {[L EXCEPT !.amm.lpt = Held(L, a), !.amm.whole = @ /\ L.amm.lpt = Held(L, a)]}
  ELSE {}

AMMWithdraw(a, mode, x, m) ==
  /\ WithdrawFields(mode, x, m) /\ WithdrawAllowed(pools, a, mode, x, m)
  /\ \E L \in verifyAndAdjustLPTokenBalance(pools, a) :
     \E plan \in WithdrawPlans(L, Held(L, a), mode, x, m, getAccountTradingFee(L.amm, a)) :
       /\ WithdrawSound(L, Held(L, a), plan)
       /\ CanReceive(IF native THEN Credit(L, a, 2, plan.d[2]) ELSE L, a, 1, plan.d[1])
       /\ CanReceive(Credit(L, a, 1, plan.d[1]), a, 2, plan.d[2])
       /\ pools' \in deleteAMMAccountIfEmpty(RedeemLP(OutOf(L, a, plan.d), a, plan.tokens),
                                             plan.tokens, {})
  /\ UNCHANGED <<native, frozen, clock>>

-----------------------------------------------------------------------------
(* AMMClawback: what of asset x, and of the other, an amount stands for;   *)
(* everything the holder has when none is given or it is too much, and no  *)
(* more than there is.                                                     *)
ClawPlan(b, T, held, x, amount) ==
  LET most(y) == Smallest({b[y], getRoundedAsset(b[y], held, T, FALSE)})
      all == IF held = T THEN Plan(b[1], b[2], T) ELSE Plan(most(1), most(2), held)
      tok == getRoundedLPTokens(T, amount, b[x], FALSE)
  IN  IF amount = 0 THEN all
      ELSE IF b[x] = 0 THEN {}
      ELSE IF T * amount > held * b[x] THEN all
      ELSE Plan(getRoundedAsset(b[1], tok, T, FALSE), getRoundedAsset(b[2], tok, T, FALSE), tok)

(* AMMClawback.Apply: asset x goes back to its issuer, the other too when  *)
(* both are clawed, else to the holder, who must have a line for it.       *)
ClawAllowed(L, h, x, both) ==
  /\ h # Issuer /\ x \in IOUs /\ (both => Other(x) \in IOUs)
  /\ HasAMM(L) /\ L.amm.lpt > 0 /\ Held(L, h) > 0

AMMClawback(h, x, amount, both) ==
  /\ ClawAllowed(pools, h, x, both)
  /\ \E L \in verifyAndAdjustLPTokenBalance(pools, h) :
     \E plan \in ClawPlan(L.pool, L.amm.lpt, Held(L, h), x, amount) :
     \E gives \in {IF both THEN 0 ELSE plan.d[Other(x)]} :
       /\ gives > 0 /\ Other(x) \in IOUs => L.line[h][Other(x)] # NoLine
       /\ pools' \in deleteAMMAccountIfEmpty(
            RedeemLP(Credit(PoolAdd(PoolAdd(L, 1, -plan.d[1]), 2, -plan.d[2]), h, Other(x), gives),
                     h, plan.tokens), plan.tokens, {Issuer})
  /\ UNCHANGED <<native, frozen, clock>>

-----------------------------------------------------------------------------
(* AMMVote.Apply: the votes of those who still hold LP tokens, weighed     *)
(* anew; a new voter takes a free place, or that of the smallest holder.   *)
Weight(t, T) == IF (t * VoteScale) \div T = 0 THEN 1 ELSE (t * VoteScale) \div T

Revote(L, a, fee) ==
  LET standing == SelectSeq(L.amm.votes, LAMBDA v : Held(L, v.who) > 0)
  IN  [i \in 1..Len(standing) |->
         [standing[i] EXCEPT !.fee = IF standing[i].who = a THEN fee ELSE @,
                             !.weight = Weight(Held(L, standing[i].who), L.amm.lpt)]]

(* Whose place a new voter takes: fewest tokens, then lowest fee, then the *)
(* account order, which may be any.                                        *)
Least(L, votes) ==
  {i \in 1..Len(votes) : \A j \in 1..Len(votes) :
     \/ Held(L, votes[i].who) < Held(L, votes[j].who)
     \/ Held(L, votes[i].who) = Held(L, votes[j].who) /\ votes[i].fee <= votes[j].fee}

Voted(L, votes, a, fee) ==
  LET mine == [who |-> a, fee |-> fee, weight |-> Weight(Held(L, a), L.amm.lpt)]
      outbids(i) == \/ Held(L, a) > Held(L, votes[i].who)
                    \/ Held(L, a) = Held(L, votes[i].who) /\ fee > votes[i].fee
  IN  IF \E i \in 1..Len(votes) : votes[i].who = a THEN {votes}
      ELSE IF Len(votes) < voteMaxSlots THEN {Append(votes, mine)}
      ELSE {IF outbids(i) THEN [votes EXCEPT ![i] = mine] ELSE votes : i \in Least(L, votes)}

(* The mean of the votes, by LP tokens held.                               *)
SumOver(n, f(_)) == FoldLeft(LAMBDA acc, i : acc + f(i), 0, [i \in 1..n |-> i])
MeanFee(L, votes) ==
  SumOver(Len(votes), LAMBDA i : votes[i].fee * Held(L, votes[i].who))
    \div SumOver(Len(votes), LAMBDA i : Held(L, votes[i].who))

AMMVote(a, fee) ==
  /\ HasAMM(pools) /\ pools.amm.lpt > 0 /\ Held(pools, a) > 0
  /\ \E votes \in Voted(pools, Revote(pools, a, fee), a, fee) :
     \E mean \in {MeanFee(pools, votes)} :
       pools' = [pools EXCEPT !.amm.votes = votes, !.amm.fee = mean,
                              !.amm.slot.discounted = mean \div DiscountFraction]
  /\ UNCHANGED <<native, frozen, clock>>

-----------------------------------------------------------------------------
(* AMMBid.Apply: the interval of the slot's life, or Intervals when it is  *)
(* over; an owner in the last interval no longer counts.                   *)
TimeSlot(slot) ==
  IF clock < slot.expiration THEN (clock - (slot.expiration - SlotLife)) \div IntervalLength
                             ELSE Intervals
ValidOwner(slot) == TimeSlot(slot) < Intervals - 1

MinSlotPrice(A) == (A.lpt * A.fee) \div (FeeScale * MinFeeFraction)

(* 1.05 of what the owner paid, decaying with the intervals used.          *)
ComputedPrice(A) ==
  LET used == TimeSlot(A.slot) + 1
  IN  MinSlotPrice(A) +
      (IF ~ValidOwner(A.slot) THEN 0
       ELSE IF used = 1 THEN (A.slot.price * 21) \div 20
       ELSE (A.slot.price * 21 * (Intervals ^ DecayPower - used ^ DecayPower))
              \div (20 * Intervals ^ DecayPower))

Refund(A) ==
  IF ValidOwner(A.slot)
    THEN (A.slot.price * (Intervals - TimeSlot(A.slot) - 1)) \div Intervals ELSE 0

BidAllowed(L, a, bidMin, bidMax, auth) ==
  /\ HasAMM(L) /\ L.amm.lpt > 0 /\ Held(L, a) > 0 /\ a \notin auth
  /\ \A bid \in {bidMin, bidMax} : bid <= Held(L, a) /\ bid < L.amm.lpt
  /\ bidMax > 0 => bidMin <= bidMax

(* getPayPrice: at least what is asked, at least bidMin, within bidMax.    *)
PayPrice(A, held, bidMin, bidMax) ==
  {pay \in {Largest({ComputedPrice(A), bidMin})} :
     pay <= held /\ (bidMax > 0 => ComputedPrice(A) <= bidMax)}

(* What is left of the price after the refund is burnt; both come from the *)
(* bidder, and the refund needs a line to go to.                           *)
AMMBid(a, bidMin, bidMax, auth) ==
  /\ BidAllowed(pools, a, bidMin, bidMax, auth)
  /\ \E pay \in PayPrice(pools.amm, Held(pools, a), bidMin, bidMax) :
     \E back \in {Refund(pools.amm)} :
     \E prev \in {pools.amm.slot.who} :
       /\ back <= pay /\ pay - back < pools.amm.lpt
       /\ back > 0 /\ prev # a => HasLP(pools, prev)
       /\ pools' = [AdjustLP(IF prev = a THEN pools
                             ELSE AdjustLP(IF back > 0 THEN AdjustLP(pools, prev, back) ELSE pools, a, -back),
                             a, back - pay)
                    EXCEPT !.amm.lpt = @ - (pay - back),
                           !.amm.slot = [who |-> a, expiration |-> clock + SlotLife, price |-> pay,
                                         discounted |-> pools.amm.fee \div DiscountFraction,
                                         auth |-> auth]]
  /\ UNCHANGED <<native, frozen, clock>>

-----------------------------------------------------------------------------
(* Swaps: a payment of a to itself through the pool, on one path with no   *)
(* competing offer.  The pool offers up to 99% of what it has (maxOffer),  *)
(* cut to what is paid (LimitIn) or wanted (LimitOut); a frozen asset is   *)
(* no balance (fetchBalances), and a tokens' line takes what its limit     *)
(* allows.                                                                 *)
MaxOut(L, x) == (L.pool[Other(x)] * 99) \div 100

OfferedPool(L, x) == ~frozen /\ L.pool[1] > 0 /\ L.pool[2] > 0 /\ MaxOut(L, x) > 0

MayTake(L, a, x, in, out) ==
  /\ in > 0 /\ out > 0
  /\ IF IsXRP(x) THEN Liquid(L, a, 0) >= in ELSE HasFunds(L, a, x, in)
  /\ IsXRP(Other(x)) \/ a = Issuer \/ L.line[a][Other(x)].trusted

Swapped(L, a, x, in, out) ==
  PoolAdd(PoolAdd(Credit(Debit(L, a, x, in, TRUE), a, Other(x), out), x, in), Other(x), -out)

LimitIn(a, x, n) ==
  /\ HasAMM(pools) /\ OfferedPool(pools, x)
  /\ \E p \in {getAccountTradingFee(pools.amm, a)} :
     \E most \in {SwapAssetOut(pools.pool[x], pools.pool[Other(x)], MaxOut(pools, x), p)} :
     \E in \in {Smallest({n, most})} :
     \E out \in {IF n >= most THEN MaxOut(pools, x)
                 ELSE SwapAssetIn(pools.pool[x], pools.pool[Other(x)], n, p)} :
       MayTake(pools, a, x, in, out) /\ pools' = Swapped(pools, a, x, in, out)
  /\ UNCHANGED <<native, frozen, clock>>

LimitOut(a, x, n) ==
  /\ HasAMM(pools) /\ OfferedPool(pools, x)
  /\ \E out \in {Smallest({n, MaxOut(pools, x)})} :
     \E in \in {SwapAssetOut(pools.pool[x], pools.pool[Other(x)], out, getAccountTradingFee(pools.amm, a))} :
       MayTake(pools, a, x, in, out) /\ pools' = Swapped(pools, a, x, in, out)
  /\ UNCHANGED <<native, frozen, clock>>

-----------------------------------------------------------------------------
(* A holder gives up its limit (TrustSet), the issuer freezes or thaws its *)
(* tokens (AccountSet), a ledger closes.                                   *)
Untrust(a, x) ==
  /\ x \in IOUs /\ a # Issuer /\ pools.line[a][x].trusted
  /\ pools' = IF pools.line[a][x].bal > 0 THEN [pools EXCEPT !.line[a][x].trusted = FALSE]
              ELSE [pools EXCEPT !.line[a][x] = NoLine, !.owners[a] = @ - 1]
  /\ UNCHANGED <<native, frozen, clock>>

GlobalFreeze == frozen' = ~frozen /\ UNCHANGED <<pools, native, clock>>

CloseLedger == clock < LastTime /\ clock' = clock + 1 /\ UNCHANGED <<pools, native, frozen>>

-----------------------------------------------------------------------------
Fresh ==
  [amm |-> NoAMM, pool |-> <<0, 0>>, links |-> {},
   xrp |-> [a \in Parties |-> FundsXRP],
   lp |-> [a \in Parties |-> Absent],
   line |-> [a \in Parties |-> [x \in Assets |->
              IF a = Issuer \/ IsXRP(x) THEN NoLine ELSE [bal |-> Funds, trusted |-> TRUE]]],
   owners |-> [a \in Parties |-> IF a = Issuer THEN 0 ELSE Cardinality(IOUs)]]

Given == [amt : Amounts \X Amounts, tokens : Tokens, price : Prices, swapped : BOOLEAN]

DepositModes == {"LPToken", "SingleAsset", "TwoAsset", "OneAssetLPToken", "LimitLPToken",
                 "TwoAssetIfEmpty"}
WithdrawModes == (DepositModes \ {"TwoAssetIfEmpty"}) \cup {"WithdrawAll", "OneAssetWithdrawAll"}

(* Fields a mode does not read have one value.                             *)
Plain(mode, m) == (mode # "LimitLPToken" => m.price = CHOOSE e \in Prices : TRUE)
                  /\ (mode # "TwoAsset" => ~m.swapped)

Create == \E a \in Parties, d \in (Amounts \ {0}) \X (Amounts \ {0}), fee \in Fees : AMMCreate(a, d, fee)

Deposit == \E a \in Parties, mode \in DepositModes, x \in Assets, m \in Given, fee \in Fees :
             /\ Plain(mode, m) /\ ~m.swapped
             /\ mode # "TwoAssetIfEmpty" => fee = CHOOSE f \in Fees : TRUE
             /\ mode \in {"LPToken", "TwoAsset", "TwoAssetIfEmpty"} => x = 1
             /\ AMMDeposit(a, mode, x, m, fee)

Withdraw == \E a \in Parties, mode \in WithdrawModes, x \in Assets, m \in Given :
              /\ Plain(mode, m)
              /\ mode \in {"LPToken", "TwoAsset", "WithdrawAll"} => x = 1
              /\ AMMWithdraw(a, mode, x, m)

Clawback == \E h \in Parties, x \in Assets, n \in Amounts, both \in BOOLEAN : AMMClawback(h, x, n, both)
Vote == \E a \in Parties, fee \in Fees : AMMVote(a, fee)
Bid == \E a \in Parties, lo \in Tokens, hi \in Tokens, auth \in SUBSET Parties :
         Cardinality(auth) <= 1 /\ AMMBid(a, lo, hi, auth)
Delete == \E a \in Parties : AMMDelete(a)
Pay == \E a \in Parties, x \in Assets, n \in Amounts \ {0} : LimitIn(a, x, n) \/ LimitOut(a, x, n)
Environment == (\E a \in Parties, x \in Assets : Untrust(a, x)) \/ GlobalFreeze \/ CloseLedger

AMMNext == Create \/ Deposit \/ Withdraw \/ Clawback \/ Vote \/ Bid \/ Delete \/ Pay \/ Environment
-----------------------------------------------------------------------------
(* What the pool and the LP tokens must add up to: no balance of the pool  *)
(* is negative, there are assets while there are tokens, the owner         *)
(* directory lists exactly the lines there are, and no AMM leaves nothing  *)
(* behind.  The AMM's LPTokenBalance is what the parties hold, and an AMM  *)
(* without tokens has an empty pool (so that AMMDelete or a deposit can    *)
(* end that state), until verifyAndAdjustLPTokenBalance takes an LP for    *)
(* the only one that is not: then the tokens of the others are in it no    *)
(* more.                                                                   *)
PoolAddsUp ==
  /\ HasAMM(pools) =>
       /\ \A x \in Assets : pools.pool[x] >= 0
       /\ pools.amm.lpt > 0 => pools.pool[1] > 0 /\ pools.pool[2] > 0
       /\ pools.amm.whole =>
            /\ pools.amm.lpt = FoldSet(LAMBDA a, n : n + Held(pools, a), 0, Parties)
            /\ pools.amm.lpt = 0 => pools.pool = <<0, 0>>
  /\ ~HasAMM(pools) => pools.links = {}
  /\ {a \in Parties : HasLP(pools, a)} = pools.links \ Assets

Lines(a) == Cardinality({x \in Assets : pools.line[a][x] # NoLine})
            + (IF HasLP(pools, a) THEN 1 ELSE 0)

(* Every line a party has is in its owner count, so that its reserve       *)
(* covers it.                                                              *)
OwnersCoverLines == \A a \in Parties : pools.owners[a] >= Lines(a)

(* The books of the AMM close: its pool, its LP tokens and its directory,  *)
(* and the owner counts of those who hold its tokens or its assets.        *)
PoolAccounted == PoolAddsUp /\ OwnersCoverLines

(* The pool's product per LP token squared does not fall.                  *)
KeepsValue(b, T, c, U) == c[1] * c[2] * T * T >= b[1] * b[2] * U * U

(* How far a withdrawal at an effective price may go beyond that: by what  *)
(* one more token is worth at the price.                                   *)
OneTokenOver(a, x, m) ==
  /\ AMMWithdraw(a, "LimitLPToken", x, m)
  /\ KeepsValue(pools.pool, pools.amm.lpt,
                [pools'.pool EXCEPT ![x] = @ + Ceil(m.price[2], m.price[1])], pools'.amm.lpt + 1)

(* No transaction takes value from the remaining LPs: the pool's product   *)
(* per LP token squared never falls while there are tokens.  This is what  *)
(* the rounding directions, the fees and the burnt bids are for            *)
(* (generalAMMInvariant and AMMOffer.CheckInvariant ask the same).  Two    *)
(* things the code does are excepted: singleWithdrawEPrice may pay for one *)
(* token too much, as it rounds the tokens up before it divides by the     *)
(* price, and nothing is said once an LP was taken for the only one.       *)
SharesKeepValue ==
  [][pools.amm.lpt > 0 /\ pools'.amm.lpt > 0 /\ pools'.amm.whole =>
       \/ KeepsValue(pools.pool, pools.amm.lpt, pools'.pool, pools'.amm.lpt)
       \/ \E a \in Parties, x \in Assets, m \in Given : OneTokenOver(a, x, m)]_ammVars
=============================================================================
