------------------------ MODULE ValidationAgreement ------------------------
(***************************************************************************)
(* What the validation tracker guarantees about full validation when it is *)
(* configured the way the engine configures it: one UNL for the life of    *)
(* the process (adaptor.trustedValidators is set once, from the            *)
(* configuration), a negative UNL of at most a quarter of it, and the      *)
(* quorum adaptor.computeQuorum derives from the two.                      *)
(***************************************************************************)
EXTENDS ValidationTracker

CONSTANT UNL   \* the configured validators

(* computeQuorum.  MaxInt stands for the unreachable quorum: a number no    *)
(* count of validators attains.                                             *)
MaxInt == Cardinality(UNL) + 1

(* A mutant: 80% rounded down.                                              *)
computeQuorumFloor(t, disabled) ==
    IF t = 0 THEN 0 ELSE ((t - disabled) * 4) \div 5

computeQuorum(t, disabled) ==
    LET effective == t - disabled
        q == (effective * 4 + 4) \div 5
    IN IF t = 0 THEN 0
       ELSE IF effective <= 0 THEN MaxInt
       ELSE IF q < 1 THEN 1 ELSE q

ASSUME UNLAssumption ==
    /\ UNL \subseteq Nodes
    /\ UNL # {}
    /\ IsFiniteSet(UNL)
    /\ TrustedSets = {UNL}
    /\ \A N \in NegUNLs : IsFiniteSet(N) /\ 4 * Cardinality(N) <= Cardinality(UNL)
    /\ Quorums = {computeQuorum(Cardinality(UNL), Cardinality(N)) : N \in NegUNLs}

-----------------------------------------------------------------------------
(* No fork: the tracker never declares two ledgers of one sequence fully    *)
(* validated, whatever the order of validations, however the negative UNL   *)
(* and the quorum move, and although ExpireOld forgets who validated what.  *)
Agreement ==
    \A l1, l2 \in everFired : SeqOf[l1] = SeqOf[l2] => l1 = l2

(* The comment on `fired': "the callback fires exactly once per ledger even *)
(* if more validations keep arriving after the threshold is crossed".       *)
(* It has run once, or is captured and about to run, for each ledger that   *)
(* crossed the quorum, although ExpireOld removes the ledger's fired mark.  *)
ExactlyOnce ==
    \A l \in Ledgers :
        calls[l] + (IF l \in dispatch THEN 1 ELSE 0)
            = (IF l \in everFired THEN 1 ELSE 0)

(* Once the callback has evicted everything below a sequence, no ledger     *)
(* below it can be declared fully validated any more.                       *)
NothingFiresBelowFloor ==
    [][\A l \in everFired' \ everFired : SeqOf[l] >= floor]_vars

(* ExpireOld, run from the callback, forgets safely: what it drops has been *)
(* handed to onStale, and what it no longer remembers cannot be declared.   *)
ExpirySound == StaleDelivered /\ NothingFiresBelowFloor

-----------------------------------------------------------------------------
(* The inductive invariant behind the three.                                *)

(* What is at or above the floor is remembered in full.                     *)
RetainedAboveFloor ==
    \A l \in everFired : SeqOf[l] >= floor =>
        /\ l \in fired
        /\ firedBy[l] \subseteq validations[l]

(* A ledger that crossed was counted by a majority of the UNL.              *)
FiredByMajority ==
    \A l \in everFired :
        /\ firedBy[l] \subseteq UNL
        /\ 2 * Cardinality(firedBy[l]) > Cardinality(UNL)

(* If anything was evicted, some ledger above the floor crossed the quorum, *)
(* and its validators have nothing recorded below the floor.                *)
Anchored ==
    floor > 0 =>
        \E a \in everFired :
            /\ SeqOf[a] > floor
            /\ \A n \in firedBy[a], l \in Ledgers :
                  n \in validations[l] => SeqOf[l] >= floor

AInv ==
    /\ TypeOK
    /\ LatestIsHighest
    /\ OneLedgerPerSeq
    /\ fired \subseteq everFired
    /\ dispatch \subseteq everFired
    /\ RetainedAboveFloor
    /\ FiredByMajority
    /\ Anchored
    /\ Agreement
    /\ ExactlyOnce
=============================================================================
