--------------------------- MODULE MCValidations ---------------------------
(***************************************************************************)
(* Two bounded instances of the validation tracker.  In part "agreement"   *)
(* the engine drives it: a UNL of four, of which one may be disabled       *)
(* (quorum 4 of 4, or 3 of the remaining 3), a fork at sequence 1, and a   *)
(* retention of one ledger, so that a quorum at 3 evicts the fork.  In     *)
(* part "interface" everything it exports is called, Clear included, with  *)
(* two validators, one of them known by a rotated signing key, a trusted   *)
(* set and quorums that change, and validations at the edges of the        *)
(* freshness window.                                                       *)
(***************************************************************************)
EXTENDS ValidationAgreement, TLC

CONSTANTS a, b, c, d, kb, l1, m1, l3

MCNodes == {a, b, c, d}
MCResolve == [n \in MCNodes |-> n]
MCLedgers == {l1, m1, l3}
MCSeqOf == (l1 :> 1) @@ (m1 :> 1) @@ (l3 :> 3)
MCTrustedSets == {MCNodes}
MCNegUNLs == {{}, {d}}
MCQuorums == {computeQuorum(Cardinality(UNL), Cardinality(N)) : N \in NegUNLs}
MCKnownSets == {MCLedgers}

(* What part "interface" fires is kept apart: its quorums mean nothing.    *)
VARIABLES part, dispatchI, everFiredI, firedByI, callsI, floorI

T == INSTANCE ValidationTracker WITH
       Keys <- {a, kb}, Resolve <- (a :> a) @@ (kb :> b),
       TrustedSets <- {{a}, {a, b}}, NegUNLs <- {{}, {b}}, Quorums <- {0, 2},
       MinSeqs <- {2}, SignOffsets <- {0, 5}, SeenOffsets <- {None, 3}, KnownSets <- {{l1}, MCLedgers},
       dispatch <- dispatchI, everFired <- everFiredI, firedBy <- firedByI, calls <- callsI,
       floor <- floorI

firing == <<dispatch, everFired, firedBy, calls, floor>>
firingI == <<dispatchI, everFiredI, firedByI, callsI, floorI>>

NothingFired(pending, ever, by, counts, low) ==
  /\ pending = {} /\ ever = {} /\ low = 0
  /\ by = [l \in Ledgers |-> {}] /\ counts = [l \in Ledgers |-> 0]

MCInit ==
  \/ /\ part = "agreement" /\ Init
     /\ NothingFired(dispatchI, everFiredI, firedByI, callsI, floorI)
  \/ /\ part = "interface" /\ T!Init
     /\ NothingFired(dispatch, everFired, firedBy, calls, floor)

MCNext ==
  /\ UNCHANGED part
  /\ \/ part = "agreement" /\ Next /\ UNCHANGED firingI
     \/ part = "interface" /\ (T!Next \/ T!Clear) /\ UNCHANGED firing

MCSpec == MCInit /\ [][MCNext]_<<part, vars, firingI>>

(* No guard of the tracker reads its history, and neither do the           *)
(* properties that say something in part "interface".                      *)
MCView == IF part = "agreement" THEN <<part, vars>>
          ELSE <<part, maps, config, trieTips, dispatchI>>
=============================================================================
