----------------------------- MODULE LedgerView -----------------------------
(***************************************************************************)
(* What the transactors of src/internal/tx rely on when they are handed a  *)
(* LedgerView: a map from keys to values they may change at will, none of  *)
(* which reaches the ledger before it is applied, and all of which does    *)
(* then.                                                                   *)
(***************************************************************************)
CONSTANTS Keys, Values, Absent

VARIABLES committed,   \* the ledger below
          working      \* the ledger as the transactor sees it

viewVars == <<committed, working>>

ViewInit == committed \in [Keys -> Values \cup {Absent}] /\ working = committed

Put(k, x) == working' = [working EXCEPT ![k] = x] /\ UNCHANGED committed

Remove(k) ==
  /\ working[k] # Absent
  /\ working' = [working EXCEPT ![k] = Absent]
  /\ UNCHANGED committed

Commit == committed' = working /\ UNCHANGED working

Drop == working' = committed /\ UNCHANGED committed

ViewNext ==
  \/ \E k \in Keys, x \in Values : Put(k, x)
  \/ \E k \in Keys : Remove(k)
  \/ Commit
  \/ Drop

ViewSpec == ViewInit /\ [][ViewNext]_viewVars

=============================================================================
