--------------------------- MODULE LedgerService ---------------------------
(***************************************************************************)
(* The ledger service of a node in consensus mode                          *)
(* (internal/ledger/service/service.go): the history of ledgers, the       *)
(* closed, validated and open ledger, and the three stashes that join      *)
(* events arriving in either order:                                        *)
(*   pendingValidation         closed, its quorum not yet reported;        *)
(*   pendingLedgerValidations  quorum reported, not yet in the history;    *)
(*   heldAdoptions             fetched from a peer, its parent missing.    *)
(*                                                                         *)
(* The Service struct is the record svc.  Every exported operation holds   *)
(* s.mu from beginning to end and is one action; its helpers are operators *)
(* from a service record to the next.                                      *)
(*                                                                         *)
(* A ledger is the sequence of blocks from genesis to it, as a hash        *)
(* commits to the whole chain: genesis is <<>>, the parent all but the     *)
(* last block.  A block is the set of transactions in its transaction map  *)
(* and the set whose effects are in its state map.                         *)
(***************************************************************************)
EXTENDS Integers, Sequences

CONSTANTS
    Txs,              \* transactions
    MaxSeq,           \* bound: highest ledger sequence
    PeerLedgers,      \* ledgers a peer may serve
    NetworkLedgers,   \* ledgers that reach a quorum of trusted validations
    MaxPending,       \* pendingValidationMaxLen
    PendingTTL,       \* pendingValidationTTL, in ticks
    HeldTTL,          \* heldAdoptionTTL, in ticks
    HeldCascadeMax,   \* heldAdoptionCascadeMax
    None

Genesis == <<>>
Sequence(l) == Len(l) + 1
ParentOf(l) == SubSeq(l, 1, Len(l) - 1)
Included(l) == UNION {l[i].txs : i \in DOMAIN l}
Block(T) == [txs |-> T, effects |-> T]

ASSUME ServiceConstants ==
    /\ MaxSeq \in Nat \ {0} /\ MaxPending \in Nat \ {0}
    /\ PendingTTL \in Nat \ {0} /\ HeldTTL \in Nat \ {0} /\ HeldCascadeMax \in Nat
    /\ \A l \in PeerLedgers \cup NetworkLedgers :
          /\ l \in Seq({Block(T) : T \in SUBSET Txs})
          /\ Sequence(l) \in 2..MaxSeq
          /\ l # None

VARIABLES
    svc,        \* the Service struct
    prevLedger, \* the ledger the consensus engine works on, from the service
    \* History variables, read by properties only.
    quorumed,   \* ledgers SetValidatedLedger was called for
    published,  \* ledgers whose event went to eventCallback
    twice,      \* ledgers whose event went there more than once
    result      \* the last consensus result: what was asked for and built

history == <<quorumed, published, twice, result>>
vars == <<svc, prevLedger, quorumed, published, twice, result>>

Seqs == 1..MaxSeq
NewOpen(l) == [parent |-> l, effects |-> {}, closed |-> FALSE]

-----------------------------------------------------------------------------
(* The stashes.                                                             *)

Stashes(q, l) == \E i \in DOMAIN q : q[i] = l

Trim(q) == IF Len(q) > MaxPending THEN Tail(q) ELSE q

stashPendingValidation(s, l) ==
    IF Stashes(s.pendingValidation, l) THEN s
    ELSE [s EXCEPT !.pendingValidation = Trim(Append(@, l))]

(* A stash without its entry at position k.                                 *)
Removed(q, k) == [i \in 1 .. Len(q) - 1 |-> IF i < k THEN q[i] ELSE q[i + 1]]

drainPendingValidation(s, l) ==
    IF ~Stashes(s.pendingValidation, l) THEN s
    ELSE LET k == CHOOSE k \in DOMAIN s.pendingValidation : s.pendingValidation[k] = l
         IN [s EXCEPT !.pendingValidation = Removed(@, k)]

(* Where the stash has an entry for a sequence.                             *)
StashedAt(s, seq) ==
    {k \in DOMAIN s.pendingLedgerValidations :
        Sequence(s.pendingLedgerValidations[k].hash) = seq}

(* A repeated sequence keeps its place in the order and is stamped anew.    *)
stashPendingLedgerValidation(s, l) ==
    LET entry == [hash |-> l, age |-> 0]
        old == StashedAt(s, Sequence(l))
    IN [s EXCEPT !.pendingLedgerValidations =
           IF old # {} THEN [i \in DOMAIN @ |-> IF i \in old THEN entry ELSE @[i]]
                       ELSE Trim(Append(@, entry))]

(* drainPendingLedgerValidationLocked(seq, l) returns true: a fresh entry   *)
(* for l's sequence names l.                                                *)
Promotes(s, l) ==
    \E i \in DOMAIN s.pendingLedgerValidations :
        /\ s.pendingLedgerValidations[i].hash = l
        /\ s.pendingLedgerValidations[i].age < PendingTTL

(* A mutant: the entry stays in the stash.                                  *)
drainPendingLedgerValidationKeeping(s, l) ==
    [s EXCEPT !.validatedLedger = IF Promotes(s, l) THEN l ELSE @]

drainPendingLedgerValidation(s, l) ==
    IF StashedAt(s, Sequence(l)) = {} THEN s
    ELSE LET k == CHOOSE k \in StashedAt(s, Sequence(l)) : TRUE
         IN [s EXCEPT !.pendingLedgerValidations = Removed(@, k),
                      !.validatedLedger = IF Promotes(s, l) THEN l ELSE @]

evictExpiredHeldAdoptions(s) ==
    [s EXCEPT !.heldAdoptions =
        [q \in Seqs |-> IF @[q] # None /\ @[q].age >= HeldTTL THEN None ELSE @[q]]]

-----------------------------------------------------------------------------
(* Adoption of a peer's ledger.                                             *)

(* A mutant: the mismatched predecessor itself is kept.                     *)
fixMismatchKeepsPrev(s, l) ==
    LET prev == s.ledgerHistory[Sequence(l) - 1] IN
    IF prev = None \/ prev = ParentOf(l) THEN s
    ELSE [s EXCEPT !.ledgerHistory =
             [q \in Seqs |-> IF q > Sequence(l) THEN None ELSE @[q]]]

(* fixMismatchLocked: if the history's ledger below l is not l's parent,    *)
(* it, a different ledger at l's sequence and everything above go.          *)
fixMismatch(s, l) ==
    LET prev == s.ledgerHistory[Sequence(l) - 1] IN
    IF prev = None \/ prev = ParentOf(l) THEN s
    ELSE [s EXCEPT !.ledgerHistory =
             [q \in Seqs |-> IF \/ q = Sequence(l) - 1
                                \/ q = Sequence(l) /\ @[q] # l
                                \/ q > Sequence(l)
                             THEN None ELSE @[q]]]

(* The operators below work on a service record together with the set of    *)
(* ledgers whose event the operation hands to eventCallback.                *)

(* adoptLedgerWithStateLocked up to the cascade.                            *)
adoptOne(r, l) ==
    LET s == [fixMismatch(r.svc, l) EXCEPT !.closedLedger = l,
                                           !.ledgerHistory[Sequence(l)] = l,
                                           !.needsInitialSync = FALSE]
        d == [drainPendingLedgerValidation(s, l) EXCEPT !.openLedger = NewOpen(l)]
    IN IF Promotes(s, l)
       THEN [svc |-> d, events |-> r.events \cup {l}]
       ELSE [svc |-> stashPendingValidation(d, l), events |-> r.events]

(* One hop of cascadeHeldAdoptionsLocked below the ledger just adopted.     *)
cascadeHop(r) ==
    LET s == evictExpiredHeldAdoptions(r.svc)
        q == Sequence(s.closedLedger)
        held == s.heldAdoptions[q]
        taken == [r EXCEPT !.svc = [s EXCEPT !.heldAdoptions[q] = None]]
    IN IF held = None THEN [r EXCEPT !.svc = s]
       ELSE IF ParentOf(held.ledger) # s.closedLedger THEN taken
       ELSE adoptOne(taken, held.ledger)

(* The whole of it: at most HeldCascadeMax hops; one with nothing held      *)
(* leaves things as they are.                                               *)
cascadeAt(top, depth, r) == cascadeHop(r)
Cascade == INSTANCE Loops WITH Step <- cascadeAt

adoptLedgerWithState(s, l) ==
    Cascade!Loop(l, adoptOne([svc |-> s, events |-> {}], l), HeldCascadeMax)

(* What an operation that ends with the record r does to the variables.     *)
Becomes(r) ==
    /\ svc' = r.svc
    /\ published' = published \cup r.events
    /\ twice' = twice \cup (published \cap r.events)

-----------------------------------------------------------------------------
(* Start in consensus mode: genesis is closed and validated.                *)
Init ==
    /\ svc = [ledgerHistory |-> [q \in Seqs |-> IF q = 1 THEN Genesis ELSE None],
              closedLedger |-> Genesis,
              validatedLedger |-> Genesis,
              openLedger |-> NewOpen(Genesis),
              pendingValidation |-> <<>>,
              pendingLedgerValidations |-> <<>>,
              heldAdoptions |-> [q \in Seqs |-> None],
              needsInitialSync |-> TRUE]
    /\ prevLedger = Genesis
    /\ quorumed = {}
    /\ published = {}
    /\ twice = {}
    /\ result = None

(* SubmitTransaction: the open ledger takes the effects of t.               *)
SubmitTransaction(t) ==
    /\ ~svc.openLedger.closed
    /\ t \notin svc.openLedger.effects \cup Included(svc.openLedger.parent)
    /\ svc' = [svc EXCEPT !.openLedger.effects = @ \cup {t}]
    /\ UNCHANGED <<prevLedger, history>>

(* The first step of AcceptConsensusResult.                                 *)
switchParent(s, parent) ==
    IF Sequence(parent) = Sequence(s.closedLedger) THEN s
    ELSE [s EXCEPT !.closedLedger = parent,
                   !.ledgerHistory[Sequence(parent)] = parent,
                   !.openLedger = NewOpen(parent)]

(* The open ledger AcceptConsensusResult closes: with transactions, a fresh *)
(* one they are applied to (a transaction of the chain fails and is left    *)
(* out); without, the service's own.                                        *)
toClose(s, txs) ==
    IF txs = {} THEN s.openLedger
    ELSE [NewOpen(s.closedLedger) EXCEPT !.effects = txs \ Included(s.closedLedger)]

(* The ledger that results.                                                 *)
built(s, txs) ==
    LET o == toClose(s, txs)
    IN Append(o.parent, [txs |-> IF txs = {} THEN {} ELSE o.effects,
                         effects |-> o.effects])

(* AcceptConsensusResult on the engine's ledger: closing, persisting and    *)
(* installing succeed, and BuildLedger hands the engine the result.         *)
AcceptConsensusResult(txs) ==
    LET s == switchParent(svc, prevLedger)
        l == built(s, txs)
        i == [s EXCEPT !.closedLedger = l, !.ledgerHistory[Sequence(l)] = l]
        d == [drainPendingLedgerValidation(i, l) EXCEPT !.openLedger = NewOpen(l)]
    IN /\ Sequence(prevLedger) < MaxSeq
       /\ ~toClose(s, txs).closed
       /\ IF Promotes(i, l)
          THEN Becomes([svc |-> d, events |-> {l}])
          ELSE Becomes([svc |-> stashPendingValidation(d, l), events |-> {}])
       /\ prevLedger' = l
       /\ result' = [parent |-> prevLedger, txs |-> txs, built |-> l]
       /\ UNCHANGED quorumed

(* The early returns of AcceptConsensusResult: Close refuses a ledger that  *)
(* is closed already, or persistLedger fails once Close has succeeded.      *)
AcceptConsensusResultFails(txs) ==
    LET s == switchParent(svc, prevLedger)
    IN /\ Sequence(prevLedger) < MaxSeq
       /\ svc' = [s EXCEPT !.openLedger = [toClose(s, txs) EXCEPT !.closed = TRUE]]
       /\ UNCHANGED <<prevLedger, history>>

(* The engine takes up another ledger of the history: a new round, or a     *)
(* switch to the network's ledger.                                          *)
SwitchLedger(l) ==
    /\ l \notin {None, prevLedger}
    /\ prevLedger' = l
    /\ UNCHANGED <<svc, history>>

(* SetValidatedLedger, from the fully-validated callback.                   *)
SetValidatedLedger(l) ==
    LET have == svc.ledgerHistory[Sequence(l)]
        event == IF Stashes(svc.pendingValidation, l) THEN {l} ELSE {}
        s == CASE have = None -> stashPendingLedgerValidation(svc, l)
               [] have = l    -> [drainPendingValidation(svc, l)
                                     EXCEPT !.validatedLedger = l]
               [] OTHER       -> svc
    IN /\ l \notin quorumed
       /\ quorumed' = quorumed \cup {l}
       /\ Becomes([svc |-> s, events |-> IF have = l THEN event ELSE {}])
       /\ UNCHANGED <<prevLedger, result>>

(* SubmitHeldAdoption of a ledger fetched with its state.                   *)
submitHeldAdoption(s, l) ==
    LET parent == s.ledgerHistory[Sequence(l) - 1] IN
    CASE parent = None -> [svc |-> [s EXCEPT !.heldAdoptions[Sequence(l) - 1] =
                                        [ledger |-> l, age |-> 0]],
                           events |-> {}]
      [] parent = ParentOf(l) -> adoptLedgerWithState(s, l)
      [] OTHER -> [svc |-> s, events |-> {}]

SubmitHeldAdoption(l) ==
    /\ Becomes(submitHeldAdoption(evictExpiredHeldAdoptions(svc), l))
    /\ UNCHANGED <<prevLedger, quorumed, result>>

(* AdoptLedgerWithState.  Nothing outside the tests calls it: the node      *)
(* adopts through SubmitHeldAdoption, which has looked at the parent.       *)
AdoptLedgerWithState(l) ==
    /\ Becomes(adoptLedgerWithState(svc, l))
    /\ UNCHANGED <<prevLedger, quorumed, result>>

(* AdoptLedgerHeader, the start of the initial sync.                        *)
AdoptLedgerHeader(l) ==
    /\ svc.needsInitialSync
    /\ svc' = [svc EXCEPT !.closedLedger = l,
                          !.ledgerHistory[Sequence(l)] = l,
                          !.openLedger = NewOpen(l),
                          !.needsInitialSync = FALSE]
    /\ UNCHANGED <<prevLedger, history>>

(* Time passes for the stashed entries.                                     *)
Older(e, ttl) == [e EXCEPT !.age = IF @ < ttl THEN @ + 1 ELSE @]
Tick ==
    /\ svc' = [svc EXCEPT
         !.pendingLedgerValidations = [i \in DOMAIN @ |-> Older(@[i], PendingTTL)],
         !.heldAdoptions = [q \in Seqs |-> IF @[q] = None THEN None
                                           ELSE Older(@[q], HeldTTL)]]
    /\ svc' # svc
    /\ UNCHANGED <<prevLedger, history>>

(* What the node does to its service.                                       *)
Next ==
    \/ \E t \in Txs : SubmitTransaction(t)
    \/ \E T \in SUBSET Txs : AcceptConsensusResult(T)
    \/ \E T \in SUBSET Txs : AcceptConsensusResultFails(T)
    \/ \E l \in {svc.ledgerHistory[q] : q \in Seqs} : SwitchLedger(l)
    \/ \E l \in NetworkLedgers : SetValidatedLedger(l)
    \/ \E l \in PeerLedgers : SubmitHeldAdoption(l)
    \/ \E l \in PeerLedgers : AdoptLedgerHeader(l)
    \/ Tick

Spec == Init /\ [][Next]_vars

(* With the adoption that trusts its caller about the parent.               *)
SpecAPI == Init /\ [][Next \/ \E l \in PeerLedgers : AdoptLedgerWithState(l)]_vars

-----------------------------------------------------------------------------
OnlyOnce(f) == \A i, j \in DOMAIN f : f[i] = f[j] => i = j

(* The types of the service's fields: the history holds a ledger under its  *)
(* own sequence, the stashes hold each key once and at most MaxPending.     *)
TypeOK ==
    /\ \A q \in Seqs : svc.ledgerHistory[q] # None =>
          Sequence(svc.ledgerHistory[q]) = q
    /\ \A q \in Seqs : svc.heldAdoptions[q] # None =>
          /\ Sequence(svc.heldAdoptions[q].ledger) = q + 1
          /\ svc.heldAdoptions[q].age \in 0..HeldTTL
    /\ LET e == svc.pendingValidation IN
          Len(e) <= MaxPending /\ OnlyOnce(e)
    /\ LET e == svc.pendingLedgerValidations IN
          /\ Len(e) <= MaxPending
          /\ OnlyOnce([i \in DOMAIN e |-> Sequence(e[i].hash)])
          /\ \A i \in DOMAIN e : e[i].age \in 0..PendingTTL

(* Only a quorum validates: the validated ledger is genesis or one that     *)
(* SetValidatedLedger was called for, by hash, whichever came first.        *)
ValidatedByQuorum ==
    /\ svc.validatedLedger \in quorumed \cup {Genesis}
    /\ published \subseteq quorumed

(* No subscriber sees a ledger twice: an event leaves through the stash or  *)
(* inline after the drain, never both, across re-adoption of the ledger.    *)
PublishedOnce == twice = {}

(* What subscribers and RPC are told is validated was validated, and is     *)
(* told once: SetValidatedLedger, the stashes and their drains, and the     *)
(* adoptions between them, neither invent a quorum nor repeat an event.     *)
ValidationExact == ValidatedByQuorum /\ PublishedOnce

(* The closed ledger is the history's ledger of its sequence, and the open  *)
(* ledger is built on it, after every adoption, close and failed close.     *)
TipConsistent ==
    /\ svc.ledgerHistory[Sequence(svc.closedLedger)] = svc.closedLedger
    /\ svc.openLedger.parent = svc.closedLedger

(* An adoption with state leaves no ledger of another chain below the new   *)
(* tip, at the end of a whole cascade too.  (A step that moves the closed   *)
(* ledger without a consensus result, after the initial sync.)              *)
AdoptionChains ==
    [][LET l == svc'.closedLedger IN
       /\ l # svc.closedLedger
       /\ ~svc.needsInitialSync
       /\ result' = result
       /\ ~svc'.openLedger.closed
       => svc'.ledgerHistory[Sequence(l) - 1] \in {None, ParentOf(l)}]_vars
=============================================================================
