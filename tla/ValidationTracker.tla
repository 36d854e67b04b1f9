------------------------- MODULE ValidationTracker -------------------------
(***************************************************************************)
(* The validation tracker of the RCL consensus engine                      *)
(* (internal/consensus/rcl/validations.go, validations_trie.go): the       *)
(* validations received for each ledger, each validator's latest one, the  *)
(* quorum test that declares a ledger fully validated, the callback that   *)
(* reports it, and the eviction of old ledgers that the callback drives.   *)
(*                                                                         *)
(* Every mutator runs under vt.mu, so it is one action.  The fully         *)
(* validated callback runs after vt.mu is released, so it is an action of  *)
(* its own (Dispatch) and other mutators may come between.                 *)
(*                                                                         *)
(* A ledger is a model value.  A ledger hash commits to the sequence in    *)
(* the header, so the sequence is a constant function of the ledger.       *)
(***************************************************************************)
EXTENDS Integers, FiniteSets

CONSTANTS
    Keys,             \* signing keys a validation may carry
    Nodes,            \* validators, named by master key
    Resolve,          \* manifest resolver: Keys -> Nodes
    Ledgers,          \* ledger hashes
    SeqOf,            \* Ledgers -> sequence
    None,             \* "no ledger", "no time"
    TrustedSets,      \* the values SetTrusted may be given
    NegUNLs,          \* the values SetNegativeUNL may be given
    Quorums,          \* the values SetQuorum may be given
    MinSeqs,          \* the values SetMinSeq may be given
    SignOffsets,      \* SignTime - now of a received validation, in minutes
    SeenOffsets,      \* SeenTime - now, in minutes, or None for the zero time
    KnownSets,        \* the ledgers whose ancestry may be resolvable
    InMemoryLedgers   \* ledgers kept behind a fully validated one, 0 = all

ASSUME TrackerConstants ==
    /\ Resolve \in [Keys -> Nodes]
    /\ SeqOf \in [Ledgers -> Nat]
    /\ None \notin Ledgers
    /\ TrustedSets \subseteq SUBSET Nodes
    /\ NegUNLs \subseteq SUBSET Nodes
    /\ Quorums \subseteq Nat
    /\ MinSeqs \subseteq Nat
    /\ KnownSets \subseteq SUBSET Ledgers
    /\ InMemoryLedgers \in Nat

VARIABLES
    validations,  \* ledger -> the nodes with a validation recorded for it
    byNode,       \* node -> the ledger of its latest validation, or None
    trusted,      \* trusted validators
    negUNL,       \* validators disabled by the negative UNL
    quorum,       \* validations needed
    fired,        \* ledgers reported (or about to be) as fully validated
    minSeq,       \* sequence floor of Add
    trieOn,       \* an ancestry provider is installed
    trieTips,     \* node -> the ledger it supports in the trie, or None
    dispatch,     \* ledgers whose callback is captured but not yet run
    \* History variables, read by properties only.
    everFired,    \* ledgers that ever crossed the quorum
    firedBy,      \* ledger -> the validators counted when it last crossed it
    calls,        \* ledger -> callbacks run, counted up to CallsCap
    archived,     \* ledger -> nodes whose validation went to onStale
    floor         \* the highest sequence ExpireOld was ever given

maps == <<validations, byNode, fired>>
config == <<trusted, negUNL, quorum, minSeq, trieOn>>
history == <<everFired, firedBy, calls, archived, floor>>
vars == <<validations, byNode, trusted, negUNL, quorum, fired, minSeq, trieOn,
          trieTips, dispatch, everFired, firedBy, calls, archived, floor>>

(* One callback per ledger is right and two are wrong: no need to count on. *)
CallsCap == 2

LedgerOrNone == Ledgers \cup {None}

-----------------------------------------------------------------------------
(* Freshness window, in minutes.                                           *)

validationCurrentWall  == 5
validationCurrentLocal == 3
validationCurrentEarly == 3

isCurrent(sign, seen) ==
    /\ sign > -validationCurrentEarly
    /\ sign < validationCurrentWall
    /\ seen # None => seen < validationCurrentLocal

(* The validators of a ledger that count toward the quorum.                *)
Counted(vals) == {n \in vals : n \in trusted /\ n \notin negUNL}

(* A mutant: the fired mark is not consulted.                               *)
checkFullValidationRefires(l, vals) ==
    /\ vals # {}
    /\ Cardinality(Counted(vals)) >= quorum

(* checkFullValidationLocked, on the validators vals of l after an Add.     *)
checkFullValidation(l, vals) ==
    /\ l \notin fired
    /\ vals # {}
    /\ Cardinality(Counted(vals)) >= quorum

-----------------------------------------------------------------------------
(* The trie, reduced to the tips it is built from.  `known' is the set of   *)
(* ledgers whose ancestry the provider resolves at that moment, `resolved'  *)
(* whether it resolves the one ledger at hand.                              *)

(* A mutant: the rebuild counts disabled validators.                        *)
rebuildTrieWithDisabled(known, T, N) ==
    IF trieOn
    THEN [n \in Nodes |->
             IF byNode[n] \in known /\ n \in T THEN byNode[n] ELSE None]
    ELSE trieTips

rebuildTrie(known, T, N) ==
    IF trieOn
    THEN [n \in Nodes |->
             IF byNode[n] \in known /\ n \in T /\ n \notin N
             THEN byNode[n] ELSE None]
    ELSE trieTips

updateTrie(n, l, resolved) ==
    IF trieOn /\ n \in trusted /\ n \notin negUNL /\ resolved
    THEN [trieTips EXCEPT ![n] = l]
    ELSE trieTips

-----------------------------------------------------------------------------
(* Start: NewValidationTracker with the adaptor's quorum, then SetTrusted.  *)
Init ==
    /\ validations = [l \in Ledgers |-> {}]
    /\ byNode = [n \in Nodes |-> None]
    /\ trusted \in TrustedSets
    /\ negUNL = {}
    /\ quorum \in Quorums
    /\ fired = {}
    /\ minSeq = 0
    /\ trieOn \in BOOLEAN
    /\ trieTips = [n \in Nodes |-> None]
    /\ dispatch = {}
    /\ everFired = {}
    /\ firedBy = [l \in Ledgers |-> {}]
    /\ calls = [l \in Ledgers |-> 0]
    /\ archived = [l \in Ledgers |-> {}]
    /\ floor = 0

(* The installed manifest resolver: a signing key's master key.             *)
resolver(k) == Resolve[k]

(* The filters of Add, in the code's order.  A filtered validation leaves   *)
(* the tracker as it was.                                                   *)
Accepts(n, l, full, sign, seen) ==
    /\ full
    /\ isCurrent(sign, seen)
    /\ ~(minSeq > 0 /\ SeqOf[l] < minSeq)
    /\ byNode[n] # None => SeqOf[l] > SeqOf[byNode[n]]

Add(k, l, full, sign, seen, resolved) ==
    LET n == resolver(k)
        vals == validations[l] \cup {n}
        fires == checkFullValidation(l, vals)
    IN /\ Accepts(n, l, full, sign, seen)
       /\ byNode' = [byNode EXCEPT ![n] = l]
       /\ validations' = [validations EXCEPT ![l] = vals]
       /\ trieTips' = updateTrie(n, l, resolved)
       /\ fired' = IF fires THEN fired \cup {l} ELSE fired
       /\ dispatch' = IF fires THEN dispatch \cup {l} ELSE dispatch
       /\ everFired' = IF fires THEN everFired \cup {l} ELSE everFired
       /\ firedBy' = IF fires THEN [firedBy EXCEPT ![l] = Counted(vals)]
                              ELSE firedBy
       /\ UNCHANGED <<config, calls, archived, floor>>

SetTrusted(T, known) ==
    /\ trusted' = T
    /\ trieTips' = rebuildTrie(known, T, negUNL)
    /\ UNCHANGED <<maps, negUNL, quorum, minSeq, trieOn, dispatch, history>>

SetQuorum(q) ==
    /\ quorum' = q
    /\ UNCHANGED <<maps, trusted, negUNL, minSeq, trieOn, trieTips, dispatch,
                   history>>

SetNegativeUNL(N, known) ==
    /\ negUNL' = N
    /\ trieTips' = rebuildTrie(known, trusted, N)
    /\ UNCHANGED <<maps, trusted, quorum, minSeq, trieOn, dispatch, history>>

SetMinSeq(s) ==
    /\ s > minSeq
    /\ minSeq' = s
    /\ UNCHANGED <<maps, trusted, negUNL, quorum, trieOn, trieTips, dispatch,
                   history>>

(* p is TRUE for a provider, FALSE for nil.                                 *)
SetLedgerAncestryProvider(p, known) ==
    /\ trieOn' = p
    /\ trieTips' = [n \in Nodes |->
                       IF p /\ byNode[n] \in known
                            /\ n \in trusted /\ n \notin negUNL
                       THEN byNode[n] ELSE None]
    /\ UNCHANGED <<maps, trusted, negUNL, quorum, minSeq, dispatch, history>>

(* The ledgers ExpireOld(s) drops, and the nodes whose latest validation is *)
(* one of the dropped ones.                                                 *)
Dropped(s) == {l \in Ledgers : validations[l] # {} /\ SeqOf[l] < s}

(* A mutant: a node of a dropped ledger is forgotten even when its latest   *)
(* validation is a newer one.                                               *)
DroppedLatestUnchecked(s) ==
    {n \in Nodes : \E l \in Dropped(s) : n \in validations[l]}

DroppedLatest(s) == {n \in Nodes : /\ byNode[n] \in Dropped(s)
                                   /\ n \in validations[byNode[n]]}

(* A mutant: only the latest validation of each node goes to onStale.       *)
ExpireOldLosing(s) ==
    /\ validations' = [l \in Ledgers |->
                          IF l \in Dropped(s) THEN {} ELSE validations[l]]
    /\ byNode' = [n \in Nodes |->
                     IF n \in DroppedLatest(s) THEN None ELSE byNode[n]]
    /\ trieTips' = [n \in Nodes |->
                       IF trieOn /\ n \in DroppedLatest(s)
                       THEN None ELSE trieTips[n]]
    /\ fired' = fired \ Dropped(s)
    /\ archived' = [l \in Ledgers |->
                       archived[l] \cup {n \in DroppedLatest(s) : byNode[n] = l}]
    /\ floor' = IF s > floor THEN s ELSE floor

ExpireOld(s) ==
    /\ validations' = [l \in Ledgers |->
                          IF l \in Dropped(s) THEN {} ELSE validations[l]]
    /\ byNode' = [n \in Nodes |->
                     IF n \in DroppedLatest(s) THEN None ELSE byNode[n]]
    /\ trieTips' = [n \in Nodes |->
                       IF trieOn /\ n \in DroppedLatest(s)
                       THEN None ELSE trieTips[n]]
    /\ fired' = fired \ Dropped(s)
    /\ archived' = [l \in Ledgers |->
                       IF l \in Dropped(s)
                       THEN archived[l] \cup validations[l] ELSE archived[l]]
    /\ floor' = IF s > floor THEN s ELSE floor

(* The callback Engine.Start installs, run by the goroutine that called Add *)
(* once vt.mu is free.                                                      *)
Dispatch(l) ==
    /\ l \in dispatch
    /\ dispatch' = dispatch \ {l}
    /\ calls' = [calls EXCEPT ![l] = IF @ < CallsCap THEN @ + 1 ELSE @]
    /\ IF InMemoryLedgers > 0 /\ SeqOf[l] > InMemoryLedgers
       THEN ExpireOld(SeqOf[l] - InMemoryLedgers)
       ELSE UNCHANGED <<maps, trieTips, archived, floor>>
    /\ UNCHANGED <<config, everFired, firedBy>>

(* Clear.  Nothing outside the tests calls it.                              *)
Clear ==
    /\ validations' = [l \in Ledgers |-> {}]
    /\ byNode' = [n \in Nodes |-> None]
    /\ fired' = {}
    /\ trieTips' = [n \in Nodes |-> None]
    /\ UNCHANGED <<config, dispatch, history>>

(* What the running engine does to its tracker.                             *)
Next ==
    \/ \E k \in Keys, l \in Ledgers, full \in BOOLEAN, sign \in SignOffsets,
          seen \in SeenOffsets, resolved \in BOOLEAN :
             Add(k, l, full, sign, seen, resolved)
    \/ \E l \in Ledgers : Dispatch(l)
    \/ \E T \in TrustedSets, known \in KnownSets : SetTrusted(T, known)
    \/ \E q \in Quorums : SetQuorum(q)
    \/ \E N \in NegUNLs, known \in KnownSets : SetNegativeUNL(N, known)
    \/ \E s \in MinSeqs : SetMinSeq(s)
    \/ \E p \in BOOLEAN, known \in KnownSets :
          SetLedgerAncestryProvider(p, known)

Spec == Init /\ [][Next]_vars

(* The whole exported interface.                                            *)
SpecAPI == Init /\ [][Next \/ Clear]_vars

-----------------------------------------------------------------------------
(* The types of the tracker's maps and of the history variables.            *)
TypeOK ==
    /\ validations \in [Ledgers -> SUBSET Nodes]
    /\ byNode \in [Nodes -> LedgerOrNone]
    /\ trusted \in TrustedSets
    /\ negUNL \in SUBSET Nodes
    /\ quorum \in Quorums
    /\ fired \in SUBSET Ledgers
    /\ minSeq \in Nat
    /\ trieOn \in BOOLEAN
    /\ trieTips \in [Nodes -> LedgerOrNone]
    /\ dispatch \in SUBSET Ledgers
    /\ everFired \in SUBSET Ledgers
    /\ firedBy \in [Ledgers -> SUBSET Nodes]
    /\ calls \in [Ledgers -> 0..CallsCap]
    /\ archived \in [Ledgers -> SUBSET Nodes]
    /\ floor \in Nat

(* The two indexes of Add and ExpireOld agree: a node's latest validation   *)
(* is recorded under its ledger, and everything else recorded for the node  *)
(* is for a strictly lower sequence.                                        *)
LatestIsHighest ==
    \A n \in Nodes :
        /\ byNode[n] # None => n \in validations[byNode[n]]
        /\ \A l \in Ledgers : n \in validations[l] =>
              /\ byNode[n] # None
              /\ l = byNode[n] \/ SeqOf[l] < SeqOf[byNode[n]]

(* A validator never counts for two ledgers of one sequence, although the   *)
(* map `validations' is per ledger and Add looks only at byNode.            *)
OneLedgerPerSeq ==
    \A l, m \in Ledgers :
        SeqOf[l] = SeqOf[m] /\ validations[l] \cap validations[m] # {} => l = m

(* What Add and ExpireOld keep of a validator is one consistent history:    *)
(* both indexes, read together, give it a single latest ledger and at most  *)
(* one ledger for every sequence.                                           *)
IndexesAgree == LatestIsHighest /\ OneLedgerPerSeq

(* Support in the trie comes only from validators that are trusted, not     *)
(* disabled and still tracked, and never from beyond what they validated,   *)
(* through every rebuild, expiry and provider swap.                         *)
TipsOfTrusted ==
    \A n \in Nodes : trieTips[n] # None =>
        /\ trieOn
        /\ n \in trusted
        /\ n \notin negUNL
        /\ byNode[n] # None
        /\ SeqOf[trieTips[n]] <= SeqOf[byNode[n]]

(* A validation that leaves the tracker, other than by Clear, has been      *)
(* handed to onStale, the archive's only source.                            *)
StaleDelivered ==
    [][~Clear => \A l \in Ledgers : validations[l] \ validations'[l] \subseteq archived'[l]]_vars
=============================================================================
