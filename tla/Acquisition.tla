---------------------------- MODULE Acquisition ----------------------------
(***************************************************************************)
(* Catching up with the network: the Router (consensus/adaptor/router.go)  *)
(* hears from its peers which ledgers they are on, and fetches the ones it *)
(* misses on one of two paths.  The replay path (ledger/inbound/           *)
(* replayer.go, replay_delta.go) asks for the transactions of a ledger     *)
(* whose parent is in the history and applies them; any number of replays  *)
(* are in flight, each with a sub-task timer that rotates the peer and an  *)
(* outer timer that hands the ledger to the legacy path.  The legacy path  *)
(* (ledger/inbound/inbound.go, shamap/sync.go) fetches the header and the  *)
(* nodes of the state tree, one ledger at a time.  Either way the result   *)
(* goes to the ledger service.                                             *)
(*                                                                         *)
(* The peers answer honestly or not at all, late, more than once, in part, *)
(* or with an error.  The router handles one message at a time.            *)
(***************************************************************************)
EXTENDS LedgerService, SHAMap

CONSTANTS
    Peers,
    ReplayPeers,        \* peers that negotiated ledger replay
    HeaderOnlyPeers,    \* peers whose base reply is the header alone
    KeyOf,              \* the state key a transaction writes
    GenesisKey,         \* the state key of the genesis ledger
    Stray,              \* the transaction of a ledger only this node closes
    MaxReply,           \* bound: state nodes in a reply
    FatDepth,           \* how deep below a node a peer's reply reaches
    MaxInFlight, MaxPerPeerReplays,
    SubTaskTicks,       \* SubTaskTimeout, in ticks
    RetryMax,           \* SubTaskRetryMax
    OuterTicks,         \* the timeout of a replay, in ticks
    LegacyTicks         \* the timeout of a legacy acquisition, in ticks

ASSUME AcquisitionAssumption ==
    /\ ReplayPeers \cup HeaderOnlyPeers \subseteq Peers
    /\ KeyOf \in [Txs -> ItemKeys] /\ GenesisKey \in ItemKeys /\ Stray \in Txs
    /\ {MaxInFlight, MaxPerPeerReplays, SubTaskTicks, RetryMax, OuterTicks, LegacyTicks,
        FatDepth} \subseteq Nat

VARIABLES
    connected,      \* peers the overlay holds a connection to
    peerStates,     \* the ledger each peer last reported
    mode,           \* the operating mode: below tracking, tracking, full
    acq,            \* the acquisitions: see AcquisitionInit
    hollow,         \* ledgers adopted from a header, with the genesis state
    charged,        \* IncPeerBadData: the peer charged, and whose message it was
    torn            \* history: ledgers fetched whole and adopted with another state

netVars == <<connected, peerStates, mode, acq, hollow, charged, torn>>
allVars == <<vars, netVars>>

-----------------------------------------------------------------------------
(* The trees.                                                               *)

Put(type, key, with(_, _, _, _, _, _), t) ==
    with(t, type, key, CHOOSE d \in Data : TRUE, FALSE, <<>>)

TreeOf(type, keys, with(_, _, _, _, _, _)) ==
    FoldLeft(LAMBDA t, k : Put(type, k, with, t), <<>> :> NewInner, SetToSeq(keys))

(* The state map of each ledger.                                            *)
StateTree ==
    [l \in PeerLedgers \cup {Genesis} |->
        TreeOf("account_state",
               {GenesisKey} \cup {KeyOf[x] : x \in UNION {l[i].effects : i \in DOMAIN l}},
               PutItem)]

(* verifyAndBuild puts the transactions with PutWithNodeType; the root in   *)
(* the header comes from a map filled with Put.                             *)
TxRootMatches(l) ==
    LET keys == {KeyOf[x] : x \in Last(l).txs} IN
    TreeOf("tx", keys, PutItemWithNodeType)[<<>>].hash = TreeOf("tx", keys, PutItem)[<<>>].hash

(* What Apply makes of the parent's state with the transactions of a        *)
(* ledger; a bare parent has the state of genesis.                          *)
ReplayedState ==
    [l \in PeerLedgers |-> [bare \in BOOLEAN |->
        FoldLeft(LAMBDA t, k : Put("account_state", k, PutItem, t),
                 StateTree[IF bare THEN Genesis ELSE ParentOf(l)],
                 SetToSeq({KeyOf[x] : x \in Last(l).effects}))]]

(* A node as a peer sends it.                                               *)
Wire(t, p) == Deserialize(Serialize(t[p]))

(* The nodes a peer returns for a request of the root and FatDepth levels,  *)
(* parents first.                                                           *)
FatReply ==
    [l \in PeerLedgers |-> SetToSortSeq({p \in DOMAIN StateTree[l] : Len(p) <= FatDepth},
                                        LAMBDA p, q : Len(p) < Len(q))]

(* AddKnownNode: the node goes to the place whose stored hash is its own;   *)
(* SetChild drops what was loaded there.  A node with no place is ignored.  *)
Places(t, node) ==
    {q \in UNION {{Append(p, b) : b \in Branches} : p \in {p \in DOMAIN t : ~IsLeaf(t[p])}} :
        ChildHash(t, Front(q), t[Front(q)], Last(q)) = HashOf(node)}

AddKnownNode(t, node) ==
    IF Places(t, node) = {} THEN t
    ELSE LET q == CHOOSE q \in Places(t, node) : TRUE IN
         SetChild((q :> node) @@ Without(t, Below(t, q)), Front(q), Last(q))

-----------------------------------------------------------------------------
(* The acquisitions are a record [inbound, inFlight, asked]: the legacy     *)
(* acquisition or None, the replays by ledger, and the requests on the      *)
(* wire.  A request is never taken off: its answer may come at any later    *)
(* time, twice, or never.                                                   *)

AcquisitionInit ==
    /\ Init
    /\ connected = Peers
    /\ peerStates = [p \in Peers |-> None]
    /\ mode = "below"
    /\ acq = [inbound |-> None, inFlight |-> <<>>, asked |-> {}]
    /\ hollow = {} /\ charged = {} /\ torn = {}

Charge(p, sender) == [peer |-> p, sender |-> sender]

(* A send fails when the peer is gone.                                      *)
Request(a, kind, p, l) ==
    IF p \in connected
    THEN [a EXCEPT !.asked = @ \cup {[kind |-> kind, peer |-> p, ledger |-> l]}]
    ELSE a

LegacyFor(a, l) == a.inbound # None /\ a.inbound.ledger = l

(* isAcquiring.                                                             *)
IsAcquiring(a, l) == l \in DOMAIN a.inFlight \/ LegacyFor(a, l)

(* startLedgerAcquisitionLegacy: another ledger's acquisition is replaced.  *)
AcquireLegacy(a, p, l) ==
    IF IsAcquiring(a, l) THEN a
    ELSE IF p \in connected
    THEN Request([a EXCEPT !.inbound = [ledger |-> l, peer |-> p, state |-> "WantBase",
                                        tree |-> <<>>, full |-> TRUE, age |-> 0]],
                 "base", p, l)
    ELSE [a EXCEPT !.inbound = None]

(* Replayer.Acquire accepts another replay from p.                          *)
MayReplay(a, p) ==
    /\ Cardinality(DOMAIN a.inFlight) < MaxInFlight
    /\ Cardinality({l \in DOMAIN a.inFlight : a.inFlight[l].peer = p}) < MaxPerPeerReplays

NewReplay(p, parent) ==
    [peer |-> p, parent |-> parent, age |-> 0, subAge |-> 0, retries |-> 0, tried |-> {p}]

Abandon(a, l) == [a EXCEPT !.inFlight = Restrict(@, DOMAIN @ \ {l})]

(* startLedgerAcquisition: the replay path when the parent is here and the  *)
(* peer can, the legacy path when it refuses.                               *)
StartLedgerAcquisition(a, p, l) ==
    LET parent == svc.ledgerHistory[Sequence(l) - 1] IN
    IF IsAcquiring(a, l) THEN a
    ELSE IF parent # None /\ p \in ReplayPeers \cap connected /\ MayReplay(a, p)
    THEN Request([a EXCEPT !.inFlight = (l :> NewReplay(p, parent)) @@ @], "replay", p, l)
    ELSE AcquireLegacy(a, p, l)

-----------------------------------------------------------------------------
(* Handing a fetched ledger to the service (adoptVerifiedLedger,            *)
(* completeInboundLedger).  The mode rises to tracking even when the        *)
(* service drops the ledger.                                                *)
Adopted(r, l) == {x \in hollow : IsPrefix(l, x) /\ IsPrefix(x, r.svc.closedLedger)}

Adopt(r, l) ==
    /\ Becomes(r)
    /\ hollow' = hollow \ Adopted(r, l)
    /\ mode' = IF mode = "below" THEN "tracking" ELSE mode
    /\ UNCHANGED <<prevLedger, quorumed, result>>

AdoptVerified(l) == Adopt(submitHeldAdoption(evictExpiredHeldAdoptions(svc), l), l)

-----------------------------------------------------------------------------
(* ourLCLMatchesPeers: more than half of the peers that report our sequence *)
(* report our ledger; with no such peer, true.                              *)
OurLCLMatchesPeers(reports) ==
    LET at == {p \in Peers : reports[p] # None /\ Sequence(reports[p]) = Sequence(svc.closedLedger)}
    IN at = {} \/ Cardinality({p \in at : reports[p] = svc.closedLedger}) > Cardinality(at) \div 2

(* The cases in which handleStatusChange and checkBehind fetch the ledger   *)
(* a peer reports.                                                          *)
Wanted(l) ==
    \/ svc.needsInitialSync
    \/ Sequence(l) > Sequence(svc.closedLedger) + 1
    \/ Sequence(l) = Sequence(svc.closedLedger) /\ l # svc.closedLedger

(* handleStatusChange.                                                      *)
StatusChange(p, l) ==
    /\ p \in connected
    /\ peerStates' = [peerStates EXCEPT ![p] = l]
    /\ acq' = IF Wanted(l) THEN StartLedgerAcquisition(acq, p, l) ELSE acq
    /\ mode' = IF ~Wanted(l) /\ mode = "tracking" /\ OurLCLMatchesPeers(peerStates')
               THEN "full" ELSE mode
    /\ UNCHANGED <<vars, connected, hollow, charged, torn>>

(* handleReplayDeltaResponse.  The header and the transactions of the       *)
(* answer are checked against the parent of the replay (verifyAndBuild),    *)
(* then applied to it (Apply), which compares the state root with the       *)
(* header's.  The peer that is charged is the one the replay is now         *)
(* assigned to.                                                             *)
IsStateOf(t, l) == HashOf(t[<<>>]) = HashOf(StateTree[l][<<>>]) /\ MissingNodes(t) = {}
Torn(t, l) == IF IsStateOf(t, l) THEN torn ELSE torn \cup {l}
Replayed(l) == ReplayedState[l][ParentOf(l) \in hollow]

(* A mutant: Apply does not compare the state roots.                        *)
AppliesUnchecked(l) == TRUE

Applies(l) == HashOf(Replayed(l)[<<>>]) = HashOf(StateTree[l][<<>>])

Verified(l, ok) == ok /\ acq.inFlight[l].parent = ParentOf(l) /\ TxRootMatches(l)

ReplayFails(l, culprits) ==
    /\ acq' = AcquireLegacy(Abandon(acq, l), acq.inFlight[l].peer, l)
    /\ charged' = charged \cup {Charge(acq.inFlight[l].peer, p) : p \in culprits}
    /\ UNCHANGED <<vars, connected, peerStates, mode, hollow, torn>>

ReplayDeltaResponse(p, l, ok) ==
    /\ [kind |-> "replay", peer |-> p, ledger |-> l] \in acq.asked
    /\ l \in DOMAIN acq.inFlight
    /\ \/ ~Verified(l, ok) /\ ReplayFails(l, {p})
       \/ Verified(l, ok) /\ ~Applies(l) /\ ReplayFails(l, {})
       \/ /\ Verified(l, ok) /\ Applies(l)
          /\ acq' = Abandon(acq, l)
          /\ AdoptVerified(l)
          /\ torn' = Torn(Replayed(l), l)
          /\ UNCHANGED <<connected, peerStates, charged>>

(* handleLedgerData with a base reply: the header, and the root of the      *)
(* state tree unless the peer sends the header alone.  A header alone ends  *)
(* the acquisition and, before the first adoption, is adopted as it is      *)
(* (AdoptLedgerFromHeader), as is any base reply for a ledger that is not   *)
(* being acquired.                                                          *)
GotBase(a, l) ==
    IF a.inbound.state = "WantBase"
    THEN Request([a EXCEPT !.inbound.state = "WantState",
                           !.inbound.tree = <<>> :> Wire(StateTree[l], <<>>)],
                 "state", a.inbound.peer, l)
    ELSE IF a.inbound.state = "WantState" THEN Request(a, "state", a.inbound.peer, l)
    ELSE a

LedgerBase(p, l) ==
    /\ [kind |-> "base", peer |-> p, ledger |-> l] \in acq.asked
    /\ IF LegacyFor(acq, l) /\ p \notin HeaderOnlyPeers
       THEN /\ acq' = GotBase(acq, l)
            /\ UNCHANGED <<vars, mode, hollow>>
       ELSE /\ acq' = IF LegacyFor(acq, l) THEN [acq EXCEPT !.inbound = None] ELSE acq
            /\ IF svc.needsInitialSync
               THEN /\ AdoptLedgerHeader(l)
                    /\ mode' = "tracking"
                    /\ hollow' = IF StateTree[l] = StateTree[Genesis] THEN hollow
                                 ELSE hollow \cup {l}
               ELSE UNCHANGED <<vars, mode, hollow>>
    /\ UNCHANGED <<connected, peerStates, charged, torn>>

(* FinishSync succeeds.                                                     *)
FinishSync(t) == MissingNodes(t) = {}

(* IsComplete of the map being filled.  shamap.New makes it full, and       *)
(* neither StartSync nor AddRootNode takes that back.                       *)
IsComplete(i) == i.full \/ MissingNodes(i.tree) = {}

(* GotStateNodes of the first n nodes of a peer's reply.                    *)
WithNodes(i, l, n) ==
    [i EXCEPT !.tree = FoldLeft(LAMBDA t, p : AddKnownNode(t, Wire(StateTree[l], p)),
                                @, SubSeq(FatReply[l], 1, n))]

GotStateNodes(i, l, n) ==
    LET w == WithNodes(i, l, n) IN
    IF ~IsComplete(w) THEN w
    ELSE [w EXCEPT !.state = IF FinishSync(w.tree) THEN "Complete" ELSE "Failed"]

(* handleInboundLedgerData with state nodes.  In the wrong state, or when   *)
(* FinishSync fails, the peer is charged and the acquisition stays.         *)
StateNodes(p, l, i) ==
    IF i.state = "Complete"
    THEN /\ acq' = [acq EXCEPT !.inbound = None]
         /\ AdoptVerified(l)
         /\ torn' = Torn(i.tree, l)
         /\ UNCHANGED charged
    ELSE /\ acq' = IF i.state = "WantState" THEN Request([acq EXCEPT !.inbound = i], "state", i.peer, l)
                   ELSE [acq EXCEPT !.inbound = i]
         /\ charged' = IF i.state = "WantState" THEN charged ELSE charged \cup {Charge(i.peer, p)}
         /\ UNCHANGED <<vars, mode, hollow, torn>>

LedgerState(p, l, n) ==
    /\ [kind |-> "state", peer |-> p, ledger |-> l] \in acq.asked
    /\ LegacyFor(acq, l)
    /\ n <= Len(FatReply[l])
    /\ StateNodes(p, l, IF acq.inbound.state = "WantState"
                        THEN GotStateNodes(acq.inbound, l, n) ELSE acq.inbound)
    /\ UNCHANGED <<connected, peerStates>>

-----------------------------------------------------------------------------
(* maintenanceTick.                                                         *)

(* SubTaskTimedOut.                                                         *)
SubTaskTimedOut(a) ==
    {l \in DOMAIN a.inFlight : /\ a.inFlight[l].subAge > SubTaskTicks
                               /\ a.inFlight[l].age <= OuterTicks
                               /\ a.inFlight[l].retries < RetryMax}

Fresh(a, l) == (connected \cap ReplayPeers) \ a.inFlight[l].tried

(* The rotation of the replays whose sub-task timed out, each to a fresh    *)
(* peer (NoteSubTaskRetry and RequestReplayDelta).                          *)
Rotate(a, picks) ==
    LET moved == {l \in SubTaskTimedOut(a) : Fresh(a, l) # {}} IN
    [a EXCEPT !.inFlight = [l \in DOMAIN @ |->
                  IF l \notin moved THEN @[l]
                  ELSE [@[l] EXCEPT !.peer = picks[l], !.subAge = 0, !.retries = @ + 1,
                                    !.tried = @ \cup {picks[l]}]],
              !.asked = @ \cup {[kind |-> "replay", peer |-> picks[l], ledger |-> l] : l \in moved}]

(* A mutant: a replay times out only after its last rotation.               *)
TimedOutAfterRetries(a) ==
    {l \in DOMAIN a.inFlight : a.inFlight[l].age > OuterTicks /\ a.inFlight[l].retries >= RetryMax}

(* TimedOut.                                                                *)
TimedOut(a) == {l \in DOMAIN a.inFlight : a.inFlight[l].age > OuterTicks}

(* Each goes to the legacy path, lowest sequence first: a later one         *)
(* replaces the acquisition an earlier one has just begun.                  *)
Escalate(a) ==
    FoldLeft(LAMBDA b, l : AcquireLegacy(Abandon(b, l), b.inFlight[l].peer, l), a,
             SetToSortSeq(TimedOut(a), LAMBDA x, y : Sequence(x) < Sequence(y)))

(* IsTimedOut of the legacy acquisition.                                    *)
Reap(a) ==
    IF a.inbound # None /\ a.inbound.age > LegacyTicks
          /\ a.inbound.state \notin {"Complete", "Failed"}
    THEN [a EXCEPT !.inbound = None] ELSE a

MaintenanceTick ==
    /\ \E picks \in [SubTaskTimedOut(acq) -> Peers] :
          /\ \A l \in DOMAIN picks : Fresh(acq, l) # {} => picks[l] \in Fresh(acq, l)
          /\ acq' = Reap(Escalate(Rotate(acq, picks)))
    /\ acq' # acq
    /\ UNCHANGED <<vars, connected, peerStates, mode, hollow, charged, torn>>

(* Time passes for the timers.                                              *)
UpTo(n, limit) == IF n > limit THEN n ELSE n + 1

Elapse ==
    /\ acq' = [acq EXCEPT
         !.inFlight = [l \in DOMAIN @ |-> [@[l] EXCEPT !.age = UpTo(@, OuterTicks),
                                                       !.subAge = UpTo(@, SubTaskTicks)]],
         !.inbound = IF @ = None THEN None ELSE [@ EXCEPT !.age = UpTo(@, LegacyTicks)]]
    /\ acq' # acq
    /\ UNCHANGED <<vars, connected, peerStates, mode, hollow, charged, torn>>

(* The overlay loses a peer (HandlePeerDisconnect) or finds it again.       *)
PeerDisconnect(p) ==
    /\ p \in connected
    /\ connected' = connected \ {p}
    /\ peerStates' = [peerStates EXCEPT ![p] = None]
    /\ UNCHANGED <<vars, mode, acq, hollow, charged, torn>>

PeerConnect(p) ==
    /\ p \notin connected
    /\ connected' = connected \cup {p}
    /\ UNCHANGED <<vars, peerStates, mode, acq, hollow, charged, torn>>

(* Consensus on this node alone: a ledger the network does not have.        *)
CloseAlone ==
    /\ prevLedger = svc.closedLedger
    /\ AcceptConsensusResult({Stray})
    /\ UNCHANGED netVars

FollowClosed ==
    /\ SwitchLedger(svc.closedLedger)
    /\ UNCHANGED netVars

(* What happens to the router, and what it makes of it.                    *)
AcquisitionNews ==
    \/ \E p \in Peers, l \in PeerLedgers : StatusChange(p, l)
    \/ \E p \in Peers : PeerDisconnect(p) \/ PeerConnect(p)
    \/ CloseAlone

AcquisitionReaction ==
    \/ \E p \in Peers, l \in PeerLedgers, ok \in BOOLEAN : ReplayDeltaResponse(p, l, ok)
    \/ \E p \in Peers, l \in PeerLedgers : LedgerBase(p, l)
    \/ \E p \in Peers, l \in PeerLedgers, n \in 1 .. MaxReply : LedgerState(p, l, n)
    \/ MaintenanceTick
    \/ Elapse
    \/ FollowClosed

AcquisitionNext == AcquisitionNews \/ AcquisitionReaction

(* Run's ticker calls maintenanceTick every second for as long as the       *)
(* router lives, and time passes.                                           *)
AcquisitionFairness == WF_allVars(MaintenanceTick) /\ WF_allVars(Elapse)

AcquisitionSpec == AcquisitionInit /\ [][AcquisitionNext]_allVars /\ AcquisitionFairness

-----------------------------------------------------------------------------
(* What the replay and the legacy path adopt carries the state its header   *)
(* names: however a reply was cut, and even when the parent it is replayed  *)
(* on has no state of its own.  Without its state the service takes at most *)
(* one ledger, a header that ends the initial sync (router.go 1168-1171,    *)
(* against the comment at 701-702: "Don't adopt with synthetic headers -    *)
(* wait for real state data").                                              *)
AdoptedWhole ==
    /\ torn = {}
    /\ Cardinality(hollow) <= 1
    /\ hollow # {} => ~svc.needsInitialSync

(* A ledger is fetched on one path at a time, whatever timeouts, late       *)
(* answers and reconnections come in between.                               *)
OnePathPerLedger == acq.inbound # None => acq.inbound.ledger \notin DOMAIN acq.inFlight

(* What the router fetches it fetches on one path and adopts whole, but for *)
(* the one header that may end the initial sync.                            *)
AcquisitionSound == AdoptedWhole /\ OnePathPerLedger

(* No replay stays in flight forever: it is applied, abandoned, or handed   *)
(* to the legacy path, even when every peer is gone.                        *)
ReplayEnds == \A l \in PeerLedgers : l \in DOMAIN acq.inFlight ~> l \notin DOMAIN acq.inFlight
=============================================================================
