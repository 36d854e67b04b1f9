------------------------------ MODULE Overlay ------------------------------
(***************************************************************************)
(* The peer-to-peer overlay (internal/peermanagement): the connections,    *)
(* the event loop that dispatches what they deliver, the queue from the    *)
(* overlay to the consensus router, the squelch tables, the bad-data       *)
(* balances, and the reduce-relay slot (relay.go) that picks the peers a   *)
(* validator's messages are taken from and silences the others.  There is  *)
(* one validator; slots do not interact.                                   *)
(*                                                                         *)
(* The goroutines interleave: each connection's dial and read loop, the    *)
(* event loop, the maintenance loop and the router.  A PeerID is used for  *)
(* one connection only.                                                    *)
(***************************************************************************)
EXTENDS Integers, FiniteSets, SequencesExt

CONSTANTS
    PeerIDs, HostOf,        \* connections, and the remote host of each
    Inbound,                \* the ones the remote side opens
    MaxInbound, MaxOutbound,
    Replay,                 \* the ones that negotiated ledger replay
    EventCap, MessageCap,   \* capacities of the events and messages channels
    MinMessageThreshold, MaxMessageThreshold, MaxSelectedPeers,
    IdledTicks,             \* Idled
    SquelchTicks,           \* the length of a squelch
    StaleTicks,             \* 2 * MaxUnsquelchExpireDefault
    RelayedTicks,           \* RelayedIndexTTL
    EvictThreshold,         \* EvictBadDataThreshold, in charges
    NoSlot

ASSUME OverlayAssumption ==
    /\ Inbound \cup Replay \subseteq PeerIDs
    /\ MaxSelectedPeers \in Nat \ {0} /\ MinMessageThreshold <= MaxMessageThreshold

VARIABLES
    dialing,    \* between the first look at the peer table and the second
    joining,    \* past the second look, not yet in the table
    peers,      \* the peer table
    closed,     \* connections Close has been called on
    events, messages,
    known,      \* discovery.connected
    hints,      \* peers whose closed-ledger hint is set
    reported,   \* Router.peerStates: peers whose status the router has
    bad,        \* bad-data balances
    muted,      \* what a peer asked of us: remaining ticks of its squelch
    told,       \* what we asked of a peer: remaining ticks of the squelch
    slot,       \* the validator's slot, or NoSlot
    relayed,    \* the relayed index for the last message: peers and age
    wronged     \* history: peers charged for a message they did not send

conns == <<dialing, joining, peers, closed>>
reduce == <<told, slot, relayed, wronged>>
overlayVars == <<conns, events, messages, known, hints, reported, bad, muted, reduce>>

OverlayInit ==
    /\ dialing = {} /\ joining = {} /\ peers = {} /\ closed = {}
    /\ events = <<>> /\ messages = <<>>
    /\ known = {} /\ hints = {} /\ reported = {}
    /\ bad = [p \in PeerIDs |-> 0]
    /\ muted = [p \in PeerIDs |-> 0]
    /\ told = [p \in PeerIDs |-> 0]
    /\ slot = NoSlot
    /\ relayed = [peers |-> {}, age |-> RelayedTicks]
    /\ wronged = {}

Event(type, p, msg) == [type |-> type, peer |-> p, msg |-> msg]
Room == Len(events) < EventCap

Kinds == {"status", "validation", "malformed", "squelch", "unsquelch", "badSquelch", "replay"}

-----------------------------------------------------------------------------
(* The slot.  An operator takes a record [slot, told, charged].             *)

NewSlot == [peers |-> <<>>, considered |-> {}, reached |-> 0, since |-> 0, state |-> "counting"]

initCounting(s) ==
    [s EXCEPT !.state = "counting", !.considered = {}, !.reached = 0,
              !.peers = [p \in DOMAIN @ |-> [@[p] EXCEPT !.count = 0]]]

Candidates(s) == {p \in s.considered : p \in DOMAIN s.peers /\ s.peers[p].idle < IdledTicks}

(* selectPeers: pick is the outcome of the shuffle.                         *)
Selected(s, pick) ==
    IF pick \subseteq Candidates(s) THEN pick
    ELSE CHOOSE S \in kSubset(MaxSelectedPeers, Candidates(s)) : TRUE

Silenced(s, chosen) ==
    {p \in DOMAIN s.peers \ chosen : s.peers[p].state # "squelched"}

Divide(w, chosen) ==
    LET quiet == Silenced(w.slot, chosen) IN
    [w EXCEPT !.slot.peers = [p \in DOMAIN @ |->
                  [@[p] EXCEPT !.count = 0,
                               !.state = IF p \in chosen THEN "selected" ELSE "squelched",
                               !.expire = IF p \in quiet THEN SquelchTicks ELSE @]],
              !.slot.since = 0, !.slot.considered = {}, !.slot.reached = 0,
              !.slot.state = "selected",
              !.told = [p \in PeerIDs |-> IF p \in quiet \cap peers THEN SquelchTicks ELSE @[p]]]

selectPeers(w, pick) ==
    IF Cardinality(Candidates(w.slot)) < MaxSelectedPeers
    THEN [w EXCEPT !.slot = initCounting(@)]
    ELSE Divide(w, Selected(w.slot, pick))

(* Counting a message of p.  A count is kept up to MaxMessageThreshold + 2. *)
Count(s, p) ==
    LET n == s.peers[p].count + 1 IN
    [s EXCEPT !.peers[p].count = IF n > MaxMessageThreshold + 2 THEN n - 1 ELSE n,
              !.considered = IF n > MinMessageThreshold THEN @ \cup {p} ELSE @,
              !.reached = IF n = MaxMessageThreshold + 1 THEN @ + 1 ELSE @]

AfterCount(w, pick) ==
    IF w.slot.since > StaleTicks THEN [w EXCEPT !.slot = initCounting(@)]
    ELSE IF w.slot.reached = MaxSelectedPeers THEN selectPeers(w, pick)
    ELSE w

Heard(s, p) == [s EXCEPT !.peers[p].idle = 0]

(* ValidatorSlot.Update.                                                    *)
Update(w, p, pick) ==
    IF p \notin DOMAIN w.slot.peers
    THEN [w EXCEPT !.slot = initCounting([@ EXCEPT !.peers =
             [q \in DOMAIN @ \cup {p} |->
                 IF q = p THEN [state |-> "counting", count |-> 0, expire |-> 0, idle |-> 0]
                          ELSE @[q]]])]
    ELSE IF w.slot.peers[p].state = "squelched"
    THEN IF w.slot.peers[p].expire = 0
         THEN [w EXCEPT !.slot = initCounting([Heard(@, p) EXCEPT !.peers[p].state = "counting"])]
         ELSE [w EXCEPT !.slot = Heard(@, p), !.charged = Append(@, p)]
    ELSE IF w.slot.state # "counting" THEN [w EXCEPT !.slot = Heard(@, p)]
    ELSE AfterCount([w EXCEPT !.slot = Count(Heard(@, p), p)], pick)

(* The slot forgets p.  Without a selected peer every squelch is lifted.    *)
Lift(w, others) ==
    [w EXCEPT !.slot = [initCounting(@) EXCEPT !.peers = [p \in DOMAIN @ |->
                           IF p \in others THEN [@[p] EXCEPT !.state = "counting", !.expire = 0]
                           ELSE @[p]]],
              !.told = [p \in PeerIDs |->
                           IF /\ p \in others \cap DOMAIN w.slot.peers \cap peers
                              /\ w.slot.peers[p].state = "squelched"
                           THEN 0 ELSE @[p]]]

Unconsider(s, p) ==
    IF p \notin s.considered THEN s
    ELSE [s EXCEPT !.considered = @ \ {p},
                   !.reached = IF s.peers[p].count > MaxMessageThreshold THEN @ - 1 ELSE @]

(* A mutant: a selected peer leaves like any other.                         *)
DeletePeerQuietly(w, p) ==
    IF p \notin DOMAIN w.slot.peers THEN w
    ELSE [w EXCEPT !.slot = [Unconsider(@, p) EXCEPT !.peers = Restrict(@, DOMAIN @ \ {p})]]

(* DeletePeer with erase.                                                   *)
DeletePeer(w, p) ==
    IF p \notin DOMAIN w.slot.peers THEN w
    ELSE LET v == IF w.slot.peers[p].state = "selected"
                  THEN Lift(w, DOMAIN w.slot.peers \ {p})
                  ELSE [w EXCEPT !.slot = Unconsider(@, p)]
         IN [v EXCEPT !.slot.peers = Restrict(@, DOMAIN @ \ {p})]

(* deleteIdlePeers of the slot: the idle peers go one after the other, then *)
(* a slot with too few peers starts over.                                   *)
Demote(w) ==
    IF w.slot.state = "selected" /\ Cardinality(DOMAIN w.slot.peers) < MaxSelectedPeers
    THEN [w EXCEPT !.slot = initCounting(@)] ELSE w

deleteIdlePeers(w) ==
    Demote(FoldLeft(DeletePeer, w,
                    SetToSeq({p \in DOMAIN w.slot.peers : w.slot.peers[p].idle > IdledTicks})))

Kept(s) == IF s.peers = <<>> THEN NoSlot ELSE s

Work == [slot |-> IF slot = NoSlot THEN NewSlot ELSE slot, told |-> told, charged |-> <<>>]

(* What becomes of the slot and the balances; origin is the peer whose      *)
(* message was at work.                                                     *)
Settle(w, origin) ==
    /\ slot' = w.slot
    /\ told' = w.told
    /\ bad' = [p \in PeerIDs |->
                  IF p \in peers THEN bad[p] + Len(SelectSeq(w.charged, LAMBDA q : q = p)) ELSE bad[p]]
    /\ wronged' = wronged \cup ((ToSet(w.charged) \cap peers) \ origin)

-----------------------------------------------------------------------------
(* Connections.  Connect and handleInbound look at the table, shake hands,  *)
(* look again, and enter the table.                                         *)
Taken(p) == \E q \in peers : HostOf[q] = HostOf[p]
NeedsMorePeers == Cardinality(known) < MaxOutbound
New(p) == p \notin dialing \cup joining \cup peers \cup closed

Dial(p) ==
    /\ New(p)
    /\ IF p \in Inbound THEN Cardinality(peers \cap Inbound) < MaxInbound
       ELSE /\ ~Taken(p)
            /\ NeedsMorePeers     \* autoconnect
            /\ Cardinality(peers \ Inbound) < MaxOutbound
    /\ dialing' = dialing \cup {p}
    /\ UNCHANGED <<joining, peers, closed, events, messages, known, hints, reported, bad, muted, reduce>>

HandshakeDone(p) ==
    /\ p \in dialing /\ Room
    /\ dialing' = dialing \ {p}
    /\ IF ~Taken(p)
       THEN joining' = joining \cup {p} /\ UNCHANGED <<closed, events>>
       ELSE /\ closed' = closed \cup {p}
            /\ events' = IF p \in Inbound THEN events
                         ELSE Append(events, Event("disconnected", p, "none"))
            /\ UNCHANGED joining
    /\ UNCHANGED <<peers, messages, known, hints, reported, bad, muted, reduce>>

AddPeer(p) ==
    /\ p \in joining /\ Room
    /\ joining' = joining \ {p}
    /\ peers' = peers \cup {p}
    /\ events' = Append(events, Event("connected", p, "none"))
    /\ UNCHANGED <<dialing, closed, messages, known, hints, reported, bad, muted, reduce>>

(* The read loop hands a frame to the event loop.                           *)
Receive(p, kind) ==
    /\ p \in peers \ closed /\ Room
    /\ events' = Append(events, Event("message", p, kind))
    /\ UNCHANGED <<conns, messages, known, hints, reported, bad, muted, reduce>>

(* Close, by the run loop after an error or by evictBadDataPeers, then      *)
(* removePeer: each reports the disconnection.                              *)
Close(p) ==
    /\ p \in peers \ closed /\ Room
    /\ closed' = closed \cup {p}
    /\ events' = Append(events, Event("disconnected", p, "none"))
    /\ UNCHANGED <<dialing, joining, peers, messages, known, hints, reported, bad, muted, reduce>>

evictBadDataPeers(p) == bad[p] >= EvictThreshold /\ Close(p)

RemovePeer(p) ==
    /\ p \in peers \cap closed /\ Room
    /\ peers' = peers \ {p}
    /\ events' = Append(events, Event("disconnected", p, "none"))
    /\ told' = [told EXCEPT ![p] = 0]
    /\ muted' = [muted EXCEPT ![p] = 0]
    /\ hints' = hints \ {p}
    /\ UNCHANGED <<dialing, joining, closed, messages, known, reported, bad, slot, relayed, wronged>>

DecayBadData ==
    /\ bad' = [p \in PeerIDs |-> bad[p] \div 2]
    /\ bad' # bad
    /\ UNCHANGED <<conns, events, messages, known, hints, reported, muted, reduce>>

-----------------------------------------------------------------------------
(* The event loop.                                                          *)

MarkConnected(p) == known' = known \cup {p}
MarkDisconnected(p) == known' = known \ {p}

onPeerConnected(p) ==
    /\ IF p \in Inbound THEN UNCHANGED known ELSE MarkConnected(p)
    /\ UNCHANGED <<messages, hints, reported, bad, muted, reduce>>

(* onPeerDisconnected, with the router's HandlePeerDisconnect.              *)
onPeerDisconnected(p) ==
    /\ MarkDisconnected(p)
    /\ reported' = reported \ {p}
    /\ IF slot = NoSlot THEN UNCHANGED <<bad, told, slot, wronged>>
       ELSE Settle(DeletePeer(Work, p), {})
    /\ UNCHANGED <<messages, hints, muted, relayed>>

(* onMessageReceived.  A status change sets the peer's hint; squelches act  *)
(* on the peer's table; an answer the peer did not negotiate is charged;    *)
(* everything else goes to the router, or is dropped when the channel is    *)
(* full.                                                                    *)
StatusHere(p) == hints' = hints \cup ({p} \cap peers) /\ UNCHANGED <<messages, bad, muted>>

(* AddSquelch: a duration out of range lifts the squelch, and is charged.   *)
AddSquelch(p, inRange) ==
    /\ muted' = [muted EXCEPT ![p] = IF inRange THEN SquelchTicks ELSE 0]
    /\ bad' = IF inRange THEN bad ELSE [bad EXCEPT ![p] = @ + 1]

RemoveSquelch(p) == muted' = [muted EXCEPT ![p] = 0] /\ UNCHANGED bad

Squelch(p, kind) ==
    /\ IF p \notin peers THEN UNCHANGED <<muted, bad>>
       ELSE IF kind = "unsquelch" THEN RemoveSquelch(p)
       ELSE AddSquelch(p, kind = "squelch")
    /\ UNCHANGED <<messages, hints>>

Unnegotiated(p) ==
    /\ bad' = IF p \in peers THEN [bad EXCEPT ![p] = @ + 1] ELSE bad
    /\ UNCHANGED <<messages, hints, muted>>

Forward(p, kind) ==
    /\ messages' = IF Len(messages) < MessageCap
                   THEN Append(messages, [peer |-> p, msg |-> kind]) ELSE messages
    /\ UNCHANGED <<hints, bad, muted>>

onMessageReceived(p, kind) ==
    /\ \/ kind = "status" /\ StatusHere(p)
       \/ kind \in {"squelch", "unsquelch", "badSquelch"} /\ Squelch(p, kind)
       \/ kind = "replay" /\ p \notin Replay \cap peers /\ Unnegotiated(p)
       \/ kind = "replay" /\ p \in Replay \cap peers /\ Forward(p, kind)
       \/ kind \in {"validation", "malformed"} /\ Forward(p, kind)
    /\ UNCHANGED <<known, reported, reduce>>

HandleEvent ==
    /\ events # <<>>
    /\ events' = Tail(events)
    /\ UNCHANGED conns
    /\ LET e == Head(events) IN
       \/ e.type = "connected" /\ onPeerConnected(e.peer)
       \/ e.type = "disconnected" /\ onPeerDisconnected(e.peer)
       \/ e.type = "message" /\ onMessageReceived(e.peer, e.msg)

-----------------------------------------------------------------------------
(* The router.  A fresh message is relayed to every peer that has not       *)
(* squelched the validator, and the index remembers to whom; a duplicate    *)
(* feeds the slot with its sender and with those peers (UpdateRelaySlot).   *)
RelayFromValidator(p) ==
    /\ relayed' = LET to == {q \in peers \ (closed \cup {p}) : muted[q] = 0} IN
                  IF to = {} THEN relayed ELSE [peers |-> to, age |-> 0]
    /\ UNCHANGED <<bad, told, slot, wronged>>

PeersThatHave == IF relayed.age >= RelayedTicks THEN {} ELSE relayed.peers

UpdateRelaySlot(p, pick) ==
    /\ Settle(FoldLeft(LAMBDA w, q : Update(w, q, pick), Work,
                       <<p>> \o SetToSeq(PeersThatHave \ {p})), {p})
    /\ UNCHANGED relayed

(* A malformed frame is charged to its sender.                              *)
Malformed(p) ==
    /\ bad' = IF p \in peers THEN [bad EXCEPT ![p] = @ + 1] ELSE bad
    /\ UNCHANGED reduce

RouterHandle ==
    /\ messages # <<>>
    /\ messages' = Tail(messages)
    /\ LET m == Head(messages) IN
       \/ m.msg = "validation" /\ RelayFromValidator(m.peer)
       \/ m.msg = "validation" /\ \E pick \in kSubset(MaxSelectedPeers, PeerIDs) :
                                      UpdateRelaySlot(m.peer, pick)
       \/ m.msg = "malformed" /\ Malformed(m.peer)
       \/ m.msg = "replay" /\ UNCHANGED <<bad, reduce>>
    \* A status change would be recorded; none comes.
    /\ reported' = IF Head(messages).msg = "status" THEN reported \cup {Head(messages).peer}
                   ELSE reported
    /\ UNCHANGED <<conns, events, known, hints, muted>>

(* The idle sweep of the maintenance loop.                                  *)
IdleSweep ==
    /\ slot # NoSlot
    /\ slot' = Kept(deleteIdlePeers(Work).slot)
    /\ told' = deleteIdlePeers(Work).told
    /\ slot' # slot
    /\ UNCHANGED <<conns, events, messages, known, hints, reported, bad, muted, relayed, wronged>>

Less(n) == IF n = 0 THEN 0 ELSE n - 1
More(n, cap) == IF n > cap THEN n ELSE n + 1

Passing ==
    /\ muted' = [p \in PeerIDs |-> Less(muted[p])]
    /\ told' = [p \in PeerIDs |-> Less(told[p])]
    /\ relayed' = [relayed EXCEPT !.age = IF @ < RelayedTicks THEN @ + 1 ELSE @]
    /\ slot' = IF slot = NoSlot THEN slot
               ELSE [slot EXCEPT !.since = More(@, StaleTicks),
                                 !.peers = [p \in DOMAIN @ |->
                                    [@[p] EXCEPT !.idle = More(@, IdledTicks), !.expire = Less(@)]]]

TimePasses ==
    /\ Passing
    /\ <<muted', told', relayed', slot'>> # <<muted, told, relayed, slot>>
    /\ UNCHANGED <<conns, events, messages, known, hints, reported, bad, wronged>>

OverlayNews ==
    \/ \E p \in PeerIDs : Dial(p) \/ Close(p)
    \/ \E p \in PeerIDs, kind \in Kinds : Receive(p, kind)

OverlayWork ==
    \/ \E p \in PeerIDs : HandshakeDone(p) \/ AddPeer(p) \/ RemovePeer(p) \/ evictBadDataPeers(p)
    \/ DecayBadData
    \/ HandleEvent
    \/ RouterHandle
    \/ IdleSweep
    \/ TimePasses

-----------------------------------------------------------------------------
(* A slot that has made its choice has exactly MaxSelectedPeers sources:    *)
(* connections that close, fall silent, join or expire in between never     *)
(* leave it selected with fewer.                                            *)
SelectedExactly ==
    slot # NoSlot =>
      (slot.state = "selected" =>
         Cardinality({p \in DOMAIN slot.peers : slot.peers[p].state = "selected"}) = MaxSelectedPeers)

(* A connection that is gone is forgotten for good by discovery, the router *)
(* and the slot, although its last messages, and the relayed index, may     *)
(* still bring it up after the disconnection was handled.                   *)
DeadForgotten ==
    \A p \in PeerIDs :
        <>[](p \in closed \ peers =>
                /\ p \notin known \cup reported
                /\ slot # NoSlot => p \notin DOMAIN slot.peers)
=============================================================================
