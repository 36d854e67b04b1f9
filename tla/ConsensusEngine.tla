-------------------------- MODULE ConsensusEngine --------------------------
(***************************************************************************)
(* The round state machine of the RCL consensus engine                     *)
(* (internal/consensus/rcl/engine.go) of one validator in operating mode   *)
(* Full, between its peers' proposals, its heartbeat and its ledger        *)
(* service.                                                                *)
(*                                                                         *)
(* The Engine struct is the record e.  Every handler holds e.mu from       *)
(* beginning to end and is one action; the functions it calls are          *)
(* operators from an engine record to the next.  What depends on clocks    *)
(* (deadlines, freshness, the close-time vote) is chosen by the action.    *)
(*                                                                         *)
(* A ledger is the sequence of transaction sets from genesis to it.        *)
(***************************************************************************)
EXTENDS Integers, FiniteSets, SequencesExt

CONSTANTS
    Peers,        \* the trusted validators other than this node
    TxSets,       \* transaction sets
    EmptySet,     \* the set of no transactions
    Pending,      \* those the node's pending transactions may form
    Messages,     \* proposals peers may send: [node, prev, pos, set]
    Adoptable,    \* ledgers the router may adopt from peers
    MaxReports,   \* bound: connected peers that report the same closed ledger
    SeqLeave,     \* the position of a peer that bows out, above all others
    MaxSeq,       \* bound: highest ledger sequence
    MaxPos,       \* bound: positions this node takes in a round
    BufferCap,    \* buffered proposals per peer (10 in the code)
    None

Genesis == <<>>
Sequence(l) == Len(l) + 1
ParentID(l) == IF l = Genesis THEN None ELSE Front(l)
MinConsensusPct == 80

ASSUME EngineConstants ==
    /\ IsFiniteSet(Peers) /\ Pending \subseteq TxSets /\ EmptySet \in TxSets
    /\ MaxReports \in Nat /\ MaxSeq \in Nat /\ MaxPos \in Nat /\ BufferCap \in Nat \ {0}
    /\ SeqLeave \in Nat /\ SeqLeave > MaxPos
    /\ \A m \in Messages : m.node \in Peers /\ m.set \in TxSets /\ m.pos \in Nat
    /\ Adoptable \subseteq Seq(TxSets)

VARIABLES
    e,       \* the Engine struct
    stored,  \* the service's history: sequence -> ledger or None
    lcl,     \* the service's closed ledger
    shut,    \* whether the service's open ledger was closed by a build that failed
    \* History variables, read by properties only.
    recovering,  \* this round was entered by a switch of ledger
    sent,        \* validations the last step sent: [ledger, full]
    signed       \* validations this node ever sent

vars == <<e, stored, lcl, shut, recovering, sent, signed>>
Seqs == 1..MaxSeq

-----------------------------------------------------------------------------
(* Positions.                                                               *)

(* The replay of buffered proposals for ledger l: per peer, the first of    *)
(* the highest position.                                                    *)
replayOne(from, i, best) ==
    LET p == from.buffered[i] IN
    IF p.prev = from.ledger /\ (best # None => p.pos > best.pos) THEN p ELSE best

Replay == INSTANCE Loops WITH Step <- replayOne

playback(recent, l) ==
    [n \in Peers |->
        Replay!Loop([buffered |-> recent[n], ledger |-> l], None, Len(recent[n]))]

Replayed(recent, l) ==
    Cardinality({at \in Peers \X (1..BufferCap) :
                    at[2] \in DOMAIN recent[at[1]] /\ recent[at[1]][at[2]].prev = l})

Proposers(s) == {n \in Peers : s.proposals[n] # None}
Proposing(s) == s.mode = "proposing" /\ s.ourPosition # None

(* countAgreement, for a node that has closed and so has a set of its own.  *)
OurSet(s) == IF s.ourPosition # None THEN s.ourPosition.set ELSE s.ourTxSet
Self(s) == IF s.mode = "proposing" THEN 1 ELSE 0
Agree(s) ==
    Cardinality({n \in Proposers(s) : s.proposals[n].set = OurSet(s)}) + Self(s)
Total(s) == Cardinality(Proposers(s)) + Self(s)

(* The gate of checkConvergence but for the clock and the close time.       *)
Converged(s) ==
    /\ s.phase = "establish"
    /\ Total(s) > 0
    /\ Agree(s) * 100 >= Total(s) * MinConsensusPct

(* shouldCloseLedger: peer pressure, or the rest of it (clock, pending      *)
(* transactions, validations of the previous ledger), which is chosen.      *)
shouldCloseLedger(s, other) ==
    Cardinality(Proposers(s)) > s.prevProposers \div 2 \/ other

(* What getNetworkLedger may return other than our own ledger: the ledger   *)
(* of a majority of the votes.  The voters are the peers whose newest       *)
(* proposal is fresh (receipt stamps it, so the newest is the last), this   *)
(* node if its position is fresh, and the connected peers that report a     *)
(* closed ledger nobody else votes for.                                     *)
getNetworkLedger(s) ==
    LET latest == [n \in Peers |-> IF s.recentProposals[n] = <<>> THEN None
                                   ELSE Last(s.recentProposals[n]).prev]
        spoke == {n \in Peers : latest[n] # None}
        ours == IF s.ourPosition = None THEN {} ELSE {"self"}
        LedgerOf(v) == IF v = "self" THEN s.ourPosition.prev ELSE latest[v]
        Majority(voters, reports, l) ==
            LET named == {LedgerOf(v) : v \in voters}
                counted == {r \in DOMAIN reports : r \notin named}
                reported == Cardinality({x \in counted \X (1..MaxReports) : x[2] <= reports[x[1]]})
                mine == Cardinality({v \in voters : LedgerOf(v) = l})
                        + (IF l \in counted THEN reports[l] ELSE 0)
            IN mine > (Cardinality(voters) + reported) \div 2
    IN {l \in {latest[n] : n \in spoke} \cup Adoptable :
          /\ l # s.prevLedger
          /\ \E voters \in SUBSET (spoke \cup ours), reports \in [Adoptable -> 0..MaxReports] :
                Majority(voters, reports, l)}

-----------------------------------------------------------------------------
(* The functions the handlers share.                                        *)

closeLedger(s, set) ==
    [s EXCEPT !.ourTxSet = set,
              !.ourPosition = IF s.mode = "proposing"
                              THEN [prev |-> s.prevLedger, pos |-> 0, set |-> set]
                              ELSE @,
              !.phase = "establish"]

(* startRoundLocked on s.prevLedger, of a validator in mode Full.           *)
startRound(s, switched, other, set) ==
    LET r == [s EXCEPT !.mode = IF switched THEN "switchedLedger" ELSE "proposing",
                       !.phase = "open",
                       !.proposals = playback(s.recentProposals, s.prevLedger),
                       !.deadNodes = {},
                       !.ourTxSet = None,
                       !.ourPosition = None]
    IN IF /\ Replayed(s.recentProposals, s.prevLedger) > s.prevProposers \div 2
          /\ shouldCloseLedger(r, other)
       THEN closeLedger(r, set) ELSE r

(* handleWrongLedger(l).  deadNodes, ourTxSet and the position are left     *)
(* alone unless a round starts.                                             *)
Known(l) == l = lcl \/ \E q \in Seqs : stored[q] = l
handleWrongLedger(s, l, other, set) ==
    IF Known(l)
    THEN startRound([s EXCEPT !.prevLedger = l, !.wrongLedgerID = None],
                    TRUE, other, set)
    ELSE [s EXCEPT !.proposals = playback(s.recentProposals, l),
                   !.wrongLedgerID = l, !.mode = "wrongLedger"]

(* The early returns of checkLedger for a network ledger l; that l has more *)
(* trusted support than ours is the environment's choice.                   *)
Wrong(l) ==
    /\ l # e.prevLedger
    /\ l # ParentID(e.prevLedger)
    /\ ~(e.mode = "wrongLedger" /\ e.wrongLedgerID = l)

checkLedger(l, other, set) ==
    IF Wrong(l) THEN handleWrongLedger(e, l, other, set) ELSE e

(* checkLedger started a round, so the clocks of that round are at zero.    *)
Switches(l) == Wrong(l) /\ Known(l)

(* The ledger BuildLedger makes of our set.  The service builds on its own  *)
(* closed ledger unless the sequence of prevLedger differs.                 *)
Base(s) ==
    IF Sequence(s.prevLedger) = Sequence(lcl) THEN lcl ELSE s.prevLedger
Built(s) == Append(Base(s), s.ourTxSet)

accepted(s, other, set) ==
    startRound([s EXCEPT !.prevLedger = Built(s),
                         !.prevProposers = Cardinality(Proposers(s))],
               FALSE, other, set)

(* sendValidation: none on a wrong ledger, a full one if proposing.         *)
sendValidation(s) ==
    IF s.mode = "wrongLedger" THEN {}
    ELSE {[ledger |-> Built(s), full |-> s.mode = "proposing"]}

(* The service closes the open ledger it has, unless it makes a new one:    *)
(* for a parent of another sequence, or to apply transactions.  A ledger    *)
(* is closed once.                                                          *)
CloseRefused(s) ==
    shut /\ s.ourTxSet = EmptySet /\ Sequence(s.prevLedger) = Sequence(lcl)

(* Mutant: a node on a wrong ledger waits for the right one.                *)
acceptLedgerOnlyRight(s, other, set) ==
    /\ s.phase = "establish" /\ s.mode # "wrongLedger"
    /\ Sequence(s.prevLedger) < MaxSeq
    /\ ~CloseRefused(s)
    /\ e' = accepted(s, other, set)
    /\ stored' = [stored EXCEPT ![Sequence(Base(s))] = Base(s),
                                ![Sequence(Built(s))] = Built(s)]
    /\ lcl' = Built(s)
    /\ shut' = FALSE
    /\ recovering' = FALSE
    /\ sent' = sendValidation(s)
    /\ signed' = signed \cup sendValidation(s)

(* acceptLedger when the ledger is built; the next round starts at once.    *)
acceptLedger(s, other, set) ==
    /\ s.phase = "establish"
    /\ Sequence(s.prevLedger) < MaxSeq
    /\ ~CloseRefused(s)
    /\ e' = accepted(s, other, set)
    /\ stored' = [stored EXCEPT ![Sequence(Base(s))] = Base(s),
                                ![Sequence(Built(s))] = Built(s)]
    /\ lcl' = Built(s)
    /\ shut' = FALSE
    /\ recovering' = FALSE
    /\ sent' = sendValidation(s)
    /\ signed' = signed \cup sendValidation(s)

(* A handler that ends with the engine s and accepts nothing.               *)
Settle(s, switched) ==
    /\ e' = s
    /\ recovering' = switched
    /\ sent' = {}
    /\ UNCHANGED <<stored, lcl, shut, signed>>

(* acceptLedger when BuildLedger fails: the open ledger cannot be closed    *)
(* again, or it is closed and then not persisted.  The service has moved to *)
(* our parent already.                                                      *)
acceptLedgerFails(s) ==
    /\ s.phase = "establish"
    /\ Sequence(s.prevLedger) < MaxSeq
    /\ e' = s
    /\ stored' = [stored EXCEPT ![Sequence(Base(s))] = Base(s)]
    /\ lcl' = Base(s)
    /\ shut' = TRUE
    /\ sent' = {}
    /\ UNCHANGED <<recovering, signed>>

(* updateCloseTimePosition moves our close time in a new position, when     *)
(* somebody else takes part.                                                *)
updateCloseTimePosition(s) ==
    IF Proposing(s) /\ Proposers(s) # {} /\ s.ourPosition.pos < MaxPos
    THEN [s EXCEPT !.ourPosition.pos = @ + 1] ELSE s

(* checkConvergence: too early or not converged; no close time yet; or the  *)
(* ledger is accepted, or building it fails.                                *)
checkConvergence(s, other, set) ==
    \/ Settle(s, recovering)
    \/ Converged(s) /\ Settle(updateCloseTimePosition(s), recovering)
    \/ Converged(s) /\ acceptLedger(s, other, set)
    \/ Converged(s) /\ acceptLedgerFails(s)

-----------------------------------------------------------------------------
(* Start, with the node in operating mode Full.                             *)
Init ==
    /\ e = [mode |-> "observing", phase |-> "accepted",
            prevLedger |-> Genesis, wrongLedgerID |-> None,
            ourTxSet |-> None, ourPosition |-> None, prevProposers |-> 0,
            proposals |-> [n \in Peers |-> None], deadNodes |-> {},
            recentProposals |-> [n \in Peers |-> <<>>]]
    /\ stored = [q \in Seqs |-> IF q = 1 THEN Genesis ELSE None]
    /\ lcl = Genesis
    /\ shut = FALSE
    /\ recovering = FALSE
    /\ sent = {} /\ signed = {}

buffer(s, m) ==
    [s EXCEPT !.recentProposals[m.node] =
        Append(IF Len(@) >= BufferCap THEN Tail(@) ELSE @, m)]

(* Mutant: proposals for another ledger pass.                               *)
IgnoredAnyLedger(m) ==
    \/ e.phase = "accepted"
    \/ m.node \in e.deadNodes

(* The early returns of OnProposal after buffering.                         *)
Ignored(m) ==
    \/ e.phase = "accepted"
    \/ m.prev # e.prevLedger
    \/ m.node \in e.deadNodes

(* OnProposal, of a message that is only buffered, a bow-out, a position.   *)
OnProposalBuffered(m) ==
    /\ Ignored(m)
    /\ Settle(buffer(e, m), recovering)

OnBowOut(m) ==
    /\ ~Ignored(m)
    /\ m.pos = SeqLeave
    /\ Settle([buffer(e, m) EXCEPT !.proposals[m.node] = None,
                                   !.deadNodes = @ \cup {m.node}], recovering)

OnPosition(m, other, set) ==
    LET known == e.proposals[m.node]
        newer == known # None => m.pos > known.pos
        b == buffer(e, m)
    IN /\ ~Ignored(m)
       /\ m.pos # SeqLeave
       /\ checkConvergence(IF newer THEN [b EXCEPT !.proposals[m.node] = m] ELSE b,
                           other, set)

(* OnTxSet: what the set does to the disputes is in the choice of           *)
(* TimerEstablish.                                                          *)
OnTxSet(other, set) ==
    /\ e.phase = "establish"
    /\ checkConvergence(e, other, set)

(* OnLedger: data of a ledger l of the history arrives, asked for or not.   *)
OnLedger(l, other, set) ==
    /\ e.mode = "wrongLedger"
    /\ l # None
    /\ Settle(startRound([e EXCEPT !.prevLedger = l], TRUE, other, set), TRUE)

(* timerEntry by the phase checkLedger leaves; net is the network ledger.   *)
TimerOpen(net, other, set) ==
    LET s == checkLedger(net, other, set) IN
    /\ e.phase # "accepted"
    /\ s.phase = "open"
    /\ Settle(IF shouldCloseLedger(s, other) THEN closeLedger(s, set) ELSE s,
              recovering \/ Switches(net))

(* The round checkLedger has just started is closed already.                *)
TimerSwitched(net, other, set) ==
    LET s == checkLedger(net, other, set) IN
    /\ e.phase # "accepted"
    /\ Switches(net)
    /\ s.phase = "establish"
    /\ Settle(s, TRUE)

(* Mutant: our position changes its set but keeps its number.               *)
updatePositionSameNumber(s, stale, mine) ==
    IF Proposing(s)
    THEN [s EXCEPT !.proposals = [n \in Peers |-> IF n \in stale THEN None ELSE @[n]],
                   !.ourTxSet = mine,
                   !.ourPosition = [@ EXCEPT !.set = mine]]
    ELSE s

renumbered(p, mine) == [prev |-> p.prev, pos |-> p.pos + 1, set |-> mine]

(* updatePosition: stale peers are pruned, and the re-vote of the disputes  *)
(* may move our set to `mine'.                                              *)
updatePosition(s, stale, mine) ==
    IF Proposing(s)
    THEN [s EXCEPT !.proposals = [n \in Peers |-> IF n \in stale THEN None ELSE @[n]],
                   !.ourTxSet = mine,
                   !.ourPosition = IF mine = s.ourTxSet THEN @ ELSE renumbered(@, mine)]
    ELSE s

TimerEstablish(net, stale, mine, bump, other, set) ==
    LET s == checkLedger(net, other, set)
        u == updatePosition(s, stale, mine)
        v == IF bump THEN updateCloseTimePosition(u) ELSE u
    IN /\ e.phase # "accepted"
       /\ ~Switches(net)
       /\ s.phase = "establish"
       /\ u.ourPosition # None => u.ourPosition.pos <= MaxPos
       /\ checkConvergence(v, other, set)

(* The deadlines: LedgerMaxConsensus forces the accept, and past            *)
(* LedgerAbandonConsensus the node stops proposing first.                   *)
AtDeadline(s, abandon) ==
    IF abandon /\ s.mode = "proposing" THEN [s EXCEPT !.mode = "observing"] ELSE s

TimerDeadline(net, abandon, other, set) ==
    LET s == checkLedger(net, other, set) IN
    /\ e.phase # "accepted"
    /\ ~Switches(net)
    /\ s.phase = "establish"
    /\ acceptLedger(AtDeadline(s, abandon), other, set)

(* The same when BuildLedger fails.                                         *)
TimerDeadlineFails(net, abandon, other, set) ==
    LET s == checkLedger(net, other, set) IN
    /\ e.phase # "accepted"
    /\ ~Switches(net)
    /\ s.phase = "establish"
    /\ acceptLedgerFails(AtDeadline(s, abandon))

(* checkAndStartRoundInner, and phaseOpen in the same tick.                 *)
TimerStart(other, set) ==
    LET s == startRound([e EXCEPT !.prevLedger = lcl], FALSE, other, set) IN
    /\ e.phase = "accepted"
    /\ e.mode # "wrongLedger"
    /\ Settle(IF s.phase = "open" /\ shouldCloseLedger(s, other)
              THEN closeLedger(s, set) ELSE s, FALSE)

(* The router adopts a peer's ledger into the service.                      *)
Adopt(l) ==
    /\ stored' = [stored EXCEPT ![Sequence(l)] = l]
    /\ lcl' = l
    /\ shut' = FALSE
    /\ sent' = {}
    /\ UNCHANGED <<e, recovering, signed>>

Views == {e.prevLedger} \cup getNetworkLedger(e)

Next ==
    \/ \E m \in Messages : OnProposalBuffered(m) \/ OnBowOut(m)
    \/ \E l \in Adoptable : Adopt(l)
    \/ \E other \in BOOLEAN, set \in Pending :
          \/ \E m \in Messages : OnPosition(m, other, set)
          \/ OnTxSet(other, set)
          \/ \E q \in Seqs : OnLedger(stored[q], other, set)
          \/ TimerStart(other, set)
          \/ \E net \in Views :
                \/ TimerOpen(net, other, set)
                \/ TimerSwitched(net, other, set)
                \/ \E stale \in SUBSET Peers, mine \in TxSets, bump \in BOOLEAN :
                      TimerEstablish(net, stale, mine, bump, other, set)
                \/ \E abandon \in BOOLEAN :
                      \/ TimerDeadline(net, abandon, other, set)
                      \/ TimerDeadlineFails(net, abandon, other, set)

Spec == Init /\ [][Next]_vars

(* The heartbeat ticks for ever: the idle interval of the open phase and    *)
(* the deadline of the establish phase pass, and a build that can succeed   *)
(* does at last: the store does not refuse every ledger for ever.           *)
Fairness ==
    /\ WF_vars(\E set \in Pending : TimerStart(TRUE, set))
    /\ WF_vars(e.phase = "open" /\ \E net \in Views, set \in Pending : TimerOpen(net, TRUE, set))
    /\ WF_vars(\E net \in Views, abandon \in BOOLEAN, other \in BOOLEAN, set \in Pending :
                  TimerDeadline(net, abandon, other, set))

FairSpec == Spec /\ Fairness

-----------------------------------------------------------------------------
(* Properties.                                                              *)

Modes == {"observing", "proposing", "switchedLedger", "wrongLedger"}
Positions == 0..MaxPos
ProposalOrNone(n, p) == p # None => p \in Messages /\ p.node = n

(* The type of the engine.  A node in the establish phase has a set of its  *)
(* own, so the fallback of acceptLedger and countAgreement to the most      *)
(* popular set of the peers is dead code in a running engine.               *)
TypeOK ==
    /\ e.mode \in Modes
    /\ e.phase \in {"open", "establish", "accepted"}
    /\ e.phase = "establish" => e.ourTxSet # None
    /\ e.ourTxSet \in TxSets \cup {None}
    /\ e.ourPosition # None => e.ourPosition.pos \in Positions /\ e.ourPosition.set \in TxSets
    /\ \A n \in Peers : ProposalOrNone(n, e.proposals[n])
    /\ e.deadNodes \subseteq Peers
    /\ \A n \in Peers : Len(e.recentProposals[n]) <= BufferCap
    /\ \A q \in Seqs : stored[q] # None => Sequence(stored[q]) = q
    /\ Sequence(lcl) \in Seqs /\ Sequence(e.prevLedger) \in Seqs
    /\ recovering \in BOOLEAN /\ shut \in BOOLEAN

(* The proposals a round counts are for the ledger it builds on, through    *)
(* every switch, playback and adoption, unless the node knows it is on a    *)
(* wrong ledger.                                                            *)
RoundProposals ==
    e.phase # "accepted" /\ e.mode # "wrongLedger" =>
        \A n \in Peers : e.proposals[n] # None => e.proposals[n].prev = e.prevLedger

(* What the node proposes is what it would accept: its position is for the  *)
(* ledger it builds on and names the set it holds.                          *)
PositionMatches ==
    e.ourPosition # None =>
        e.ourPosition.prev = e.prevLedger /\ e.ourPosition.set = e.ourTxSet

(* A round is about one ledger: what the node counts and what it proposes   *)
(* are for the ledger it builds on, and it holds the set it proposes,       *)
(* whatever OnProposal, handleWrongLedger and the adoptions interleave.     *)
RoundConsistent == RoundProposals /\ PositionMatches

(* Peers keep only a higher position of a node (the position test of        *)
(* OnProposal), so a position that changes on the same ledger is numbered   *)
(* higher than the one it replaces.                                         *)
PositionsIncrease ==
    [][LET p == e.ourPosition
           q == e'.ourPosition
       IN p # None /\ q # None /\ q # p /\ q.prev = p.prev => q.pos > p.pos]_vars

(* In a round entered by a switch of ledger the node takes no position and  *)
(* signs no full validation, whatever happens until that round ends.        *)
SilentAfterSwitch ==
    [][recovering =>
         /\ e.ourPosition = None
         /\ \A v \in sent' : ~v.full]_vars

(* What the node tells its peers can be relied on: its positions on one     *)
(* ledger are numbered upwards, and it tells nothing it has not followed.   *)
PositionsHonest == PositionsIncrease /\ SilentAfterSwitch

(* A node that cannot find the network's ledger does not wait for it for    *)
(* ever: its heartbeat takes it out of the wrong-ledger mode, whatever      *)
(* builds fail on the way, unless the node comes to hold the empty set and  *)
(* an open ledger that a failed build closed (service.go 1320-1329): then   *)
(* every later build is refused until another ledger is adopted.            *)
WrongLedgerLeft ==
    (e.mode = "wrongLedger" /\ Sequence(e.prevLedger) < MaxSeq)
        ~> (e.mode # "wrongLedger" \/ CloseRefused(e))
=============================================================================
