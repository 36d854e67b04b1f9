----------------------- MODULE ConsensusEngineProofs ------------------------
(***************************************************************************)
(* Proofs about the rounds of the consensus engine, for any peers,         *)
(* transaction sets, proposals and adopted ledgers, and any number of      *)
(* rounds.                                                                 *)
(***************************************************************************)
EXTENDS ConsensusEngine, FiniteSetTheorems, TLAPS

Ledgers == Seq(TxSets)
Position == [prev : Ledgers, pos : Nat, set : TxSets]

(* The Engine struct.                                                       *)
Engine ==
    [mode : Modes, phase : {"open", "establish", "accepted"},
     prevLedger : Ledgers,
     wrongLedgerID : Ledgers \cup {m.prev : m \in Messages} \cup {None},
     ourTxSet : TxSets \cup {None},
     ourPosition : Position \cup {None},
     prevProposers : Nat,
     proposals : [Peers -> Messages \cup {None}],
     deadNodes : SUBSET Peers,
     recentProposals : [Peers -> Seq(Messages)]]

(* What every function of the engine hands to the next: the proposals       *)
(* counted are for prevLedger, the position is for prevLedger and names     *)
(* ourTxSet, there is none before closeLedger, and a set of our own after.  *)
Good(s) ==
    /\ s \in Engine
    /\ s.phase # "accepted" /\ s.mode # "wrongLedger" =>
          \A n \in Peers : s.proposals[n] # None => s.proposals[n].prev = s.prevLedger
    /\ s.ourPosition # None =>
          s.ourPosition.prev = s.prevLedger /\ s.ourPosition.set = s.ourTxSet
    /\ s.phase # "establish" => s.ourPosition = None
    /\ s.phase = "establish" => s.ourTxSet \in TxSets

(* The inductive invariant.  A recovering node is never proposing: only a   *)
(* round that ends its recovery lets it propose.                            *)
EInv ==
    /\ Good(e)
    /\ stored \in [Seqs -> Ledgers \cup {None}]
    /\ lcl \in Ledgers
    /\ recovering \in BOOLEAN
    /\ recovering => e.mode # "proposing" /\ e.ourPosition = None

-----------------------------------------------------------------------------
(* What playback gives: proposals for the ledger it replays for.            *)
LEMMA Replayed1 ==
    ASSUME NEW q \in Seq(Messages), NEW l
    PROVE  LET best == Replay!Loop([buffered |-> q, ledger |-> l], None, Len(q))
           IN best # None => best \in Messages /\ best.prev = l
<1> DEFINE p == [buffered |-> q, ledger |-> l]
           Fits(b) == b # None => b \in Messages /\ b.prev = l
           S == {i \in Nat : i <= Len(q) => Fits(Replay!Loop(p, None, i))}
<1>1. 0 \in S
    BY Replay!LoopTurns
<1>2. ASSUME NEW i \in S
      PROVE  i + 1 \in S
  <2> SUFFICES ASSUME i + 1 <= Len(q)
               PROVE  Fits(Replay!Loop(p, None, i + 1))
      OBVIOUS
  <2>1. Replay!Loop(p, None, i + 1) = replayOne(p, i + 1, Replay!Loop(p, None, i))
      BY Replay!LoopTurns
  <2>2. Fits(Replay!Loop(p, None, i))
      OBVIOUS
  <2>3. q[i + 1] \in Messages
      OBVIOUS
  <2> QED
      BY <2>1, <2>2, <2>3 DEF replayOne
<1> HIDE DEF S
<1>3. S = Nat
    BY <1>1, <1>2, Replay!TurnByTurn DEF S
<1> QED
    BY <1>3 DEF S

LEMMA PlaybackFits ==
    ASSUME NEW recent \in [Peers -> Seq(Messages)], NEW l
    PROVE  /\ playback(recent, l) \in [Peers -> Messages \cup {None}]
           /\ \A n \in Peers : playback(recent, l)[n] # None
                                  => playback(recent, l)[n].prev = l
    BY Replayed1 DEF playback

(* closeLedger takes the position the round will defend.                    *)
LEMMA CloseLedgerGood ==
    ASSUME NEW s, Good(s), s.phase = "open", NEW set \in TxSets
    PROVE  LET r == closeLedger(s, set) IN
           /\ Good(r) /\ r.mode = s.mode /\ r.prevLedger = s.prevLedger
           /\ r.ourPosition # None => s.mode = "proposing"
<1> DEFINE r == closeLedger(s, set)
<1>1. r \in Engine
    BY DEF Good, Engine, closeLedger, Position
<1>2. /\ r.mode = s.mode /\ r.prevLedger = s.prevLedger /\ r.proposals = s.proposals
      /\ r.phase = "establish" /\ r.ourTxSet = set
      /\ r.ourPosition = IF s.mode = "proposing"
                         THEN [prev |-> s.prevLedger, pos |-> 0, set |-> set] ELSE None
    BY DEF Good, Engine, closeLedger
<1> QED
    BY <1>1, <1>2 DEF Good

(* startRound makes a good engine of any.                                   *)
LEMMA StartRoundGood ==
    ASSUME NEW s \in Engine, NEW switched \in BOOLEAN, NEW other, NEW set \in TxSets
    PROVE  LET r == startRound(s, switched, other, set) IN
           /\ Good(r) /\ r.prevLedger = s.prevLedger /\ r.phase # "accepted"
           /\ r.mode = IF switched THEN "switchedLedger" ELSE "proposing"
           /\ switched => r.ourPosition = None
<1> DEFINE r == [s EXCEPT !.mode = IF switched THEN "switchedLedger" ELSE "proposing",
                          !.phase = "open",
                          !.proposals = playback(s.recentProposals, s.prevLedger),
                          !.deadNodes = {},
                          !.ourTxSet = None,
                          !.ourPosition = None]
<1>1. s.recentProposals \in [Peers -> Seq(Messages)]
    BY DEF Engine
<1>2. r \in Engine
    BY <1>1, PlaybackFits DEF Engine, Modes
<1>3. /\ r.prevLedger = s.prevLedger /\ r.phase = "open" /\ r.ourPosition = None
      /\ r.mode = IF switched THEN "switchedLedger" ELSE "proposing"
      /\ r.proposals = playback(s.recentProposals, s.prevLedger)
    BY DEF Engine
<1>4. Good(r)
    BY <1>1, <1>2, <1>3, PlaybackFits DEF Good
<1> HIDE DEF r
<1>5. closeLedger(r, set).phase = "establish"
    BY <1>2 DEF closeLedger, Engine
<1>6. startRound(s, switched, other, set) \in {r, closeLedger(r, set)}
    BY DEF startRound, r
<1> QED
    BY <1>3, <1>4, <1>5, <1>6, CloseLedgerGood

-----------------------------------------------------------------------------
(* What checkLedger may make of the engine: it starts a recovering round,   *)
(* or leaves the round's ledger, set and position alone.                    *)
LEMMA ViewsAreLedgers ==
    ASSUME EInv, NEW net \in Views
    PROVE  /\ net \in Ledgers \cup {m.prev : m \in Messages}
           /\ net \in Adoptable \cup {e.prevLedger} \/ net # None
<1>1. CASE net = e.prevLedger
    BY <1>1 DEF EInv, Good, Engine
<1>2. CASE net \in Adoptable
    BY <1>2, EngineConstants DEF Ledgers
<1>3. ASSUME NEW n \in Peers, e.recentProposals[n] # <<>>,
             net = Last(e.recentProposals[n]).prev
      PROVE  net \in {m.prev : m \in Messages}
  <2>1. e.recentProposals[n] \in Seq(Messages)
      BY DEF EInv, Good, Engine
  <2>2. Last(e.recentProposals[n]) \in Messages
      BY <1>3, <2>1 DEF Last
  <2> QED
      BY <1>3, <2>2
<1> QED
    BY <1>1, <1>2, <1>3 DEF Views, getNetworkLedger

LEMMA CheckLedgerGood ==
    ASSUME EInv, NEW net \in Views, NEW other, NEW set \in TxSets
    PROVE  LET s == checkLedger(net, other, set) IN
           /\ Good(s)
           /\ Switches(net) => s.mode = "switchedLedger" /\ s.ourPosition = None
           /\ ~Switches(net) =>
                 /\ s.prevLedger = e.prevLedger /\ s.phase = e.phase
                 /\ s.ourPosition = e.ourPosition
                 /\ s.mode \in {e.mode, "wrongLedger"}
<1> DEFINE s == checkLedger(net, other, set)
<1>0. e \in Engine
    BY DEF EInv, Good
<1>1. CASE Switches(net)
  <2>1. net \in Ledgers
      BY <1>1, ViewsAreLedgers, EngineConstants DEF Switches, Known, EInv, Ledgers, Wrong
  <2> DEFINE b == [e EXCEPT !.prevLedger = net, !.wrongLedgerID = None]
  <2>2. b \in Engine
      BY <1>0, <2>1 DEF Engine
  <2>3. s = startRound(b, TRUE, other, set)
      BY <1>1 DEF Switches, checkLedger, handleWrongLedger
  <2> HIDE DEF b, s
  <2>4. Good(s) /\ s.mode = "switchedLedger" /\ s.ourPosition = None
      BY <2>2, <2>3, StartRoundGood
  <2> QED
      BY <1>1, <2>4 DEF s
<1>2. CASE Wrong(net) /\ ~Known(net)
  <2> DEFINE r == [e EXCEPT !.proposals = playback(e.recentProposals, net),
                            !.wrongLedgerID = net, !.mode = "wrongLedger"]
  <2>1. s = r
      BY <1>2 DEF checkLedger, handleWrongLedger
  <2>2. playback(e.recentProposals, net) \in [Peers -> Messages \cup {None}]
      BY <1>0, PlaybackFits DEF Engine
  <2>3. r \in Engine
      BY <1>0, <2>2, ViewsAreLedgers DEF Engine, Modes
  <2>4. /\ r.mode = "wrongLedger" /\ r.prevLedger = e.prevLedger /\ r.phase = e.phase
        /\ r.ourPosition = e.ourPosition /\ r.ourTxSet = e.ourTxSet
      BY <1>0 DEF Engine
  <2>5. Good(r)
      BY <2>3, <2>4 DEF Good, EInv
  <2> QED
      BY <1>2, <2>1, <2>4, <2>5 DEF Switches
<1>3. CASE ~Wrong(net)
    BY <1>3 DEF checkLedger, EInv, Switches
<1> QED
    BY <1>1, <1>2, <1>3 DEF Switches

-----------------------------------------------------------------------------
(* What one step of the engine keeps: the invariant, and the two action     *)
(* properties.                                                              *)
NumberedUp ==
    /\ e.ourPosition # None /\ e'.ourPosition # None
    /\ e'.ourPosition # e.ourPosition /\ e'.ourPosition.prev = e.ourPosition.prev
    => e'.ourPosition.pos > e.ourPosition.pos

Silent == recovering => e.ourPosition = None /\ \A v \in sent' : ~v.full

StepKept == EInv' /\ NumberedUp /\ Silent

(* The engine in the middle of a handler, in the round it began in.         *)
Within(s) ==
    /\ Good(s)
    /\ s.prevLedger = e.prevLedger
    /\ recovering => s.mode # "proposing" /\ s.ourPosition = None
    /\ e.ourPosition # None /\ s.ourPosition # None =>
          s.ourPosition = e.ourPosition \/ s.ourPosition.pos > e.ourPosition.pos

(* A handler may end in the round it began in ...                           *)
LEMMA SettleKept ==
    ASSUME EInv, NEW s, Within(s), Settle(s, recovering)
    PROVE  StepKept
    BY DEF EInv, Within, Settle, StepKept, NumberedUp, Silent

(* ... or in a round that recovers on another ledger ...                    *)
LEMMA SwitchKept ==
    ASSUME EInv, NEW s, Good(s), s.mode # "proposing", s.ourPosition = None,
           Settle(s, TRUE)
    PROVE  StepKept
    BY DEF EInv, Settle, StepKept, NumberedUp, Silent

(* ... or accept: the ledger built is one further than the round's ledger,  *)
(* so the next round's positions are on another ledger.                     *)
LEMMA BuiltIsNext ==
    ASSUME NEW s, Good(s), s.phase = "establish", lcl \in Ledgers
    PROVE  Base(s) \in Ledgers /\ Built(s) \in Ledgers /\ Built(s) # s.prevLedger
<1>1. s.prevLedger \in Ledgers /\ s.ourTxSet \in TxSets
    BY DEF Good, Engine
<1>2. Base(s) \in Ledgers /\ Len(Base(s)) = Len(s.prevLedger)
    BY <1>1 DEF Base, Sequence, Ledgers
<1>3. Built(s) \in Ledgers /\ Len(Built(s)) = Len(s.prevLedger) + 1
    BY <1>1, <1>2 DEF Built, Ledgers
<1>4. Len(s.prevLedger) \in Nat
    BY <1>1 DEF Ledgers
<1> QED
    BY <1>2, <1>3, <1>4

LEMMA AcceptKept ==
    ASSUME EInv, NEW s, Within(s), NEW other, NEW set \in Pending,
           acceptLedger(s, other, set)
    PROVE  StepKept
<1> DEFINE b == [s EXCEPT !.prevLedger = Built(s),
                          !.prevProposers = Cardinality(Proposers(s))]
<1>0. Good(s) /\ s \in Engine /\ s.phase = "establish" /\ set \in TxSets /\ lcl \in Ledgers
    BY EngineConstants DEF Within, Good, acceptLedger, EInv
<1>1. Base(s) \in Ledgers /\ Built(s) \in Ledgers /\ Built(s) # e.prevLedger
    BY <1>0, BuiltIsNext DEF Within
<1>2. Cardinality(Proposers(s)) \in Nat
  <2>1. IsFiniteSet(Peers) /\ Proposers(s) \subseteq Peers
      BY EngineConstants DEF Proposers
  <2> QED
      BY <2>1, FS_Subset, FS_CardinalityType
<1>3. b \in Engine /\ b.prevLedger = Built(s)
    BY <1>0, <1>1, <1>2 DEF Engine
<1>4. e' = startRound(b, FALSE, other, set)
    BY DEF acceptLedger, accepted
<1> HIDE DEF b
<1>5. Good(e') /\ e'.prevLedger = Built(s)
    BY <1>0, <1>3, <1>4, StartRoundGood
<1>6. stored' \in [Seqs -> Ledgers \cup {None}] /\ lcl' \in Ledgers /\ recovering' = FALSE
    BY <1>1 DEF acceptLedger, EInv
<1>7. EInv'
    BY <1>5, <1>6 DEF EInv
<1>8. NumberedUp
    BY <1>1, <1>5 DEF NumberedUp, EInv, Good
<1>9. Silent
  <2> SUFFICES ASSUME recovering, NEW v \in sent'
               PROVE  ~v.full
      BY DEF Silent, EInv
  <2>1. s.mode # "proposing"
      BY DEF Within
  <2>2. v = [ledger |-> Built(s), full |-> s.mode = "proposing"]
      BY DEF acceptLedger, sendValidation
  <2>3. v.full <=> s.mode = "proposing"
      BY <2>2, Zenon
  <2> QED
      BY <2>1, <2>3
<1> QED
    BY <1>7, <1>8, <1>9 DEF StepKept

LEMMA AcceptFailsKept ==
    ASSUME EInv, NEW s, Within(s), acceptLedgerFails(s)
    PROVE  StepKept
<1>1. Base(s) \in Ledgers
    BY BuiltIsNext DEF Within, acceptLedgerFails, EInv
<1>2. stored' \in [Seqs -> Ledgers \cup {None}] /\ lcl' \in Ledgers
    BY <1>1 DEF acceptLedgerFails, EInv
<1> QED
    BY <1>2 DEF acceptLedgerFails, EInv, Within, StepKept, NumberedUp, Silent

-----------------------------------------------------------------------------
(* A changed position is numbered higher and still names the set we hold.   *)
LEMMA CloseTimeWithin ==
    ASSUME EInv, NEW s, Within(s)
    PROVE  Within(updateCloseTimePosition(s))
<1> DEFINE u == [s EXCEPT !.ourPosition.pos = @ + 1]
<1>1. CASE updateCloseTimePosition(s) = s
    BY <1>1
<1>2. CASE Proposing(s) /\ updateCloseTimePosition(s) = u
  <2>1. s \in Engine /\ s.ourPosition \in Position
      BY <1>2 DEF Within, Good, Engine, Proposing
  <2>2. /\ u.ourPosition \in Position /\ u.ourPosition.pos = s.ourPosition.pos + 1
        /\ u.ourPosition.prev = s.ourPosition.prev /\ u.ourPosition.set = s.ourPosition.set
      BY <2>1 DEF Engine, Position
  <2>3. /\ u.mode = s.mode /\ u.phase = s.phase /\ u.prevLedger = s.prevLedger
        /\ u.ourTxSet = s.ourTxSet /\ u.proposals = s.proposals
      BY <2>1 DEF Engine
  <2>4. u \in Engine
      BY <2>1, <2>2 DEF Engine
  <2>5. e.ourPosition # None => e.ourPosition.pos \in Nat
      BY DEF EInv, Good, Engine, Position
  <2>6. s.ourPosition.pos \in Nat
      BY <2>1 DEF Position
  <2> HIDE DEF u
  <2>7. Good(u)
      BY <1>2, <2>2, <2>3, <2>4 DEF Good, Within, Proposing
  <2>8. Within(u)
      BY <1>2, <2>2, <2>3, <2>5, <2>6, <2>7 DEF Within, Proposing
  <2> QED
      BY <1>2, <2>8
<1> QED
    BY <1>1, <1>2 DEF updateCloseTimePosition

LEMMA RenumberedUp ==
    ASSUME NEW p \in Position, NEW mine \in TxSets
    PROVE  /\ renumbered(p, mine) \in Position
           /\ renumbered(p, mine).prev = p.prev
           /\ renumbered(p, mine).set = mine
           /\ renumbered(p, mine).pos > p.pos
<1> DEFINE r == renumbered(p, mine)
<1>0. p.pos \in Nat /\ p.prev \in Ledgers
    BY DEF Position
<1>1. r = [prev |-> p.prev, pos |-> p.pos + 1, set |-> mine]
    BY DEF renumbered
<1>2. r.prev = p.prev
    BY <1>1
<1>3. r.set = mine
    BY <1>1
<1>4. r.pos > p.pos
    BY <1>0, <1>1
<1>5. r \in Position
    BY <1>0, <1>1 DEF Position
<1> QED
    BY <1>2, <1>3, <1>4, <1>5

LEMMA PositionWithin ==
    ASSUME EInv, NEW s, Within(s), s.phase = "establish",
           NEW stale, NEW mine \in TxSets
    PROVE  Within(updatePosition(s, stale, mine))
<1> DEFINE u == [s EXCEPT !.proposals = [n \in Peers |-> IF n \in stale THEN None ELSE @[n]],
                          !.ourTxSet = mine,
                          !.ourPosition = IF mine = s.ourTxSet THEN @
                                          ELSE renumbered(@, mine)]
<1>1. CASE ~Proposing(s)
    BY <1>1 DEF updatePosition
<1>2. CASE Proposing(s)
  <2>1. s \in Engine /\ s.ourPosition \in Position /\ s.ourPosition.set = s.ourTxSet
      BY <1>2 DEF Within, Good, Engine, Proposing
  <2>2. /\ u.ourPosition \in Position
        /\ u.ourPosition.prev = s.ourPosition.prev /\ u.ourPosition.set = mine
        /\ u.ourPosition = s.ourPosition \/ u.ourPosition.pos > s.ourPosition.pos
    <3> DEFINE r == renumbered(s.ourPosition, mine)
    <3>1. u.ourPosition = IF mine = s.ourTxSet THEN s.ourPosition ELSE r
        BY <2>1 DEF Engine
    <3>2. /\ r \in Position /\ r.prev = s.ourPosition.prev /\ r.set = mine
          /\ r.pos > s.ourPosition.pos
        BY <2>1, RenumberedUp
    <3> QED
        BY <2>1, <3>1, <3>2
  <2>3. /\ u.mode = s.mode /\ u.phase = s.phase /\ u.prevLedger = s.prevLedger
        /\ u.ourTxSet = mine
        /\ u.proposals = [n \in Peers |-> IF n \in stale THEN None ELSE s.proposals[n]]
      BY <2>1 DEF Engine
  <2>4. u \in Engine
      BY <2>1, <2>2 DEF Engine
  <2>5. e.ourPosition # None => e.ourPosition.pos \in Nat
      BY DEF EInv, Good, Engine, Position
  <2>6. s.ourPosition.pos \in Nat /\ u.ourPosition.pos \in Nat
      BY <2>1, <2>2 DEF Position
  <2>7. updatePosition(s, stale, mine) = u
      BY <1>2 DEF updatePosition
  <2> HIDE DEF u
  <2>8. Good(u)
      BY <1>2, <2>2, <2>3, <2>4 DEF Good, Within, Proposing
  <2>9. Within(u)
      BY <1>2, <2>2, <2>3, <2>5, <2>6, <2>8 DEF Within, Proposing
  <2> QED
      BY <2>7, <2>9
<1> QED
    BY <1>1, <1>2

LEMMA ConvergenceKept ==
    ASSUME EInv, NEW s, Within(s), NEW other, NEW set \in Pending,
           checkConvergence(s, other, set)
    PROVE  StepKept
    BY SettleKept, AcceptKept, AcceptFailsKept, CloseTimeWithin DEF checkConvergence

-----------------------------------------------------------------------------
(* The handlers.                                                            *)

LEMMA InitEInv == Init => EInv
<1> SUFFICES ASSUME Init PROVE EInv
    OBVIOUS
<1>1. <<>> \in Ledgers
    BY DEF Ledgers
<1>2. e \in Engine
    BY <1>1 DEF Init, Engine, Modes, Genesis
<1> QED
    BY <1>1, <1>2 DEF Init, EInv, Good, Genesis, Seqs

(* Buffering a proposal touches nothing the round is about.                 *)
LEMMA BufferWithin ==
    ASSUME EInv, NEW m \in Messages
    PROVE  /\ Within(buffer(e, m)) /\ buffer(e, m).phase = e.phase
           /\ buffer(e, m).proposals = e.proposals
<1> DEFINE b == buffer(e, m)
           q == e.recentProposals[m.node]
           longer == Append(IF Len(q) >= BufferCap THEN Tail(q) ELSE q, m)
<1>0. e \in Engine /\ m.node \in Peers /\ BufferCap \in Nat \ {0}
    BY EngineConstants DEF EInv, Good
<1>1. q \in Seq(Messages)
    BY <1>0 DEF Engine
<1>2. longer \in Seq(Messages)
  <2>1. CASE Len(q) >= BufferCap
    <3>1. q # <<>>
        BY <2>1, <1>0, <1>1
    <3>2. Tail(q) \in Seq(Messages)
        BY <1>1, <3>1
    <3> QED
        BY <2>1, <3>2
  <2> QED
      BY <2>1, <1>1
<1> DEFINE r == [e.recentProposals EXCEPT ![m.node] = longer]
<1>3. b = [e EXCEPT !.recentProposals = r]
    BY DEF buffer
<1>. r \in [Peers -> Seq(Messages)]
    BY <1>0, <1>2 DEF Engine
<1> HIDE DEF r, longer, q
<1>4. b \in Engine
    BY <1>0, <1>3 DEF Engine
<1>5. /\ b.mode = e.mode /\ b.phase = e.phase /\ b.prevLedger = e.prevLedger
      /\ b.ourTxSet = e.ourTxSet /\ b.ourPosition = e.ourPosition
      /\ b.proposals = e.proposals
    BY <1>0, <1>3 DEF Engine
<1> HIDE DEF b
<1>6. Within(b)
    BY <1>4, <1>5 DEF Within, Good, EInv
<1> QED
    BY <1>5, <1>6 DEF b

(* A round may take a peer's position away, or put one for its ledger.      *)
LEMMA CountWithin ==
    ASSUME EInv, NEW s, Within(s), NEW n \in Peers,
           NEW p \in Messages \cup {None}, p # None => p.prev = e.prevLedger,
           NEW u \in Engine, u.mode = s.mode, u.phase = s.phase,
           u.prevLedger = s.prevLedger, u.ourTxSet = s.ourTxSet,
           u.ourPosition = s.ourPosition, u.proposals = [s.proposals EXCEPT ![n] = p]
    PROVE  Within(u)
<1>1. s.proposals \in [Peers -> Messages \cup {None}]
    BY DEF Within, Good, Engine
<1>2. Good(u)
    BY <1>1 DEF Good, Within
<1> QED
    BY <1>2 DEF Within

LEMMA BowOutKept ==
    ASSUME EInv, NEW m \in Messages, OnBowOut(m)
    PROVE  StepKept
<1> DEFINE b == buffer(e, m)
           u == [b EXCEPT !.proposals[m.node] = None, !.deadNodes = @ \cup {m.node}]
<1>1. Within(b) /\ b \in Engine /\ m.node \in Peers
    BY BufferWithin, EngineConstants DEF Within, Good
<1>2. Settle(u, recovering)
    BY DEF OnBowOut
<1> HIDE DEF b
<1>3. /\ u \in Engine /\ u.mode = b.mode /\ u.phase = b.phase
      /\ u.prevLedger = b.prevLedger /\ u.ourTxSet = b.ourTxSet
      /\ u.ourPosition = b.ourPosition /\ u.proposals = [b.proposals EXCEPT ![m.node] = None]
    BY <1>1 DEF Engine
<1> HIDE DEF u
<1>4. Within(u)
    BY <1>1, <1>3, CountWithin
<1> QED
    BY <1>2, <1>4, SettleKept

LEMMA OnPositionKept ==
    ASSUME EInv, NEW m \in Messages, NEW other, NEW set \in Pending,
           OnPosition(m, other, set)
    PROVE  StepKept
<1> DEFINE b == buffer(e, m)
           u == [b EXCEPT !.proposals[m.node] = m]
<1>1. Within(b) /\ b \in Engine /\ m.node \in Peers
    BY BufferWithin, EngineConstants DEF Within, Good
<1>2. m.prev = e.prevLedger
    BY DEF OnPosition, Ignored
<1>3. checkConvergence(b, other, set) \/ checkConvergence(u, other, set)
    BY DEF OnPosition
<1> HIDE DEF b
<1>4. /\ u \in Engine /\ u.mode = b.mode /\ u.phase = b.phase
      /\ u.prevLedger = b.prevLedger /\ u.ourTxSet = b.ourTxSet
      /\ u.ourPosition = b.ourPosition /\ u.proposals = [b.proposals EXCEPT ![m.node] = m]
    BY <1>1 DEF Engine
<1> HIDE DEF u
<1>5. Within(u)
    BY <1>1, <1>2, <1>4, CountWithin
<1> QED
    BY <1>1, <1>3, <1>5, ConvergenceKept

(* The ledger a recovering round starts on comes from the history.          *)
LEMMA OnLedgerKept ==
    ASSUME EInv, NEW q \in Seqs, NEW other, NEW set \in Pending,
           OnLedger(stored[q], other, set)
    PROVE  StepKept
<1> DEFINE b == [e EXCEPT !.prevLedger = stored[q]]
           s == startRound(b, TRUE, other, set)
<1>1. e \in Engine /\ stored[q] \in Ledgers /\ set \in TxSets
    BY EngineConstants DEF EInv, Good, OnLedger
<1>2. b \in Engine
    BY <1>1 DEF Engine
<1>3. Settle(s, TRUE)
    BY DEF OnLedger
<1> HIDE DEF b
<1>4. Good(s) /\ s.mode = "switchedLedger" /\ s.ourPosition = None
    BY <1>1, <1>2, StartRoundGood
<1> HIDE DEF s
<1> QED
    BY <1>3, <1>4, SwitchKept

(* The heartbeat, by what checkLedger does.                                 *)
LEMMA CheckWithin ==
    ASSUME EInv, NEW net \in Views, ~Switches(net), NEW other, NEW set \in TxSets
    PROVE  LET s == checkLedger(net, other, set) IN Within(s) /\ s.phase = e.phase
<1> DEFINE s == checkLedger(net, other, set)
<1>1. /\ Good(s) /\ s.prevLedger = e.prevLedger /\ s.phase = e.phase
      /\ s.ourPosition = e.ourPosition /\ s.mode \in {e.mode, "wrongLedger"}
    BY CheckLedgerGood
<1> HIDE DEF s
<1>2. Within(s) /\ s.phase = e.phase
    BY <1>1 DEF Within, EInv
<1> QED
    BY <1>2 DEF s

(* closeLedger in the open phase, or not yet.                               *)
LEMMA MayCloseGood ==
    ASSUME NEW s, Good(s), s.phase = "open", NEW set \in TxSets, NEW other
    PROVE  LET c == IF shouldCloseLedger(s, other) THEN closeLedger(s, set) ELSE s IN
           /\ Good(c) /\ c.mode = s.mode /\ c.prevLedger = s.prevLedger
           /\ c.ourPosition # None => s.mode = "proposing"
<1>1. s.ourPosition = None
    BY DEF Good
<1> QED
    BY <1>1, CloseLedgerGood

LEMMA TimerOpenKept ==
    ASSUME EInv, NEW net \in Views, NEW other, NEW set \in Pending,
           TimerOpen(net, other, set)
    PROVE  StepKept
<1> DEFINE s == checkLedger(net, other, set)
           c == IF shouldCloseLedger(s, other) THEN closeLedger(s, set) ELSE s
<1>0. set \in TxSets
    BY EngineConstants
<1>1. s.phase = "open" /\ Settle(c, recovering \/ Switches(net)) /\ recovering \in BOOLEAN
    BY DEF TimerOpen, EInv
<1>2. Good(s)
    BY <1>0, CheckLedgerGood
<1>3. Good(c) /\ c.mode = s.mode /\ c.prevLedger = s.prevLedger
      /\ (c.ourPosition # None => s.mode = "proposing")
    BY <1>0, <1>1, <1>2, MayCloseGood
<1>4. CASE Switches(net)
  <2>1. s.mode = "switchedLedger"
      BY <1>0, <1>4, CheckLedgerGood
  <2>2. Settle(c, TRUE)
    <3> HIDE DEF c
    <3> QED
      BY <1>1, <1>4 DEF Settle
  <2> HIDE DEF c, s
  <2> QED
      BY <1>3, <2>1, <2>2, SwitchKept
<1>5. CASE ~Switches(net)
  <2>1. Within(s) /\ s.phase = e.phase
      BY <1>0, <1>5, CheckWithin
  <2>2. Settle(c, recovering)
    <3> HIDE DEF c
    <3> QED
      BY <1>1, <1>5 DEF Settle
  <2> HIDE DEF c, s
  <2>3. e.ourPosition = None
      BY <1>1, <2>1 DEF EInv, Good
  <2>4. Within(c)
      BY <1>3, <2>1, <2>3 DEF Within
  <2> QED
      BY <2>2, <2>4, SettleKept
<1> QED
    BY <1>4, <1>5

LEMMA TimerSwitchedKept ==
    ASSUME EInv, NEW net \in Views, NEW other, NEW set \in Pending,
           TimerSwitched(net, other, set)
    PROVE  StepKept
<1> DEFINE s == checkLedger(net, other, set)
<1>1. Settle(s, TRUE) /\ Switches(net) /\ set \in TxSets
    BY EngineConstants DEF TimerSwitched
<1>2. Good(s) /\ s.mode = "switchedLedger" /\ s.ourPosition = None
    BY <1>1, CheckLedgerGood
<1> HIDE DEF s
<1> QED
    BY <1>1, <1>2, SwitchKept

LEMMA TimerEstablishKept ==
    ASSUME EInv, NEW net \in Views, NEW stale, NEW mine \in TxSets, NEW bump,
           NEW other, NEW set \in Pending,
           TimerEstablish(net, stale, mine, bump, other, set)
    PROVE  StepKept
<1> DEFINE s == checkLedger(net, other, set)
           u == updatePosition(s, stale, mine)
           v == IF bump THEN updateCloseTimePosition(u) ELSE u
<1>1. ~Switches(net) /\ s.phase = "establish" /\ set \in TxSets
    BY EngineConstants DEF TimerEstablish
<1>2. checkConvergence(v, other, set)
    BY DEF TimerEstablish
<1>3. Within(s)
    BY <1>1, CheckWithin
<1> HIDE DEF s
<1>4. Within(u)
    BY <1>1, <1>3, PositionWithin
<1> HIDE DEF u
<1>5. Within(v)
    BY <1>4, CloseTimeWithin
<1> HIDE DEF v
<1> QED
    BY <1>2, <1>5, ConvergenceKept

(* Past the last deadline the node stops proposing before it accepts.       *)
LEMMA DeadlineWithin ==
    ASSUME EInv, NEW s, Within(s), NEW abandon
    PROVE  Within(AtDeadline(s, abandon))
<1> DEFINE u == [s EXCEPT !.mode = "observing"]
<1>0. s \in Engine
    BY DEF Within, Good
<1>1. u \in Engine
    BY <1>0 DEF Engine, Modes
<1>2. /\ u.mode = "observing" /\ u.phase = s.phase /\ u.prevLedger = s.prevLedger
      /\ u.ourTxSet = s.ourTxSet /\ u.ourPosition = s.ourPosition
      /\ u.proposals = s.proposals
    BY <1>0 DEF Engine
<1> HIDE DEF u
<1>3. CASE s.mode = "proposing"
  <2>1. Good(u)
      BY <1>1, <1>2, <1>3 DEF Good, Within
  <2>2. Within(u)
      BY <1>2, <2>1 DEF Within
  <2> QED
      BY <2>2 DEF AtDeadline, u
<1>4. CASE s.mode # "proposing"
    BY <1>4 DEF AtDeadline
<1> QED
    BY <1>3, <1>4

LEMMA TimerDeadlineKept ==
    ASSUME EInv, NEW net \in Views, NEW abandon, NEW other, NEW set \in Pending,
           \/ TimerDeadline(net, abandon, other, set)
           \/ TimerDeadlineFails(net, abandon, other, set)
    PROVE  StepKept
<1> DEFINE s == checkLedger(net, other, set)
           d == AtDeadline(s, abandon)
<1>1. ~Switches(net) /\ set \in TxSets
    BY EngineConstants DEF TimerDeadline, TimerDeadlineFails
<1>2. acceptLedger(d, other, set) \/ acceptLedgerFails(d)
    BY DEF TimerDeadline, TimerDeadlineFails
<1>3. Within(s)
    BY <1>1, CheckWithin
<1> HIDE DEF s
<1>4. Within(d)
    BY <1>3, DeadlineWithin
<1> HIDE DEF d
<1> QED
    BY <1>2, <1>4, AcceptKept, AcceptFailsKept

(* The round the heartbeat starts after an accepted ledger ends recovery.   *)
LEMMA TimerStartKept ==
    ASSUME EInv, NEW other, NEW set \in Pending, TimerStart(other, set)
    PROVE  StepKept
<1> DEFINE b == [e EXCEPT !.prevLedger = lcl]
           s == startRound(b, FALSE, other, set)
           c == IF s.phase = "open" /\ shouldCloseLedger(s, other)
                THEN closeLedger(s, set) ELSE s
<1>1. e \in Engine /\ lcl \in Ledgers /\ set \in TxSets
    BY EngineConstants DEF EInv, Good
<1>2. b \in Engine
    BY <1>1 DEF Engine
<1>3. Settle(c, FALSE) /\ e.phase = "accepted"
    BY DEF TimerStart
<1>4. e.ourPosition = None
    BY <1>3 DEF EInv, Good
<1> HIDE DEF b
<1>5. Good(s)
    BY <1>1, <1>2, StartRoundGood
<1> HIDE DEF s
<1>6. Good(c)
    BY <1>1, <1>5, CloseLedgerGood
<1> HIDE DEF c
<1> QED
    BY <1>3, <1>4, <1>6 DEF EInv, Settle, StepKept, NumberedUp, Silent

LEMMA AdoptKept ==
    ASSUME EInv, NEW l \in Adoptable, Adopt(l)
    PROVE  StepKept
<1>1. l \in Ledgers
    BY EngineConstants DEF Ledgers
<1>2. stored' \in [Seqs -> Ledgers \cup {None}] /\ lcl' \in Ledgers
    BY <1>1 DEF Adopt, EInv
<1> QED
    BY <1>2 DEF Adopt, EInv, StepKept, NumberedUp, Silent

LEMMA HandlersKept ==
    ASSUME EInv, Next
    PROVE  StepKept
<1>1. ASSUME NEW m \in Messages, OnProposalBuffered(m) PROVE StepKept
    BY <1>1, BufferWithin, SettleKept DEF OnProposalBuffered
<1>2. ASSUME NEW other \in BOOLEAN, NEW set \in Pending, OnTxSet(other, set) PROVE StepKept
  <2>1. Within(e)
      BY DEF Within, EInv
  <2> QED
      BY <1>2, <2>1, ConvergenceKept DEF OnTxSet
<1> QED
    BY <1>1, <1>2, BowOutKept, AdoptKept, OnPositionKept, OnLedgerKept, TimerStartKept,
       TimerOpenKept, TimerSwitchedKept, TimerEstablishKept, TimerDeadlineKept DEF Next

-----------------------------------------------------------------------------

(* Every state of the engine satisfies the inductive invariant.             *)
LEMMA EInvHolds == Spec => []EInv
<1>1. EInv /\ [Next]_vars => EInv'
  <2>1. CASE Next
      BY <2>1, HandlersKept DEF StepKept
  <2>2. CASE UNCHANGED vars
    <3>1. e' = e /\ stored' = stored /\ lcl' = lcl /\ recovering' = recovering
        BY <2>2 DEF vars
    <3> QED
        BY <3>1 DEF EInv
  <2> QED
      BY <2>1, <2>2
<1> QED
    BY <1>1, InitEInv, PTL DEF Spec

(* In every round, through every OnProposal, OnLedger, handleWrongLedger    *)
(* and adoption, the proposals counted and the node's own position are for  *)
(* the ledger the round builds on, and the position names the node's set.   *)
THEOREM RoundConsistentHolds == Spec => []RoundConsistent
<1>1. EInv => RoundConsistent
    BY DEF EInv, Good, RoundConsistent, RoundProposals, PositionMatches
<1> QED
    BY <1>1, EInvHolds, PTL

(* The positions a node takes on one ledger are numbered upwards, and a     *)
(* round entered by a switch of ledger takes no position and signs no full  *)
(* validation.                                                              *)
THEOREM PositionsHonestHolds == Spec => PositionsHonest
<1>1. EInv /\ [Next]_vars =>
        [LET p == e.ourPosition
             q == e'.ourPosition
         IN p # None /\ q # None /\ q # p /\ q.prev = p.prev => q.pos > p.pos]_vars
    BY HandlersKept DEF StepKept, NumberedUp
<1>2. EInv /\ [Next]_vars =>
        [recovering => e.ourPosition = None /\ \A v \in sent' : ~v.full]_vars
    BY HandlersKept DEF StepKept, Silent
<1> QED
    BY <1>1, <1>2, EInvHolds, PTL
       DEF Spec, PositionsHonest, PositionsIncrease, SilentAfterSwitch
=============================================================================
