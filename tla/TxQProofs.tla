----------------------------- MODULE TxQProofs ------------------------------
(***************************************************************************)
(* Proof that a blocker stays alone in the queue of its account, for any   *)
(* set of transactions and accounts and any configuration of the queue.    *)
(*                                                                         *)
(* Apart from the place where a candidate joins the queue, every operation *)
(* only takes candidates out of the account queues (Shrinks) and only      *)
(* moves the accounts' sequences forward (Grows), and neither can bring a  *)
(* second relevant candidate next to a blocker.                            *)
(***************************************************************************)
EXTENDS TxQ, FiniteSetTheorems, TLAPS

IsQueue(q) ==
    /\ q = [fee |-> q.fee, at |-> q.at, pen |-> q.pen, left |-> q.left, max |-> q.max,
            parent |-> q.parent]
    /\ q.at \in [QAccounts -> SUBSET Txs]
    /\ \A a \in QAccounts : \A t \in q.at[a] : Tx[t].acct = a

IsLedger(o) ==
    /\ o = [seq |-> o.seq, tix |-> o.tix, bal |-> o.bal, n |-> o.n, lseq |-> o.lseq,
            levels |-> o.levels]
    /\ o.seq \in [QAccounts -> Nat]

Shrinks(q, r) == \A a \in QAccounts : r.at[a] \subseteq q.at[a]
Grows(o, p) == \A a \in QAccounts : o.seq[a] <= p.seq[a]

BlockersAlone(q, o) ==
    \A a \in QAccounts : \A t \in Relevant(q, a, o.seq[a]) :
        IsBlocker(t) => Relevant(q, a, o.seq[a]) = {t}

QInv == IsQueue(queue) /\ IsLedger(open) /\ BlockersAlone(queue, open)

-----------------------------------------------------------------------------
(* What the operations of the queue do to its account queues               *)

(* Erasing candidates leaves a queue with fewer of them.                    *)
LEMMA EraseShrinks ==
    ASSUME NEW q, NEW ts, IsQueue(q)
    PROVE  IsQueue(eraseAll(q, ts)) /\ Shrinks(q, eraseAll(q, ts))
<1>1. \A a \in QAccounts : Keeps(q, a, ts) \subseteq q.at[a]
    BY DEF Keeps
<1>2. eraseAll(q, ts).at = [a \in QAccounts |-> Keeps(q, a, ts)]
    BY DEF eraseAll
<1> QED
    BY <1>1, <1>2 DEF eraseAll, IsQueue, Shrinks

(* What is erased is gone, with whatever has its place in the account.      *)
LEMMA EraseErases ==
    ASSUME NEW q, NEW ts, NEW a \in QAccounts, NEW u \in eraseAll(q, ts).at[a],
           NEW t \in ts, Tx[t].acct = a
    PROVE  SeqProxy(u) # SeqProxy(t)
    BY DEF eraseAll, Keeps

(* Taking out twice is taking out.                                          *)
LEMMA ShrinksTransitive ==
    ASSUME NEW q, NEW r, NEW s, Shrinks(q, r), Shrinks(r, s)
    PROVE  Shrinks(q, s)
    BY DEF Shrinks

(* A queue changed only in its order, its penalties or its retries.         *)
LEMMA SameAccountsShrinks ==
    ASSUME NEW q, NEW r, IsQueue(q), r.at = q.at,
           r = [fee |-> r.fee, at |-> r.at, pen |-> r.pen, left |-> r.left, max |-> r.max,
                parent |-> r.parent]
    PROVE  IsQueue(r) /\ Shrinks(q, r)
    BY DEF IsQueue, Shrinks

-----------------------------------------------------------------------------
(* The open ledger                                                         *)

(* A TicketCreate makes a finite number of tickets.                         *)
LEMMA NewTicketsFinite ==
    ASSUME NEW o, NEW t, IsLedger(o), Tx[t].acct \in QAccounts
    PROVE  Cardinality(NewTickets(o, t)) \in Nat
<1> DEFINE s == IF Tx[t].ticket THEN o.seq[Tx[t].acct] ELSE o.seq[Tx[t].acct] + 1
<1>1. s \in Nat
    BY DEF IsLedger
<1>2. s + MaxTicketCount - 1 \in Int
    BY <1>1, TxQAssumption
<1> HIDE DEF s
<1>3. IsFiniteSet(s .. s + MaxTicketCount - 1)
    BY <1>1, <1>2, FS_Interval
<1>4. NewTickets(o, t) \subseteq s .. s + MaxTicketCount - 1
    BY DEF NewTickets, s
<1>5. IsFiniteSet(NewTickets(o, t))
    BY <1>3, <1>4, FS_Subset
<1> QED
    BY <1>5, FS_CardinalityType

(* Applying a transaction moves sequences forward only.                     *)
LEMMA ApplyGrows ==
    ASSUME NEW o, NEW t, IsLedger(o)
    PROVE  IsLedger(ApplyTransaction(o, t)) /\ Grows(o, ApplyTransaction(o, t))
<1> DEFINE p == ApplyTransaction(o, t)
           a == Tx[t].acct
           c == Cardinality(NewTickets(o, t))
           one == IF Tx[t].ticket THEN 0 ELSE 1
<1>1. CASE ~Applied(Answer(o, t))
    BY <1>1 DEF ApplyTransaction, Grows, IsLedger
<1>2. CASE Applied(Answer(o, t))
  <2>1. p = [seq |-> p.seq, tix |-> p.tix, bal |-> p.bal, n |-> p.n, lseq |-> p.lseq,
             levels |-> p.levels]
      BY <1>2 DEF ApplyTransaction
  <2>2. p.seq = [o.seq EXCEPT ![a] = o.seq[a] + c + one]
      BY <1>2 DEF ApplyTransaction
  <2>3. a \in QAccounts => c \in Nat
      BY NewTicketsFinite
  <2>4. o.seq \in [QAccounts -> Nat] /\ one \in Nat
      BY DEF IsLedger
  <2> HIDE DEF p, a, c, one
  <2>5. p.seq \in [QAccounts -> Nat] /\ \A b \in QAccounts : o.seq[b] <= p.seq[b]
    <3>1. CASE a \in QAccounts
      <4>1. o.seq[a] \in Nat /\ o.seq[a] + c + one \in Nat /\ o.seq[a] <= o.seq[a] + c + one
          BY <2>3, <2>4, <3>1
      <4> QED
          BY <2>2, <2>4, <3>1, <4>1
    <3>2. CASE a \notin QAccounts
      <4>1. p.seq = o.seq
          BY <2>2, <2>4, <3>2
      <4> QED
          BY <2>4, <4>1
    <3> QED
        BY <3>1, <3>2
  <2> QED
      BY <2>1, <2>5 DEF p, IsLedger, Grows
<1> QED
    BY <1>1, <1>2

(* Sequences that go forward twice have gone forward.                       *)
LEMMA GrowsTransitive ==
    ASSUME NEW o, NEW p, NEW r, IsLedger(o), IsLedger(p), IsLedger(r), Grows(o, p), Grows(p, r)
    PROVE  Grows(o, r)
    BY DEF Grows, IsLedger

-----------------------------------------------------------------------------
(* What shrinks and grows keeps blockers alone                             *)

(* Only a sequence can be past: tickets sort after every sequence.          *)
LEMMA PastIsLowSequence ==
    ASSUME NEW t \in Txs, NEW n \in Nat
    PROVE  Less(SeqProxy(t), Sequence(n)) <=> ~Tx[t].ticket /\ Tx[t].value < n
<1>1. Tx[t].ticket \in BOOLEAN
    BY TxQAssumption
<1>2. CASE Tx[t].ticket = TRUE
    BY <1>2 DEF Less, SeqProxy, Sequence
<1>3. CASE Tx[t].ticket = FALSE
    BY <1>3 DEF Less, SeqProxy, Sequence
<1> QED
    BY <1>1, <1>2, <1>3

(* A candidate is relevant as long as it is queued and not past.            *)
LEMMA RelevantShrinks ==
    ASSUME NEW q, NEW r, NEW o, NEW p, IsQueue(q), IsQueue(r), IsLedger(o), IsLedger(p),
           Shrinks(q, r), Grows(o, p), NEW a \in QAccounts
    PROVE  Relevant(r, a, p.seq[a]) \subseteq Relevant(q, a, o.seq[a])
<1> SUFFICES ASSUME NEW t \in Relevant(r, a, p.seq[a])
             PROVE  t \in Relevant(q, a, o.seq[a])
    OBVIOUS
<1>1. t \in q.at[a] /\ t \in Txs
    BY DEF Relevant, Shrinks, IsQueue
<1>2. o.seq[a] \in Nat /\ p.seq[a] \in Nat /\ o.seq[a] <= p.seq[a]
    BY DEF IsLedger, Grows
<1>3. ~(~Tx[t].ticket /\ Tx[t].value < p.seq[a])
    BY <1>1, <1>2, PastIsLowSequence DEF Relevant
<1>4. Tx[t].value \in Nat
    BY <1>1, TxQAssumption
<1>5. ~(~Tx[t].ticket /\ Tx[t].value < o.seq[a])
    BY <1>2, <1>3, <1>4
<1> QED
    BY <1>1, <1>2, <1>5, PastIsLowSequence DEF Relevant

(* So nothing that takes out candidates and moves sequences forward brings  *)
(* company to a blocker.                                                    *)
LEMMA StaysAlone ==
    ASSUME NEW q, NEW r, NEW o, NEW p, IsQueue(q), IsQueue(r), IsLedger(o), IsLedger(p),
           Shrinks(q, r), Grows(o, p), BlockersAlone(q, o)
    PROVE  BlockersAlone(r, p)
<1> SUFFICES ASSUME NEW a \in QAccounts, NEW t \in Relevant(r, a, p.seq[a]), IsBlocker(t)
             PROVE  Relevant(r, a, p.seq[a]) = {t}
    BY DEF BlockersAlone
<1>1. Relevant(r, a, p.seq[a]) \subseteq Relevant(q, a, o.seq[a])
    BY RelevantShrinks
<1>2. Relevant(q, a, o.seq[a]) = {t}
    BY <1>1 DEF BlockersAlone
<1> QED
    BY <1>1, <1>2

-----------------------------------------------------------------------------
(* The two loops                                                           *)

Follows(q, o, r, p) == IsQueue(r) /\ IsLedger(p) /\ Shrinks(q, r) /\ Grows(o, p)

(* tryClearAccountQueue touches retries and the ledger, and erases nothing  *)
(* by itself.                                                               *)
LEMMA RescueFollows ==
    ASSUME NEW q, NEW o, NEW t \in Txs, IsQueue(q), IsLedger(o)
    PROVE  Follows(q, o, tryClearAccountQueue(q, o, t).q, tryClearAccountQueue(q, o, t).o)
<1> DEFINE c0 == [q |-> q, o |-> o, before |-> Preceding(q, t), done |-> {}, failed |-> FALSE]
           P(c) == Follows(q, o, c.q, c.o)
           S == {i \in Nat : P(Rescuing!Loop(t, c0, i))}
<1>0. P(c0)
    BY DEF Follows, Shrinks, Grows, IsLedger
<1>1. ASSUME NEW c, NEW u, P(c)
      PROVE  P(Rescue(c, u))
  <2> DEFINE d == Rescue(c, u)
  <2>1. d.q = [c.q EXCEPT !.left[u] = c.q.left[u] - 1] /\ d.o = ApplyTransaction(c.o, u)
      BY DEF Rescue
  <2> HIDE DEF d
  <2>2. /\ d.q.at = c.q.at
        /\ d.q = [fee |-> d.q.fee, at |-> d.q.at, pen |-> d.q.pen, left |-> d.q.left,
                  max |-> d.q.max, parent |-> d.q.parent]
      BY <1>1, <2>1 DEF Follows, IsQueue
  <2>3. IsQueue(d.q) /\ Shrinks(q, d.q)
      BY <1>1, <2>2, SameAccountsShrinks, ShrinksTransitive DEF Follows
  <2>4. IsLedger(d.o) /\ Grows(o, d.o)
      BY <1>1, <2>1, ApplyGrows, GrowsTransitive DEF Follows
  <2> QED
      BY <2>3, <2>4 DEF Follows, d
<1> HIDE DEF P
<1>2. 0 \in S
    BY <1>0, Rescuing!LoopTurns
<1>3. ASSUME NEW i \in S
      PROVE  i + 1 \in S
  <2>1. Rescuing!Loop(t, c0, i + 1) = rescueNext(t, i + 1, Rescuing!Loop(t, c0, i))
      BY Rescuing!LoopTurns
  <2> QED
      BY <1>1, <2>1 DEF rescueNext
<1> HIDE DEF S
<1>4. S = Nat
    BY <1>2, <1>3, Rescuing!TurnByTurn DEF S
<1>5. IsFiniteSet(Preceding(q, t))
  <2>1. Preceding(q, t) \subseteq Txs /\ IsFiniteSet(Txs)
      BY TxQAssumption DEF Preceding, PrevTx, IsQueue
  <2> QED
      BY <2>1, FS_Subset
<1>6. Cardinality(Preceding(q, t)) \in Nat
    BY <1>5, FS_CardinalityType
<1>7. P(Rescuing!Loop(t, c0, Cardinality(Preceding(q, t))))
    BY <1>4, <1>6 DEF S
<1> QED
    BY <1>7 DEF P, tryClearAccountQueue

(* Marking a candidate changes penalties and retries alone.                 *)
LEMMA MarkedFollows ==
    ASSUME NEW q, NEW t, NEW r, IsQueue(q)
    PROVE  /\ IsQueue(Marked(q, t, r)) /\ Shrinks(q, Marked(q, t, r))
           /\ IsQueue(Retried(q, t)) /\ Shrinks(q, Retried(q, t))
<1>1. /\ Retried(q, t).at = q.at
      /\ Retried(q, t) = [fee |-> q.fee, at |-> q.at, pen |-> q.pen, left |-> Retried(q, t).left,
                          max |-> q.max, parent |-> q.parent]
    BY DEF Retried, IsQueue
<1>2. IsQueue(Retried(q, t)) /\ Shrinks(q, Retried(q, t))
    BY <1>1 DEF IsQueue, Shrinks
<1>3. /\ Penalised(q, t).at = q.at
      /\ Penalised(q, t) = [fee |-> q.fee, at |-> q.at, pen |-> Penalised(q, t).pen, left |-> q.left,
                            max |-> q.max, parent |-> q.parent]
    BY DEF Penalised, IsQueue
<1>4. IsQueue(Penalised(q, t)) /\ Shrinks(q, Penalised(q, t))
    BY <1>3 DEF IsQueue, Shrinks
<1>5. Shrinks(q, q)
    BY DEF Shrinks
<1>6. Marked(q, t, r) \in {q, Penalised(q, t), Retried(q, t)}
    BY DEF Marked
<1> QED
    BY <1>2, <1>4, <1>5, <1>6

(* One turn of Accept's loop takes candidates out and applies transactions. *)
LEMMA TurnFollows ==
    ASSUME NEW q, NEW o, NEW m, NEW i, NEW s, IsLedger(o), Follows(q, o, s.q, s.o),
           s = [q |-> s.q, o |-> s.o, i |-> s.i, drop |-> s.drop]
    PROVE  LET z == AcceptTurn(m, i, s)
           IN Follows(q, o, z.q, z.o) /\ z = [q |-> z.q, o |-> z.o, i |-> z.i, drop |-> z.drop]
<1> DEFINE P(z) == Follows(q, o, z.q, z.o) /\ z = [q |-> z.q, o |-> z.o, i |-> z.i, drop |-> z.drop]
<1> DEFINE t == s.q.fee[s.i]
           r == Answer(s.o, t)
<1>1. P([s EXCEPT !.i = s.i + 1]) /\ P([s EXCEPT !.i = Len(s.q.fee) + 1]) /\ P(s)
    OBVIOUS
<1>2. ASSUME Leaves(s.q, t, r)
      PROVE  P(Tried(s, t, r))
  <2> DEFINE k == Marked(s.q, t, r)
             z == Tried(s, t, r)
  <2>1. z.q = erase(k, k.fee[s.i]) /\ z.o = ApplyTransaction(s.o, t)
        /\ z = [q |-> z.q, o |-> z.o, i |-> z.i, drop |-> z.drop]
      BY <1>2 DEF Tried, eraseAndAdvance
  <2>2. IsQueue(k) /\ Shrinks(q, k)
      BY MarkedFollows, ShrinksTransitive DEF Follows
  <2>3. IsQueue(z.q) /\ Shrinks(q, z.q)
    <3> HIDE DEF k, z
    <3> QED
      BY <2>1, <2>2, EraseShrinks, ShrinksTransitive DEF erase
  <2>4. IsLedger(z.o) /\ Grows(o, z.o)
    <3> HIDE DEF k, z
    <3> QED
      BY <2>1, ApplyGrows, GrowsTransitive DEF Follows
  <2> HIDE DEF z
  <2> QED
      BY <2>1, <2>3, <2>4 DEF Follows, z
<1>3. ASSUME ~Leaves(s.q, t, r)
      PROVE  P(Tried(s, t, r))
  <2> DEFINE k == Retried(s.q, t)
             d == dropLastForAccount(k, Tx[t].acct)
             z == Tried(s, t, r)
  <2>1. (z.q = k \/ z.q = d) /\ z.o = s.o
        /\ z = [q |-> z.q, o |-> z.o, i |-> z.i, drop |-> z.drop]
      BY <1>3 DEF Tried
  <2>2. IsQueue(k) /\ Shrinks(q, k)
      BY MarkedFollows, ShrinksTransitive DEF Follows
  <2>3. IsQueue(d) /\ Shrinks(q, d)
    <3> HIDE DEF k
    <3> QED
      BY <2>2, EraseShrinks, ShrinksTransitive DEF erase, dropLastForAccount
  <2> HIDE DEF k, d, z
  <2> QED
      BY <2>1, <2>2, <2>3 DEF Follows, z
<1> HIDE DEF P, t, r
<1>4. AcceptTurn(m, i, s) \in {s, [s EXCEPT !.i = s.i + 1], [s EXCEPT !.i = Len(s.q.fee) + 1],
                               Tried(s, t, r)}
    BY DEF AcceptTurn, AcceptStep, t, r
<1>5. P(AcceptTurn(m, i, s))
    BY <1>1, <1>2, <1>3, <1>4
<1> QED
    BY <1>5 DEF P

(* Accept: any number of turns.                                             *)
LEMMA AcceptFollows ==
    ASSUME NEW q, NEW o, NEW m, IsQueue(q), IsLedger(o), NEW n \in Nat
    PROVE  LET z == Accepting!Loop(m, [q |-> q, o |-> o, i |-> 1, drop |-> FALSE], n)
           IN Follows(q, o, z.q, z.o)
<1> DEFINE s0 == [q |-> q, o |-> o, i |-> 1, drop |-> FALSE]
           P(z) == Follows(q, o, z.q, z.o) /\ z = [q |-> z.q, o |-> z.o, i |-> z.i, drop |-> z.drop]
           S == {i \in Nat : P(Accepting!Loop(m, s0, i))}
<1>0. P(s0)
    BY DEF Follows, Shrinks, Grows, IsLedger
<1>1. ASSUME NEW i \in Nat, NEW s, P(s)
      PROVE  P(AcceptTurn(m, i, s))
    BY <1>1, TurnFollows
<1> HIDE DEF P, s0
<1>2. 0 \in S
    BY <1>0, Accepting!LoopTurns
<1>3. ASSUME NEW i \in S
      PROVE  i + 1 \in S
  <2>1. Accepting!Loop(m, s0, i + 1) = AcceptTurn(m, i + 1, Accepting!Loop(m, s0, i))
      BY Accepting!LoopTurns
  <2> QED
      BY <1>1, <2>1
<1> HIDE DEF S
<1>4. S = Nat
    BY <1>2, <1>3, Accepting!TurnByTurn DEF S
<1>5. P(Accepting!Loop(m, s0, n))
    BY <1>4 DEF S
<1> QED
    BY <1>5 DEF P, s0

-----------------------------------------------------------------------------
(* A candidate joins                                                       *)

Adds(q, t, z) ==
    /\ IsQueue(z)
    /\ \A a \in QAccounts : z.at[a] \subseteq q.at[a] \union {t}
    /\ \A a \in QAccounts : a # Tx[t].acct => z.at[a] = q.at[a]

(* Joining puts at most t itself into the queue of t's account.             *)
LEMMA AddCandidateAdds ==
    ASSUME NEW q, NEW t \in Txs, NEW known, IsQueue(q)
    PROVE  Adds(q, t, AddCandidate(q, t, known))
<1> DEFINE a == Tx[t].acct
           old == q.at[a]
           new == IF known /\ old = {} THEN {} ELSE old \union {t}
           z == AddCandidate(q, t, known)
<1>1. a \in QAccounts
    BY TxQAssumption
<1>2. /\ z.at = [q.at EXCEPT ![a] = new]
      /\ z = [fee |-> z.fee, at |-> z.at, pen |-> z.pen, left |-> z.left, max |-> z.max,
              parent |-> z.parent]
    BY DEF AddCandidate
<1>3. new \subseteq old \union {t} /\ old \subseteq Txs
    BY <1>1 DEF IsQueue
<1> HIDE DEF z, new
<1>4. z.at \in [QAccounts -> SUBSET Txs]
    BY <1>1, <1>2, <1>3 DEF IsQueue
<1>5. \A b \in QAccounts : z.at[b] = IF b = a THEN new ELSE q.at[b]
    BY <1>1, <1>2 DEF IsQueue
<1>6. \A b \in QAccounts : \A u \in z.at[b] : Tx[u].acct = b
    BY <1>3, <1>5 DEF IsQueue
<1> QED
    BY <1>2, <1>3, <1>4, <1>5, <1>6 DEF IsQueue, Adds, z

BlockersReplaced(t, rel) ==
    /\ IsBlocker(t) => \A u \in rel : SeqProxy(u) = SeqProxy(t)
    /\ \A b : rel = {b} /\ IsBlocker(b) => SeqProxy(b) = SeqProxy(t)

(* What the checks of Apply on blockers mean for the relevant candidates:   *)
(* a blocker comes to an empty queue or in place of the only candidate, and *)
(* nothing but a replacement of it comes to a queue that holds a blocker.   *)
LEMMA BlockerChecks ==
    ASSUME NEW rel, NEW rep, NEW t, rel \subseteq Txs,
           ~BlockerRefused(t, rel), ~BlockedOrCheap(t, rel, rep)
    PROVE  BlockersReplaced(t, rel)
<1>0. IsFiniteSet(rel)
    BY TxQAssumption, FS_Subset
<1>1. ASSUME IsBlocker(t), NEW u \in rel
      PROVE  SeqProxy(u) = SeqProxy(t)
  <2>1. Cardinality(rel) \in Nat /\ Cardinality(rel) # 0
      BY <1>0, FS_CardinalityType, FS_EmptySet
  <2>2. Cardinality(rel) = 1
      BY <1>1, <2>1 DEF BlockerRefused
  <2>3. PICK v \in rel : SeqProxy(v) = SeqProxy(t)
      BY <1>1, <2>2 DEF BlockerRefused
  <2>4. PICK w : rel = {w}
      BY <1>0, <2>2, FS_Singleton
  <2> QED
      BY <2>3, <2>4
<1>2. ASSUME NEW b, rel = {b}, IsBlocker(b)
      PROVE  SeqProxy(b) = SeqProxy(t)
  <2>1. Cardinality({b}) = 1
      BY FS_Singleton
  <2>2. First({b}) \in {b}
    <3>1. Tx[b].value \in Nat
        BY <1>2, TxQAssumption
    <3>2. ~Less(SeqProxy(b), SeqProxy(b))
        BY <3>1 DEF Less, SeqProxy
    <3> QED
        BY <3>2 DEF First
  <2> QED
      BY <1>2, <2>1, <2>2 DEF BlockedOrCheap
<1> QED
    BY <1>1, <1>2 DEF BlockersReplaced

(* t joins the queue r of a ledger p that what was found at the start of    *)
(* Apply, q and o, has become (by a rescue, or by nothing).                 *)
LEMMA EnqueueAlone ==
    ASSUME NEW q, NEW o, NEW r, NEW p, NEW t \in Txs, NEW known,
           IsQueue(q), IsLedger(o), BlockersAlone(q, o), Follows(q, o, r, p),
           ~BlockerRefused(t, Relevant(q, Tx[t].acct, o.seq[Tx[t].acct])),
           ~BlockedOrCheap(t, Relevant(q, Tx[t].acct, o.seq[Tx[t].acct]), Replaced(q, t))
    PROVE  /\ IsQueue(Enqueue(r, t, Replaced(q, t), known))
           /\ BlockersAlone(Enqueue(r, t, Replaced(q, t), known), p)
<1> DEFINE a == Tx[t].acct
           rel == Relevant(q, a, o.seq[a])
           rep == Replaced(q, t)
           k == MakeRoom(r, t, rep)
           e == eraseAll(k, rep)
           z == AddCandidate(e, t, known)
<1>1. a \in QAccounts /\ rel \subseteq Txs
    BY TxQAssumption DEF Relevant, IsQueue
<1> HIDE DEF rep, rel
<1>2. IsQueue(k) /\ Shrinks(q, k)
  <2>1. IsQueue(r) /\ Shrinks(q, r)
      BY DEF Follows
  <2>2. \A u : IsQueue(erase(r, u)) /\ Shrinks(q, erase(r, u))
      BY <2>1, EraseShrinks, ShrinksTransitive DEF erase
  <2> QED
      BY <2>1, <2>2 DEF MakeRoom
<1> HIDE DEF k
<1>3. /\ IsQueue(e) /\ Shrinks(q, e)
      /\ \A u \in e.at[a], v \in rep : Tx[v].acct = a => SeqProxy(u) # SeqProxy(v)
    BY <1>1, <1>2, EraseShrinks, ShrinksTransitive, EraseErases
<1> HIDE DEF e
<1>4. Adds(e, t, z)
    BY <1>3, AddCandidateAdds
<1> HIDE DEF z
<1>5. BlockersAlone(e, p)
    BY <1>3, StaysAlone DEF Follows
<1>6. Relevant(e, a, p.seq[a]) \subseteq rel
    BY <1>1, <1>3, RelevantShrinks DEF Follows, rel
<1>7. \A u \in Relevant(e, a, p.seq[a]) : SeqProxy(u) # SeqProxy(t)
  <2> SUFFICES ASSUME NEW u \in Relevant(e, a, p.seq[a]), SeqProxy(u) = SeqProxy(t)
               PROVE  FALSE
      OBVIOUS
  <2>1. u \in e.at[a] /\ u \in q.at[a]
      BY <1>1, <1>3 DEF Relevant, Shrinks
  <2>2. u \in rep /\ Tx[u].acct = a
      BY <1>1, <2>1 DEF Replaced, IsQueue, rep
  <2> QED
      BY <1>3, <2>1, <2>2
<1>8. BlockersReplaced(t, rel)
  <2>1. ~BlockerRefused(t, rel) /\ ~BlockedOrCheap(t, rel, rep)
      BY DEF rel, rep
  <2> QED
      BY <1>1, <2>1, BlockerChecks
<1>9. ASSUME NEW c \in QAccounts, NEW b \in Relevant(z, c, p.seq[c]), IsBlocker(b)
      PROVE  Relevant(z, c, p.seq[c]) = {b}
  <2>1. CASE c # a
    <3>1. Relevant(z, c, p.seq[c]) = Relevant(e, c, p.seq[c])
        BY <1>4, <2>1 DEF Adds, Relevant
    <3> QED
        BY <1>5, <1>9, <3>1 DEF BlockersAlone
  <2>2. CASE c = a
    <3>1. Relevant(z, a, p.seq[a]) \subseteq Relevant(e, a, p.seq[a]) \union {t}
        BY <1>1, <1>4 DEF Adds, Relevant
    <3>2. CASE IsBlocker(t)
      <4>1. Relevant(e, a, p.seq[a]) = {}
          BY <1>6, <1>7, <1>8, <3>2 DEF BlockersReplaced
      <4> QED
          BY <3>1, <4>1, <2>2, <1>9
    <3>3. CASE ~IsBlocker(t)
      <4>1. b \in Relevant(e, a, p.seq[a]) /\ b \in rel
          BY <1>6, <1>9, <2>2, <3>1, <3>3
      <4>2. rel = {b}
          BY <1>1, <1>9, <4>1 DEF BlockersAlone, rel
      <4> QED
          BY <1>7, <1>8, <1>9, <4>1, <4>2 DEF BlockersReplaced
    <3> QED
        BY <3>2, <3>3
  <2> QED
      BY <2>1, <2>2
<1>10. z = Enqueue(r, t, Replaced(q, t), known)
    BY DEF Enqueue, z, e, k, rep
<1>11. BlockersAlone(z, p)
    BY <1>9 DEF BlockersAlone
<1> QED
    BY <1>4, <1>10, <1>11 DEF Adds

-----------------------------------------------------------------------------
(* The invariant                                                           *)

(* The first queue is empty.                                                *)
LEMMA QInvInit ==
    TxQInit => QInv
<1> SUFFICES ASSUME TxQInit PROVE QInv
    OBVIOUS
<1>1. IsQueue(queue) /\ \A a \in QAccounts : queue.at[a] = {}
    BY DEF TxQInit, IsQueue
<1>2. IsLedger(open)
    BY TxQAssumption DEF TxQInit, IsLedger
<1>3. BlockersAlone(queue, open)
    BY <1>1 DEF BlockersAlone, Relevant
<1> QED
    BY <1>1, <1>2, <1>3 DEF QInv

(* Any step that only takes candidates out and moves sequences forward.     *)
LEMMA FollowingKeeps ==
    ASSUME QInv, Follows(queue, open, queue', open')
    PROVE  QInv'
<1>1. BlockersAlone(queue', open')
    BY StaysAlone DEF QInv, Follows
<1> QED
    BY <1>1 DEF QInv, Follows

(* Apply, whichever way it goes.                                            *)
LEMMA SubmitKeeps ==
    ASSUME QInv, NEW t \in Txs, Submit(t)
    PROVE  QInv'
<1> DEFINE rel == Rel(t)
           rep == Replaced(queue, t)
<1>1. CASE ApplyDirect(t)
  <2>1. Follows(queue, open, queue', open')
      BY <1>1, EraseShrinks, ApplyGrows DEF ApplyDirect, QInv, Follows
  <2> QED
      BY <2>1, FollowingKeeps
<1>2. ASSUME NEW r, NEW p, Follows(queue, open, r, p), Waits(t, rel, rep),
             QueueAfter(r, p, t, rel, rep)
      PROVE  QInv'
  <2>1. ~BlockerRefused(t, rel) /\ ~BlockedOrCheap(t, rel, rep)
      BY <1>2 DEF Waits, Refused
  <2>2. PICK known : queue' = Enqueue(r, t, rep, known) /\ open' = p
      BY <1>2 DEF QueueAfter
  <2>3. IsQueue(queue') /\ BlockersAlone(queue', p)
      BY <1>2, <2>1, <2>2, EnqueueAlone DEF QInv, Rel
  <2> QED
      BY <1>2, <2>2, <2>3 DEF QInv, Follows
<1>3. Follows(queue, open, queue, open)
    BY DEF QInv, Follows, Shrinks, Grows, IsLedger
<1>4. CASE ApplyQueued(t)
  <2>1. Waits(t, rel, rep) /\ QueueAfter(queue, open, t, rel, rep)
      BY <1>4 DEF ApplyQueued
  <2> QED
      BY <1>2, <1>3, <2>1
<1>5. CASE ApplyClearing(t)
  <2> DEFINE c == tryClearAccountQueue(queue, open, t)
  <2>1. Waits(t, rel, rep)
        /\ (Rescued(c, t, rep) \/ QueueAfter(eraseAll(c.q, c.done), c.o, t, rel, rep))
      BY <1>5 DEF ApplyClearing
  <2>2. Follows(queue, open, c.q, c.o)
      BY RescueFollows DEF QInv
  <2> HIDE DEF c
  <2>3. ASSUME NEW ts
        PROVE  Follows(queue, open, eraseAll(c.q, ts), c.o)
      BY <2>2, EraseShrinks, ShrinksTransitive DEF Follows
  <2>4. CASE Rescued(c, t, rep)
    <3>1. PICK ts : queue' = eraseAll(c.q, ts) /\ open' = ApplyTransaction(c.o, t)
        BY <2>4 DEF Rescued
    <3>2. IsLedger(open') /\ Grows(open, open')
        BY <2>2, <3>1, ApplyGrows, GrowsTransitive DEF Follows, QInv
    <3>3. Follows(queue, open, queue', open')
        BY <2>3, <3>1, <3>2 DEF Follows
    <3> QED
        BY <3>3, FollowingKeeps
  <2> QED
      BY <1>2, <2>1, <2>3, <2>4
<1> QED
    BY <1>1, <1>4, <1>5 DEF Submit

(* Accept, and the new order of the queue under another parent hash.        *)
LEMMA AcceptKeeps ==
    ASSUME QInv, NEW hash, Accept(hash)
    PROVE  QInv'
<1> DEFINE n == (Candidates(queue) + 1) * (Candidates(queue) + 1)
           s == Accepting!Loop(metrics, [q |-> queue, o |-> open, i |-> 1, drop |-> FALSE], n)
<1>1. queue' = Reparented(s.q, hash) /\ open' = s.o
    BY DEF Accept, AcceptLoop
<1>2. n \in Nat
  <2>1. Candidates(queue) \in Nat
      BY TxQAssumption, FS_Intersection, FS_CardinalityType DEF Candidates
  <2> QED
      BY <2>1
<1>3. Follows(queue, open, s.q, s.o)
    BY <1>2, AcceptFollows DEF QInv
<1> HIDE DEF s
<1>4. ASSUME NEW r, IsQueue(r)
      PROVE  IsQueue(Reparented(r, hash)) /\ Shrinks(r, Reparented(r, hash))
  <2> DEFINE z == Reparented(r, hash)
  <2>1. /\ z.at = r.at
        /\ z = [fee |-> z.fee, at |-> z.at, pen |-> z.pen, left |-> z.left, max |-> z.max,
                parent |-> z.parent]
      BY <1>4 DEF Reparented, rebuildByFee, IsQueue
  <2> HIDE DEF z
  <2> QED
      BY <1>4, <2>1, SameAccountsShrinks DEF z
<1>5. Follows(queue, open, queue', open')
    BY <1>1, <1>3, <1>4, ShrinksTransitive DEF Follows
<1> QED
    BY <1>5, FollowingKeeps

(* ProcessClosedLedger erases what has expired and leaves sequences alone.  *)
LEMMA ProcessClosedLedgerKeeps ==
    ASSUME QInv, NEW timeLeap, ProcessClosedLedger(timeLeap)
    PROVE  QInv'
<1> DEFINE r == Resized(queue, metrics', timeLeap)
           gone == Expired(queue, open.lseq)
           pen == [a \in QAccounts |->
                     IF \E t \in gone : Tx[t].acct = a THEN [r.pen[a] EXCEPT !.drop = TRUE]
                     ELSE r.pen[a]]
           marked == [r EXCEPT !.pen = pen]
<1>1. queue' = eraseAll(marked, gone)
    BY DEF ProcessClosedLedger, Expire
<1>2. IsQueue(r) /\ Shrinks(queue, r)
  <2>1. /\ r.at = queue.at
        /\ r = [fee |-> r.fee, at |-> r.at, pen |-> r.pen, left |-> r.left, max |-> r.max,
                parent |-> r.parent]
      BY DEF Resized, QInv, IsQueue
  <2> HIDE DEF r
  <2> QED
      BY <2>1, SameAccountsShrinks DEF QInv
<1> HIDE DEF r, gone, pen
<1>3. IsQueue(marked) /\ Shrinks(queue, marked)
  <2>1. /\ marked.at = r.at
        /\ marked = [fee |-> marked.fee, at |-> marked.at, pen |-> marked.pen,
                     left |-> marked.left, max |-> marked.max, parent |-> marked.parent]
      BY <1>2 DEF IsQueue
  <2> HIDE DEF marked
  <2> QED
      BY <1>2, <2>1, SameAccountsShrinks, ShrinksTransitive
<1> HIDE DEF marked
<1>4. IsQueue(queue') /\ Shrinks(queue, queue')
    BY <1>1, <1>3, EraseShrinks, ShrinksTransitive
<1>5. /\ open'.seq = open.seq
      /\ open' = [seq |-> open'.seq, tix |-> open'.tix, bal |-> open'.bal, n |-> open'.n,
                  lseq |-> open'.lseq, levels |-> open'.levels]
    BY DEF ProcessClosedLedger, QInv, IsLedger
<1>6. IsLedger(open') /\ Grows(open, open')
    BY <1>5 DEF QInv, IsLedger, Grows
<1> QED
    BY <1>4, <1>6, FollowingKeeps DEF Follows

(* The three kinds of step.                                                 *)
LEMMA QInvNext ==
    QInv /\ [TxQNext]_txqVars => QInv'
<1> SUFFICES ASSUME QInv, [TxQNext]_txqVars PROVE QInv'
    OBVIOUS
<1>1. CASE UNCHANGED txqVars
    BY <1>1 DEF txqVars, QInv
<1>2. CASE \E t \in Txs : Submit(t)
    BY <1>2, SubmitKeeps
<1>3. CASE \E hash \in {0, 1} : Accept(hash)
    BY <1>3, AcceptKeeps
<1>4. CASE \E timeLeap \in BOOLEAN : ProcessClosedLedger(timeLeap)
    BY <1>4, ProcessClosedLedgerKeeps
<1> QED
    BY <1>1, <1>2, <1>3, <1>4 DEF TxQNext

(* The invariant gives the property the model states.                       *)
LEMMA QInvAlone ==
    QInv => BlockerAlone
<1> SUFFICES ASSUME QInv, NEW b \in Txs, NEW u \in Txs,
                    IsBlocker(b), Tx[u].acct = Tx[b].acct, Waiting(b), Waiting(u),
                    {b, u} \intersect Detached(queue) = {}
             PROVE  u = b
    BY DEF BlockerAlone
<1> DEFINE a == Tx[b].acct
<1>1. a \in QAccounts /\ Tx[u].acct = a
    BY TxQAssumption
<1>2. b \in Queued(queue) /\ u \in Queued(queue)
    BY DEF Waiting, Detached
<1>3. b \in queue.at[a] /\ u \in queue.at[a]
    BY <1>1, <1>2 DEF Queued, QInv, IsQueue
<1>4. /\ b \in Relevant(queue, a, open.seq[a])
      /\ u \in Relevant(queue, a, open.seq[a])
    BY <1>1, <1>3 DEF Relevant, Waiting
<1>5. Relevant(queue, a, open.seq[a]) = {b}
    BY <1>1, <1>4 DEF QInv, BlockersAlone
<1> QED
    BY <1>4, <1>5

(* In every reachable state, whatever is submitted in whatever order, a     *)
(* waiting blocker has company of its account in the queue only through a   *)
(* candidate that is detached (apply.go 174-192, 203-212, 460-481): neither *)
(* a failed rescue, nor an eviction, nor an Accept that moves the account's *)
(* sequence gives a registered blocker registered company, and nor does a   *)
(* replacement that stays registered.                                       *)
THEOREM BlockerAloneHolds ==
    TxQSpec => []BlockerAlone
<1>1. TxQInit => QInv
    BY QInvInit
<1>2. QInv /\ [TxQNext]_txqVars => QInv'
    BY QInvNext
<1>3. QInv => BlockerAlone
    BY QInvAlone
<1> QED
    BY <1>1, <1>2, <1>3, PTL DEF TxQSpec
=============================================================================
