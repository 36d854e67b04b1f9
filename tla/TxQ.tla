-------------------------------- MODULE TxQ --------------------------------
(***************************************************************************)
(* The transaction queue (internal/txq): what Apply does with a            *)
(* transaction the open ledger is too full or too early for, how Accept    *)
(* moves queued transactions into a new open ledger, and how               *)
(* ProcessClosedLedger resizes the queue and the fee curve.                *)
(*                                                                         *)
(* The open ledger is external: the queue sees it through ApplyContext,    *)
(* AcceptContext and ClosedLedgerContext.  It is modelled here by what the *)
(* queue asks of it - account sequences, tickets, balances, the number of  *)
(* transactions it holds - and by the result of applying a transaction.    *)
(*                                                                         *)
(* A transaction is a number, its TxID; XOR with the parent hash is        *)
(* abstracted to two hashes, one that keeps the order of the IDs and one   *)
(* that reverses it.                                                       *)
(***************************************************************************)
EXTENDS Integers, Sequences, FiniteSets, FiniteSetsExt

CONSTANTS
    Txs,             \* TxIDs, a set of numbers
    Tx,              \* Txs -> [acct, ticket, value, kind, count, fee, base, spend, last, txnid]
    QAccounts,       \* accounts that submit
    Funded,          \* account -> its first balance; 0: the account does not exist
    FirstSeq,        \* the sequence every account starts at
    FirstTickets,    \* account -> tickets it already owns
    MaxTicketCount,  \* the most tickets one TicketCreate makes
    Stuck,           \* transactions the ledger answers with a retry for ever
    BaseLevel, RetriesAllowed, MinimumEscalationMultiplier,
    MinimumTxnInLedger, TargetTxnInLedger, MaximumTxnInLedger, LedgersInQueue,
    QueueSizeMin, MaximumTxnPerAccount, MinimumLastLedgerBuffer,
    Reserve,         \* GetAccountReserve(0)
    LastLedger       \* bound on the ledger sequence

ASSUME TxQAssumption ==
    /\ Txs \subseteq Nat /\ IsFiniteSet(Txs)
    /\ \A t \in Txs :
          /\ Tx[t].acct \in QAccounts
          /\ Tx[t].ticket \in BOOLEAN /\ Tx[t].value \in Nat
    /\ FirstSeq \in Nat /\ MaxTicketCount \in Nat
    /\ LedgersInQueue \in Nat \ {0} /\ MinimumTxnInLedger \in Nat \ {0}

VARIABLES
    queue,   \* [fee, at, pen, left, max, parent]: TxQ
    metrics, \* [exp, mult, recent]: FeeMetrics
    open,    \* [seq, tix, bal, n, lseq, levels]: the open ledger, through its contexts
    stage,   \* "open", or "closed" between ProcessClosedLedger and Accept
    dropped  \* whether the last Accept dropped the last transaction of an account
txqVars == <<queue, metrics, open, stage, dropped>>

NoMax == -1   \* maxSize = nil

(* -------------------------- candidates and fees ------------------------ *)
mulDiv(a, b, c) == (a * b) \div c
ToFeeLevel(drops, baseFee) ==
    IF baseFee = 0 THEN mulDiv(drops + 1, BaseLevel, 1) ELSE mulDiv(drops, BaseLevel, baseFee)
Level(t) == ToFeeLevel(Tx[t].fee, Tx[t].base)

(* SeqProxy: sequences sort before tickets. *)
SeqProxy(t) == <<Tx[t].ticket, Tx[t].value>>
Less(s, o) == IF s[1] # o[1] THEN o[1] ELSE s[2] < o[2]
Sequence(n) == <<FALSE, n>>

IsBlocker(t) == Tx[t].kind \in {"RegularKeySet", "SignerListSet", "AccountSetAuth"}
FollowingSeq(t) ==
    IF Tx[t].ticket THEN Tx[t].value
    ELSE IF Tx[t].kind = "TicketCreate" THEN Tx[t].value + Tx[t].count
    ELSE Tx[t].value + 1

ScaleFeeLevel(m, txInLedger) ==
    IF txInLedger <= m.exp THEN BaseLevel
    ELSE mulDiv(m.mult, txInLedger * txInLedger, m.exp * m.exp)
sumOfSquares(x) == (x * (x + 1) * (2 * x + 1)) \div 6
EscalatedSeriesFeeLevel(m, txInLedger, seriesSize) ==
    mulDiv(m.mult, sumOfSquares(txInLedger + seriesSize - 1) - sumOfSquares(txInLedger - 1),
           m.exp * m.exp)

(* --------------------------- the open ledger --------------------------- *)
AccountExists(o, a) == o.seq[a] > 0
Answer(o, t) ==
    LET a == Tx[t].acct IN
    IF ~AccountExists(o, a) THEN "terNO_ACCOUNT"
    ELSE IF Tx[t].ticket /\ Tx[t].value \notin o.tix[a]
        THEN IF Tx[t].value < o.seq[a] THEN "tefNO_TICKET" ELSE "terPRE_TICKET"
    ELSE IF ~Tx[t].ticket /\ Tx[t].value # o.seq[a]
        THEN IF Tx[t].value < o.seq[a] THEN "tefPAST_SEQ" ELSE "terPRE_SEQ"
    ELSE IF o.bal[a] < Tx[t].fee THEN "terINSUF_FEE_B"
    ELSE IF t \in Stuck THEN "terRETRY"
    ELSE "tesSUCCESS"
Applied(r) == r = "tesSUCCESS"

NewTickets(o, t) ==
    LET s == IF Tx[t].ticket THEN o.seq[Tx[t].acct] ELSE o.seq[Tx[t].acct] + 1
    IN {v \in s .. s + MaxTicketCount - 1 : Tx[t].kind = "TicketCreate" /\ v < s + Tx[t].count}
ApplyTransaction(o, t) ==
    IF ~Applied(Answer(o, t)) THEN o
    ELSE LET a == Tx[t].acct IN
      [seq |-> [o.seq EXCEPT ![a] = @ + Cardinality(NewTickets(o, t)) + (IF Tx[t].ticket THEN 0 ELSE 1)],
       tix |-> [o.tix EXCEPT ![a] = (@ \ (IF Tx[t].ticket THEN {Tx[t].value} ELSE {}))
                                    \union NewTickets(o, t)],
       bal |-> [o.bal EXCEPT ![a] = @ - Tx[t].fee],
       n |-> o.n + 1,
       lseq |-> o.lseq,
       levels |-> Append(o.levels, Level(t))]

(* ------------------------- the queue's two indexes --------------------- *)
Rank(q, t) == IF q.parent = 0 THEN t ELSE -t
candidateLess(q, a, b) ==
    IF Level(a) # Level(b) THEN Level(a) > Level(b) ELSE Rank(q, a) < Rank(q, b)
insertByFee(q, t) ==
    SelectSeq(q.fee, LAMBDA u : ~candidateLess(q, t, u)) \o <<t>>
    \o SelectSeq(q.fee, LAMBDA u : candidateLess(q, t, u))
removeByFee(s, ts) == SelectSeq(s, LAMBDA u : u \notin ts)

(* erase, of one candidate or of several; an account queue left empty is forgotten *)
(* with its penalties.                                                             *)
NoPenalty == [retry |-> FALSE, drop |-> FALSE]
Keeps(q, a, ts) == {u \in q.at[a] : \A t \in ts : Tx[t].acct = a => SeqProxy(u) # SeqProxy(t)}
eraseAll(q, ts) ==
    [fee |-> removeByFee(q.fee, ts),
     at |-> [a \in QAccounts |-> Keeps(q, a, ts)],
     pen |-> [a \in QAccounts |-> IF Keeps(q, a, ts) = {} THEN NoPenalty ELSE q.pen[a]],
     left |-> [t \in Txs |-> IF t \in ts THEN 0 ELSE q.left[t]],
     max |-> q.max,
     parent |-> q.parent]
erase(q, t) == eraseAll(q, {t})
Queued(q) == UNION {q.at[a] : a \in QAccounts}
Better(q, t) == {u \in Queued(q) : candidateLess(q, u, t)}
rebuildByFee(q) ==
    [q EXCEPT !.fee = [i \in 1 .. Cardinality(Queued(q)) |->
                         CHOOSE t \in Queued(q) : Cardinality(Better(q, t)) = i - 1]]
InFee(q) == {q.fee[i] : i \in DOMAIN q.fee}

(* In byFee, but in no registered account queue. *)
Detached(q) == InFee(q) \ Queued(q)
isFull(q) == q.max # NoMax /\ Len(q.fee) >= q.max
isFullPct(q, pct) == q.max # NoMax /\ Len(q.fee) >= (q.max * pct) \div 100

(* AccountQueue.  "Relevant" candidates are those at or past the account's sequence. *)
Relevant(q, a, acctSeq) == {t \in q.at[a] : ~Less(SeqProxy(t), Sequence(acctSeq))}
First(ts) == CHOOSE t \in ts : \A u \in ts : ~Less(SeqProxy(u), SeqProxy(t))
LastOf(ts) == CHOOSE t \in ts : \A u \in ts : ~Less(SeqProxy(t), SeqProxy(u))
SeqTxs(ts) == {t \in ts : ~Tx[t].ticket}
PrevTx(ts, t) == {u \in ts : Less(SeqProxy(u), SeqProxy(t))}
Replaced(q, t) == {u \in q.at[Tx[t].acct] : SeqProxy(u) = SeqProxy(t)}

(* getNextQueuableSeq: the first sequence the queued chain does not bridge. *)
Bridged(chain, acctSeq, t) ==
    IF PrevTx(chain, t) = {} THEN Tx[t].value = acctSeq
    ELSE Tx[t].value <= FollowingSeq(LastOf(PrevTx(chain, t)))
getNextQueuableSeq(q, a, acctSeq) ==
    LET chain == SeqTxs(Relevant(q, a, acctSeq))
        walked == {t \in chain : \A u \in PrevTx(chain, t) \union {t} : Bridged(chain, acctSeq, u)}
    IN IF walked = {} THEN acctSeq ELSE FollowingSeq(LastOf(walked))

(* ------------------------------- Apply --------------------------------- *)
RequiredLevel(m, o) == ScaleFeeLevel(m, o.n)
CanDirectApply(m, o, t) ==
    /\ Tx[t].ticket \/ Tx[t].value = o.seq[Tx[t].acct]
    /\ Level(t) >= RequiredLevel(m, o)
canBeQueued(r) == r \in {"terPRE_SEQ", "terQUEUED"}

(* What the queue never holds, whatever is in it. *)
NeverHeld(o, t) ==
    \/ Tx[t].txnid
    \/ ~AccountExists(o, Tx[t].acct)
    \/ Tx[t].ticket /\ Tx[t].value \notin o.tix[Tx[t].acct]
    \/ Tx[t].last # 0 /\ Tx[t].last < o.lseq + MinimumLastLedgerBuffer

(* A blocker enters only an empty queue, or in place of its only entry. *)
BlockerRefusedOnlyByTwo(t, relevant) == IsBlocker(t) /\ Cardinality(relevant) > 1
BlockerRefused(t, relevant) ==
    /\ IsBlocker(t)
    /\ \/ Cardinality(relevant) > 1
       \/ Cardinality(relevant) = 1 /\ \A u \in relevant : SeqProxy(u) # SeqProxy(t)

(* Behind a blocker nothing is queued; a replacement pays RetrySequencePercent (25) more. *)
BlockedOrCheap(t, relevant, replaced) ==
    /\ relevant # {}
    /\ \/ /\ Cardinality(relevant) = 1
          /\ IsBlocker(First(relevant)) /\ SeqProxy(First(relevant)) # SeqProxy(t)
       \/ \E u \in replaced : Level(t) <= mulDiv(Level(u), 125, 100)

(* The multiTxn path of Apply. *)
RequiresMulti(relevant, replaced) ==
    relevant # {} /\ (Cardinality(relevant) > 1 \/ replaced = {})

canBeHeld(q, t, acctSeq, replaced) ==
    LET a == Tx[t].acct IN
    \/ replaced # {} \/ Cardinality(q.at[a]) < MaximumTxnPerAccount
    \/ /\ ~Tx[t].ticket /\ Tx[t].value = getNextQueuableSeq(q, a, acctSeq)
       /\ \E u \in SeqTxs(q.at[a]) : Tx[u].value > Tx[t].value

(* Sequences in the queue form one chain from the account's sequence. *)
GoesAtFront(ts, t, acctSeq) ==
    PrevTx(ts, t) = {} \/ Less(SeqProxy(LastOf(PrevTx(ts, t))), Sequence(acctSeq))
SequenceRefused(q, t, acctSeq, relevant, replaced) ==
    /\ ~Tx[t].ticket
    /\ \/ Tx[t].value < acctSeq
       \/ relevant = {} /\ Tx[t].value # acctSeq
       \/ /\ RequiresMulti(relevant, replaced)
          /\ IF GoesAtFront(q.at[Tx[t].acct], t, acctSeq) THEN Tx[t].value # acctSeq
             ELSE replaced = {} /\ Tx[t].value # FollowingSeq(LastOf(PrevTx(q.at[Tx[t].acct], t)))

(* The fees already in flight, and what the transactions in flight may spend. *)
InFlight(t, relevant, replaced) ==
    (relevant \ replaced) \union
    (IF replaced # {} /\ \E u \in relevant \ replaced : ~Less(SeqProxy(u), SeqProxy(t)) THEN {t} ELSE {})
SumOver(ts, f(_)) == MapThenSumSet(f, ts)
FeeOf(t) == Tx[t].fee
SpendOf(t) == Tx[t].spend
Lower(a, b) == IF a < b THEN a ELSE b
TotalSpend(bal, flight) ==
    SumOver(flight, FeeOf) + Lower(SumOver(flight, SpendOf), bal - Lower(bal, Reserve))
BalanceRefused(bal, acctSeq, t, flight) ==
    \/ SumOver(flight, FeeOf) >= bal
    \/ Reserve > 10 * Tx[t].base /\ SumOver(flight, FeeOf) >= Reserve
    \/ /\ TotalSpend(bal, flight) > 0 \/ Tx[t].value # acctSeq
       /\ bal - TotalSpend(bal, flight) < Tx[t].fee   \* PreclaimTransaction: terINSUF_FEE_B

Refused(q, o, t, relevant, replaced) ==
    \/ NeverHeld(o, t)
    \/ BlockerRefused(t, relevant)
    \/ BlockedOrCheap(t, relevant, replaced)
    \/ SequenceRefused(q, t, o.seq[Tx[t].acct], relevant, replaced)
    \/ RequiresMulti(relevant, replaced) /\ ~canBeHeld(q, t, o.seq[Tx[t].acct], replaced)
    \/ RequiresMulti(relevant, replaced)
       /\ BalanceRefused(o.bal[Tx[t].acct], o.seq[Tx[t].acct], t, InFlight(t, relevant, replaced))

(* tryClearAccountQueue: the transactions before t are applied in order until one fails. *)
Preceding(q, t) == PrevTx(q.at[Tx[t].acct], t)
Rescue(c, u) ==
    [q |-> [c.q EXCEPT !.left[u] = @ - 1],
     o |-> ApplyTransaction(c.o, u),
     before |-> c.before \ {u},
     done |-> IF Applied(Answer(c.o, u)) THEN c.done \union {u} ELSE c.done,
     failed |-> ~Applied(Answer(c.o, u))]
rescueNext(t, i, c) == IF c.failed THEN c ELSE Rescue(c, First(c.before))
Rescuing == INSTANCE Loops WITH Step <- rescueNext
TriesToClear(q, m, o, t, relevant, replaced, before) ==
    /\ ~Tx[t].ticket /\ RequiresMulti(relevant, replaced)
    /\ Level(t) > RequiredLevel(m, o) /\ RequiredLevel(m, o) > BaseLevel
    /\ \E f \in SeqTxs(q.at[Tx[t].acct]) :
         f = First(SeqTxs(q.at[Tx[t].acct])) /\ q.left[f] = RetriesAllowed
    /\ before # {}
    /\ Level(t) + SumOver(before, Level) >= EscalatedSeriesFeeLevel(m, o.n, Cardinality(before) + 1)
tryClearAccountQueue(q, o, t) ==
    Rescuing!Loop(t, [q |-> q, o |-> o, before |-> Preceding(q, t), done |-> {}, failed |-> FALSE],
                  Cardinality(Preceding(q, t)))

(* A full queue gives way to t by dropping the last transaction of the account *)
(* that owns the cheapest candidate of another account.                        *)
Others(q, t) == {i \in DOMAIN q.fee : Tx[q.fee[i]].acct # Tx[t].acct}
Cheapest(q, t) == q.fee[Max(Others(q, t))]
EffectiveLevel(q, t, u) ==
    IF Level(u) <= Level(t) /\ Cardinality(q.at[Tx[u].acct]) > 1
    THEN SumOver(q.at[Tx[u].acct], Level) \div Cardinality(q.at[Tx[u].acct])
    ELSE Level(u)
NoRoom(q, t, replaced) ==
    /\ replaced = {} /\ isFull(q)
    /\ Others(q, t) # {} => Level(t) <= EffectiveLevel(q, t, Cheapest(q, t))
MakeRoom(q, t, replaced) ==
    IF replaced = {} /\ isFull(q) THEN erase(q, LastOf(q.at[Tx[Cheapest(q, t)].acct])) ELSE q

(* The cheapest candidate of the others is detached and does not cost more than t: *)
(* the code asks the account queue it no longer has for its count, and panics.     *)
Panics(q, t, replaced) ==
    /\ replaced = {} /\ isFull(q) /\ Others(q, t) # {}
    /\ LET u == Cheapest(q, t) IN q.at[Tx[u].acct] = {} /\ Level(u) <= Level(t)

(* The candidate joins the account queue read at the start of Apply: when the *)
(* replaced candidate was its last one, erase has unregistered that queue.    *)
AddCandidate(q, t, known) ==
    [fee |-> insertByFee(q, t),
     at |-> [q.at EXCEPT ![Tx[t].acct] = IF known /\ @ = {} THEN {} ELSE @ \union {t}],
     pen |-> q.pen,
     left |-> [q.left EXCEPT ![t] = RetriesAllowed],
     max |-> q.max,
     parent |-> q.parent]
Enqueue(q, t, replaced, known) == AddCandidate(eraseAll(MakeRoom(q, t, replaced), replaced), t, known)

ApplyDirect(t) ==
    /\ CanDirectApply(metrics, open, t)
    /\ Applied(Answer(open, t))
    /\ open' = ApplyTransaction(open, t)
    /\ queue' = eraseAll(queue, Replaced(queue, t))
    /\ UNCHANGED <<metrics, stage, dropped>>

(* The rest of Apply, for the relevant candidates rel of the account and those t replaces. *)
Waits(t, rel, rep) ==
    /\ CanDirectApply(metrics, open, t) => canBeQueued(Answer(open, t))
    /\ ~Refused(queue, open, t, rel, rep)
Rel(t) == Relevant(queue, Tx[t].acct, open.seq[Tx[t].acct])

(* t is queued; after a rescue that failed, with what the rescue left behind. *)
(* One call is left out: the very transaction that is detached in byFee is    *)
(* submitted again, which the code would list a second time.                  *)
QueueAfter(q, o, t, rel, rep) ==
    /\ (~RequiresMulti(rel, rep) /\ queue.at[Tx[t].acct] # {})
         => canBeHeld(q, t, open.seq[Tx[t].acct], rep)
    /\ t \notin Detached(queue)
    /\ ~Panics(q, t, rep)
    /\ ~NoRoom(q, t, rep)
    /\ queue' = Enqueue(q, t, rep, queue.at[Tx[t].acct] # {})
    /\ open' = o
    /\ UNCHANGED <<metrics, stage, dropped>>
ApplyQueued(t) ==
    \E rel \in {Rel(t)}, rep \in {Replaced(queue, t)} :
        /\ Waits(t, rel, rep) /\ ~TriesToClear(queue, metrics, open, t, rel, rep, Preceding(queue, t))
        /\ QueueAfter(queue, open, t, rel, rep)

(* The series is rescued: what came before t is in the ledger, and t was tried. *)
Rescued(c, t, rep) ==
    /\ ~c.failed
    /\ open' = ApplyTransaction(c.o, t)
    /\ queue' = eraseAll(c.q, c.done \union (IF Applied(Answer(c.o, t)) THEN rep ELSE {}))
    /\ UNCHANGED <<metrics, stage, dropped>>
ApplyClearing(t) ==
    \E rel \in {Rel(t)}, rep \in {Replaced(queue, t)} :
        /\ TriesToClear(queue, metrics, open, t, rel, rep, Preceding(queue, t)) /\ Waits(t, rel, rep)
        /\ \E c \in {tryClearAccountQueue(queue, open, t)} :
             \/ Rescued(c, t, rep)
             \/ c.failed /\ QueueAfter(eraseAll(c.q, c.done), c.o, t, rel, rep)

(* ------------------------------- Accept -------------------------------- *)
Skipped(q, t) ==
    \/ q.at[Tx[t].acct] = {}
    \/ /\ ~Tx[t].ticket
       /\ \E u \in SeqTxs(q.at[Tx[t].acct]) : Tx[u].value < Tx[t].value

(* eraseAndAdvance: the position to go on from is that of the account's next *)
(* transaction when it sorts before the next candidate by fee.               *)
AccountNext(q, t) ==
    IF Tx[t].ticket THEN {}
    ELSE {u \in SeqTxs(q.at[Tx[t].acct]) : Tx[u].value = FollowingSeq(t) /\ Tx[u].value > Tx[t].value}
eraseAndAdvanceByFee(s, q) == [s EXCEPT !.q = erase(q, q.fee[s.i])]
eraseAndAdvance(s, q) ==
    LET t == q.fee[s.i]
        nexts == {u \in AccountNext(q, t) : s.i < Len(q.fee) => candidateLess(q, u, q.fee[s.i + 1])}
    IN [q |-> erase(q, t),
        o |-> s.o,
        i |-> IF nexts = {} THEN s.i
              ELSE CHOOSE j \in 1 .. Len(q.fee) - 1 : removeByFee(q.fee, {t})[j] \in nexts,
        drop |-> s.drop]

isPermanent(r) == r \in {"tefNO_TICKET", "tefPAST_SEQ"}
Penalised(q, t) ==
    IF q.left[t] <= 0 THEN [q EXCEPT !.pen[Tx[t].acct].retry = TRUE]
    ELSE [q EXCEPT !.pen[Tx[t].acct].drop = TRUE]
RetryKept(q, t) == q
Retried(q, t) ==
    [q EXCEPT !.left[t] = IF q.pen[Tx[t].acct].retry /\ @ > 2 THEN 1 ELSE @ - 1]
dropLastForAccount(q, a) ==
    IF SeqTxs(q.at[a]) = {} THEN q ELSE erase(q, LastOf(SeqTxs(q.at[a])))
DropsFromBack(q, t) ==
    q.pen[Tx[t].acct].drop /\ Cardinality(q.at[Tx[t].acct]) > 1 /\ isFullPct(q, 95)

(* One turn of the loop on the candidate at s.i, which the ledger answered with r. *)
Final(q, t, r) == isPermanent(r) \/ q.left[t] <= 0
Marked(q, t, r) ==
    IF Applied(r) THEN q ELSE IF Final(q, t, r) THEN Penalised(q, t) ELSE Retried(q, t)
Leaves(q, t, r) == Applied(r) \/ Final(q, t, r) \/ (DropsFromBack(q, t) /\ Tx[t].ticket)
Tried(s, t, r) ==
    IF Leaves(s.q, t, r)
    THEN eraseAndAdvance([q |-> s.q, o |-> ApplyTransaction(s.o, t), i |-> s.i, drop |-> s.drop],
                         Marked(s.q, t, r))
    ELSE [q |-> IF DropsFromBack(s.q, t) THEN dropLastForAccount(Retried(s.q, t), Tx[t].acct)
                ELSE Retried(s.q, t),
          o |-> s.o,
          i |-> s.i + 1,
          drop |-> s.drop \/ DropsFromBack(s.q, t)]
AcceptStep(s, m) ==
    LET t == s.q.fee[s.i] IN
    IF Skipped(s.q, t) THEN [s EXCEPT !.i = @ + 1]
    ELSE IF Level(t) < RequiredLevel(m, s.o) THEN [s EXCEPT !.i = Len(s.q.fee) + 1]
    ELSE Tried(s, t, Answer(s.o, t))

(* The loop runs until it is past the last candidate.  A turn erases a candidate or *)
(* goes on to the next one, so that the square of their number of turns is enough.  *)
AcceptTurn(m, i, s) == IF s.i > Len(s.q.fee) THEN s ELSE AcceptStep(s, m)
Accepting == INSTANCE Loops WITH Step <- AcceptTurn
Candidates(q) == Cardinality(Txs \intersect InFee(q))
AcceptLoop(s, m) == Accepting!Loop(m, s, (Candidates(s.q) + 1) * (Candidates(s.q) + 1))

Reparented(q, hash) == IF hash = q.parent THEN q ELSE rebuildByFee([q EXCEPT !.parent = hash])
Accept(hash) ==
    /\ stage = "closed"
    /\ \E s \in {AcceptLoop([q |-> queue, o |-> open, i |-> 1, drop |-> FALSE], metrics)} :
         /\ queue' = Reparented(s.q, hash)
         /\ open' = s.o
         /\ dropped' = s.drop
    /\ stage' = "open"
    /\ UNCHANGED metrics

(* ------------------------- ProcessClosedLedger ------------------------- *)
Higher(a, b) == IF a > b THEN a ELSE b
Slowed(m, size) ==
    [m EXCEPT !.exp = Lower(Higher(mulDiv(size, 50, 100), MinimumTxnInLedger),
                            Higher(mulDiv(m.exp, 50, 100), MinimumTxnInLedger)),
              !.recent = <<>>]
addRecentCount(recent, n) ==
    IF Len(recent) < LedgersInQueue THEN Append(recent, n) ELSE Append(Tail(recent), n)
NextExpected(m, recent) ==
    LET most == Max({0} \union {recent[i] : i \in DOMAIN recent})
        next == IF most >= m.exp THEN most ELSE (m.exp * 9 + most) \div 10
    IN IF MaximumTxnInLedger # 0 THEN Lower(next, MaximumTxnInLedger) ELSE next
Grown(m, recent) == [m EXCEPT !.exp = NextExpected(m, recent), !.recent = recent]
Nth(levels, k) ==   \* the k-th of the levels in ascending order
    CHOOSE x \in {levels[i] : i \in DOMAIN levels} :
        /\ Cardinality({i \in DOMAIN levels : levels[i] < x}) < k
        /\ Cardinality({i \in DOMAIN levels : levels[i] <= x}) >= k
Median(levels) ==
    LET n == Len(levels) IN
    IF n % 2 = 1 THEN Nth(levels, n \div 2 + 1)
    ELSE (Nth(levels, n \div 2 + 1) + Nth(levels, n \div 2) + 1) \div 2
Multiplier(levels) ==
    IF levels = <<>> THEN MinimumEscalationMultiplier
    ELSE Higher(Median(levels), MinimumEscalationMultiplier)
Counted(m, size, timeLeap) ==
    IF timeLeap THEN Slowed(m, size)
    ELSE IF size > m.exp \/ size > TargetTxnInLedger
        THEN Grown(m, addRecentCount(m.recent, mulDiv(size, 120, 100)))
    ELSE m
Update(m, levels, timeLeap) ==
    [Counted(m, Len(levels), timeLeap) EXCEPT !.mult = Multiplier(levels)]

Expired(q, lseq) == {t \in InFee(q) : Tx[t].last # 0 /\ Tx[t].last <= lseq}
Expire(q, gone) ==
    eraseAll([q EXCEPT !.pen = [a \in QAccounts |->
                 IF \E t \in gone : Tx[t].acct = a THEN [q.pen[a] EXCEPT !.drop = TRUE] ELSE q.pen[a]]],
             gone)
Resized(q, m, timeLeap) ==
    IF timeLeap THEN q ELSE [q EXCEPT !.max = Higher(m.exp * LedgersInQueue, QueueSizeMin)]
ProcessClosedLedger(timeLeap) ==
    /\ stage = "open"
    /\ metrics' = Update(metrics, open.levels, timeLeap)
    /\ queue' = Expire(Resized(queue, metrics', timeLeap), Expired(queue, open.lseq))
    /\ open' = [open EXCEPT !.n = 0, !.levels = <<>>, !.lseq = Lower(@ + 1, LastLedger)]
    /\ stage' = "closed"
    /\ UNCHANGED dropped

TxQInit ==
    /\ queue = [fee |-> <<>>, at |-> [a \in QAccounts |-> {}], pen |-> [a \in QAccounts |-> NoPenalty],
                left |-> [t \in Txs |-> 0], max |-> NoMax, parent |-> 0]
    /\ metrics = [exp |-> MinimumTxnInLedger, mult |-> MinimumEscalationMultiplier, recent |-> <<>>]
    /\ open = [seq |-> [a \in QAccounts |-> IF Funded[a] = 0 THEN 0 ELSE FirstSeq],
               tix |-> FirstTickets, bal |-> Funded, n |-> 0, lseq |-> 1, levels |-> <<>>]
    /\ stage = "open"
    /\ dropped = FALSE
Submit(t) == ApplyDirect(t) \/ ApplyQueued(t) \/ ApplyClearing(t)
TxQNext ==
    \/ \E t \in Txs : Submit(t)
    \/ \E hash \in {0, 1} : Accept(hash)
    \/ \E timeLeap \in BOOLEAN : ProcessClosedLedger(timeLeap)
TxQSpec == TxQInit /\ [][TxQNext]_txqVars

(* ------------------------------ properties ----------------------------- *)
(* Accept leaves behind only what could not go in: a candidate that stays   *)
(* is priced out by now, is not the one its account's sequence calls for,   *)
(* waits for an earlier queued one, or used up a retry.  Two passes are     *)
(* excluded, in which the code goes on past a candidate it could apply: one *)
(* that dropped the last transaction of an account (accept.go 105-107), and *)
(* one that met a candidate whose sequence was past already: what followed  *)
(* it was skipped, and is not looked at again (accept.go 54-57, 142-145).   *)
AcceptTakesTheBest ==
    [][(stage = "closed" /\ stage' = "open" /\ ~dropped') =>
         \A t \in InFee(queue') :
            \/ Level(t) < RequiredLevel(metrics, open')
            \/ Skipped(queue', t)
            \/ queue'.left[t] < queue.left[t]
            \/ ~Tx[t].ticket /\ Tx[t].value # open'.seq[Tx[t].acct]
            \/ \E u \in SeqTxs(queue.at[Tx[t].acct]) : Tx[u].value < open.seq[Tx[t].acct]]_txqVars

(* Whether t is queued and not past the sequence its account is at.         *)
Waiting(t) == t \in InFee(queue) /\ ~Less(SeqProxy(t), Sequence(open.seq[Tx[t].acct]))

(* apply.go 194-195: "we require that a blocker be alone in the account's   *)
(* queue".  A blocker is a change of key, signers or authorisation, that    *)
(* could void what follows it.                                              *)
BlockerAloneInQueue ==
    \A b, u \in Txs :
        IsBlocker(b) /\ Tx[u].acct = Tx[b].acct /\ Waiting(b) /\ Waiting(u) => u = b

(* What the code keeps of that (apply.go 167-221): a blocker that waits has *)
(* company of its account only if the blocker or the company is detached.   *)
(* A candidate is detached when it replaced the only one of its account     *)
(* (apply.go 460-481); Apply looks for company among the registered ones,   *)
(* so it does not see it.                                                   *)
BlockerAlone ==
    \A b, u \in Txs :
        /\ IsBlocker(b) /\ Tx[u].acct = Tx[b].acct
        /\ Waiting(b) /\ Waiting(u)
        /\ {b, u} \intersect Detached(queue) = {}
        => u = b

(* A transaction below the base fee level: Apply queues it, and Accept      *)
(* stops at it whatever the ledger holds.                                   *)
Underpays(t) == Level(t) < BaseLevel

(* While ledgers close, each with a hash of its own, every queued           *)
(* transaction leaves the queue: applied, expired, replaced, evicted, out   *)
(* of retries, or dropped with the detached ones when byFee is rebuilt      *)
(* (accept.go 40-122).  The exceptions are those that pay less than the     *)
(* base fee and those that wait behind one of these.                        *)
EveryoneLeaves ==
    \A t \in Txs :
        []<>(\/ t \notin InFee(queue)
             \/ Underpays(t)
             \/ \E u \in PrevTx(queue.at[Tx[t].acct], t) : Underpays(u))

=============================================================================
