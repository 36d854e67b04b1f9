------------------------ MODULE LedgerServiceProofs -------------------------
(***************************************************************************)
(* Proofs about the ledger service, for any ledgers served by peers and    *)
(* validated by the network, and any limits of the stashes.                *)
(***************************************************************************)
EXTENDS LedgerService, SequenceTheorems, TLAPS

Ledgers == Seq([txs : SUBSET Txs, effects : SUBSET Txs])
Stashed == [hash : Ledgers, age : 0..PendingTTL]
Held == [ledger : PeerLedgers, age : 0..HeldTTL]

(* The Service struct.                                                      *)
Service ==
    [ledgerHistory : [Seqs -> Ledgers \cup {None}],
     closedLedger : Ledgers,
     validatedLedger : Ledgers,
     openLedger : [parent : Ledgers, effects : SUBSET Txs, closed : BOOLEAN],
     pendingValidation : Seq(Ledgers),
     pendingLedgerValidations : Seq(Stashed),
     heldAdoptions : [Seqs -> Held \cup {None}],
     needsInitialSync : BOOLEAN]

(* The stashes: each key once, at most MaxPending of them.                  *)
Once(q) == Len(q) <= MaxPending /\ \A i, j \in 1..Len(q) : q[i] = q[j] => i = j
OncePerSeq(q) ==
    /\ Len(q) <= MaxPending
    /\ \A i, j \in 1..Len(q) : Sequence(q[i].hash) = Sequence(q[j].hash) => i = j

(* Every ledger is filed under its own sequence.                            *)
Filed(s) ==
    /\ Sequence(s.closedLedger) \in Seqs
    /\ \A q \in Seqs : s.ledgerHistory[q] # None => Sequence(s.ledgerHistory[q]) = q
    /\ \A q \in Seqs : s.heldAdoptions[q] # None => Sequence(s.heldAdoptions[q].ledger) = q + 1

Tip(s) ==
    /\ s.ledgerHistory[Sequence(s.closedLedger)] = s.closedLedger
    /\ s.openLedger.parent = s.closedLedger

(* What is stashed for later adoption reached its quorum and has not been   *)
(* published; what is validated reached its quorum.                         *)
Backed(s, known, told) ==
    /\ \A i \in 1..Len(s.pendingLedgerValidations) :
          s.pendingLedgerValidations[i].hash \in known \ told
    /\ s.validatedLedger \in known \cup {Genesis}

Good(s) ==
    /\ s \in Service
    /\ Once(s.pendingValidation)
    /\ OncePerSeq(s.pendingLedgerValidations)
    /\ Filed(s)

SInv ==
    /\ Good(svc) /\ Tip(svc)
    /\ Backed(svc, quorumed, published)
    /\ published \subseteq quorumed
    /\ twice = {}
    /\ prevLedger \in Ledgers /\ Sequence(prevLedger) \in Seqs

-----------------------------------------------------------------------------
LEMMA Limits ==
    /\ MaxSeq \in Nat \ {0} /\ MaxPending \in Nat \ {0}
    /\ PendingTTL \in Nat \ {0} /\ HeldTTL \in Nat \ {0} /\ HeldCascadeMax \in Nat
    BY ServiceConstants

(* The ledgers that come from outside.                                      *)
LEMMA OutsideLedgers ==
    ASSUME NEW l \in PeerLedgers \cup NetworkLedgers
    PROVE  l \in Ledgers /\ Sequence(l) \in Seqs /\ Sequence(l) - 1 \in Seqs /\ l # None
<1>1. l \in Seq({Block(T) : T \in SUBSET Txs}) /\ Sequence(l) \in 2..MaxSeq /\ l # None
    BY ServiceConstants
<1>2. {Block(T) : T \in SUBSET Txs} \subseteq [txs : SUBSET Txs, effects : SUBSET Txs]
    BY DEF Block
<1>3. l \in Ledgers
    BY <1>1, <1>2, SeqMonotonic DEF Ledgers
<1> QED
    BY <1>1, <1>3, Limits DEF Seqs

(* Removing an entry of a stash.                                            *)
LEMMA RemovedIs ==
    ASSUME NEW S, NEW q \in Seq(S), NEW k \in 1..Len(q)
    PROVE  /\ Removed(q, k) \in Seq(S)
           /\ Len(Removed(q, k)) = Len(q) - 1
           /\ \A i \in 1..Len(q) - 1 :
                 Removed(q, k)[i] = q[IF i < k THEN i ELSE i + 1]
<1> DEFINE r == Removed(q, k)
           n == Len(q) - 1
<1>1. n \in Nat /\ \A i \in 1..n : q[i] \in S /\ q[i + 1] \in S
    OBVIOUS
<1>2. r = [i \in 1..n |-> IF i < k THEN q[i] ELSE q[i + 1]]
    BY DEF Removed
<1>3. r \in Seq(S) /\ Len(r) = n
    BY <1>1, <1>2
<1> QED
    BY <1>1, <1>2, <1>3

LEMMA RemovedKeepsOnce ==
    ASSUME NEW q \in Seq(Ledgers), Once(q), NEW k \in 1..Len(q)
    PROVE  Removed(q, k) \in Seq(Ledgers) /\ Once(Removed(q, k))
<1> DEFINE r == Removed(q, k)
<1>1. /\ r \in Seq(Ledgers) /\ Len(r) = Len(q) - 1
      /\ \A i \in 1..Len(q) - 1 : r[i] = q[IF i < k THEN i ELSE i + 1]
    BY RemovedIs
<1> HIDE DEF r
<1>2. Once(r)
    BY <1>1, Limits DEF Once
<1> QED
    BY <1>1, <1>2 DEF r

(* The entry for a sequence is the only one: without it there is none.      *)
LEMMA RemovedDropsSeq ==
    ASSUME NEW q \in Seq(Stashed), OncePerSeq(q), NEW k \in 1..Len(q)
    PROVE  /\ Removed(q, k) \in Seq(Stashed) /\ OncePerSeq(Removed(q, k))
           /\ \A i \in 1..Len(Removed(q, k)) :
                 /\ Sequence(Removed(q, k)[i].hash) # Sequence(q[k].hash)
                 /\ \E j \in 1..Len(q) : Removed(q, k)[i] = q[j]
<1> DEFINE r == Removed(q, k)
<1>1. /\ r \in Seq(Stashed) /\ Len(r) = Len(q) - 1
      /\ \A i \in 1..Len(q) - 1 : r[i] = q[IF i < k THEN i ELSE i + 1]
    BY RemovedIs
<1> HIDE DEF r
<1>2. ASSUME NEW i \in 1..Len(r), NEW j \in 1..Len(r), Sequence(r[i].hash) = Sequence(r[j].hash)
      PROVE  i = j
  <2> DEFINE a == IF i < k THEN i ELSE i + 1
             b == IF j < k THEN j ELSE j + 1
  <2>1. r[i] = q[a] /\ r[j] = q[b] /\ a \in 1..Len(q) /\ b \in 1..Len(q)
      BY <1>1
  <2>2. a = b
      BY <1>2, <2>1 DEF OncePerSeq
  <2> QED
      BY <2>2
<1>3. Len(r) <= MaxPending
    BY <1>1, Limits DEF OncePerSeq
<1>4. ASSUME NEW i \in 1..Len(r)
      PROVE  Sequence(r[i].hash) # Sequence(q[k].hash) /\ \E j \in 1..Len(q) : r[i] = q[j]
  <2> DEFINE a == IF i < k THEN i ELSE i + 1
  <2>0. i \in 1..Len(q) - 1 /\ Len(q) \in Nat
      BY <1>1
  <2>1. a \in 1..Len(q) /\ a # k
      BY <2>0
  <2>2. r[i] = q[a]
      BY <1>1, <2>0
  <2> HIDE DEF a
  <2> QED
      BY <2>1, <2>2 DEF OncePerSeq
<1>5. OncePerSeq(r)
    BY <1>2, <1>3 DEF OncePerSeq
<1> QED
    BY <1>1, <1>4, <1>5 DEF r

(* A new entry goes to the end; past the limit the oldest leaves.           *)
LEMMA TrimmedIs ==
    ASSUME NEW S, NEW q \in Seq(S), Len(q) <= MaxPending, NEW x \in S
    PROVE  LET t == Trim(Append(q, x)) IN
           /\ t \in Seq(S) /\ Len(t) <= MaxPending
           /\ \E shift \in {0, 1} :
                 /\ Len(t) = Len(q) + 1 - shift
                 /\ \A i \in 1..Len(t) :
                       t[i] = IF i + shift <= Len(q) THEN q[i + shift] ELSE x
<1> DEFINE a == Append(q, x)
           t == Trim(a)
<1>0. MaxPending \in Nat \ {0}
    BY Limits
<1>1. /\ a \in Seq(S) /\ Len(a) = Len(q) + 1
      /\ \A i \in 1..Len(q) + 1 : a[i] = IF i <= Len(q) THEN q[i] ELSE x
    OBVIOUS
<1> HIDE DEF a
<1>2. CASE Len(a) > MaxPending
  <2>1. t = Tail(a) /\ a # <<>>
      BY <1>0, <1>1, <1>2 DEF Trim
  <2>2. /\ t \in Seq(S) /\ Len(t) = Len(a) - 1
        /\ \A i \in 1..Len(a) - 1 : t[i] = a[i + 1]
      BY <1>1, <2>1
  <2> HIDE DEF t
  <2>3. /\ Len(t) = Len(q) + 1 - 1
        /\ \A i \in 1..Len(t) : t[i] = IF i + 1 <= Len(q) THEN q[i + 1] ELSE x
      BY <1>1, <2>2
  <2> QED
      BY <1>0, <1>1, <1>2, <2>2, <2>3 DEF t, a
<1>3. CASE ~(Len(a) > MaxPending)
  <2>1. t = a
      BY <1>3 DEF Trim
  <2>2. /\ Len(t) = Len(q) + 1 - 0
        /\ \A i \in 1..Len(t) : t[i] = IF i + 0 <= Len(q) THEN q[i + 0] ELSE x
      BY <1>1, <2>1
  <2> QED
      BY <1>0, <1>1, <1>3, <2>1, <2>2 DEF t, a
<1> QED
    BY <1>2, <1>3

LEMMA TrimmedOnce ==
    ASSUME NEW q \in Seq(Ledgers), Once(q), NEW l \in Ledgers, ~Stashes(q, l)
    PROVE  Trim(Append(q, l)) \in Seq(Ledgers) /\ Once(Trim(Append(q, l)))
<1> DEFINE t == Trim(Append(q, l))
<1>0. \A i \in 1..Len(q) : q[i] # l
    BY DEF Stashes
<1>1. t \in Seq(Ledgers) /\ Len(t) <= MaxPending
    BY TrimmedIs DEF Once
<1>2. PICK shift \in {0, 1} :
         /\ Len(t) = Len(q) + 1 - shift
         /\ \A i \in 1..Len(t) : t[i] = IF i + shift <= Len(q) THEN q[i + shift] ELSE l
    BY TrimmedIs DEF Once
<1> HIDE DEF t
<1>3. ASSUME NEW i \in 1..Len(t), NEW j \in 1..Len(t), t[i] = t[j]
      PROVE  i = j
    BY <1>0, <1>1, <1>2, <1>3 DEF Once
<1>4. Once(t)
    BY <1>1, <1>3 DEF Once
<1> QED
    BY <1>1, <1>4 DEF t

LEMMA TrimmedOncePerSeq ==
    ASSUME NEW q \in Seq(Stashed), OncePerSeq(q), NEW x \in Stashed,
           \A i \in 1..Len(q) : Sequence(q[i].hash) # Sequence(x.hash)
    PROVE  LET t == Trim(Append(q, x)) IN
           /\ t \in Seq(Stashed) /\ OncePerSeq(t)
           /\ \A i \in 1..Len(t) : t[i] = x \/ \E j \in 1..Len(q) : t[i] = q[j]
<1> DEFINE t == Trim(Append(q, x))
<1>1. t \in Seq(Stashed) /\ Len(t) <= MaxPending
    BY TrimmedIs DEF OncePerSeq
<1>2. PICK shift \in {0, 1} :
         /\ Len(t) = Len(q) + 1 - shift
         /\ \A i \in 1..Len(t) : t[i] = IF i + shift <= Len(q) THEN q[i + shift] ELSE x
    BY TrimmedIs DEF OncePerSeq
<1> HIDE DEF t
<1>3. ASSUME NEW i \in 1..Len(t), NEW j \in 1..Len(t), Sequence(t[i].hash) = Sequence(t[j].hash)
      PROVE  i = j
  <2>1. i + shift \in Nat /\ j + shift \in Nat /\ i + shift >= 1 /\ j + shift >= 1
      BY <1>1, <1>2
  <2>2. CASE i + shift <= Len(q) /\ j + shift <= Len(q)
    <3>1. t[i] = q[i + shift] /\ t[j] = q[j + shift]
        BY <1>2, <2>2
    <3> QED
        BY <1>2, <1>3, <2>1, <2>2, <3>1 DEF OncePerSeq
  <2>3. CASE i + shift <= Len(q) /\ ~(j + shift <= Len(q))
      BY <1>2, <1>3, <2>1, <2>3
  <2>4. CASE ~(i + shift <= Len(q)) /\ j + shift <= Len(q)
      BY <1>2, <1>3, <2>1, <2>4
  <2>5. CASE ~(i + shift <= Len(q)) /\ ~(j + shift <= Len(q))
      BY <1>1, <1>2, <2>1, <2>5
  <2> QED
      BY <2>2, <2>3, <2>4, <2>5
<1>4. OncePerSeq(t)
    BY <1>1, <1>3 DEF OncePerSeq
<1>5. ASSUME NEW i \in 1..Len(t)
      PROVE  t[i] = x \/ \E j \in 1..Len(q) : t[i] = q[j]
    BY <1>1, <1>2
<1> QED
    BY <1>1, <1>4, <1>5 DEF t

-----------------------------------------------------------------------------
(* The operations on the stashes.                                           *)

(* The fields an operation on a stash leaves alone.                         *)
SameChain(r, s) ==
    /\ r.closedLedger = s.closedLedger /\ r.ledgerHistory = s.ledgerHistory
    /\ r.openLedger = s.openLedger /\ r.needsInitialSync = s.needsInitialSync

LEMMA StashGood ==
    ASSUME NEW s, Good(s), NEW l \in Ledgers
    PROVE  LET r == stashPendingValidation(s, l) IN
           /\ Good(r) /\ SameChain(r, s)
           /\ r.pendingLedgerValidations = s.pendingLedgerValidations
           /\ r.validatedLedger = s.validatedLedger
<1> DEFINE t == Trim(Append(s.pendingValidation, l))
           r == [s EXCEPT !.pendingValidation = t]
<1>0. s \in Service
    BY DEF Good
<1>1. CASE Stashes(s.pendingValidation, l)
    BY <1>1 DEF stashPendingValidation, SameChain
<1>2. CASE ~Stashes(s.pendingValidation, l)
  <2>1. t \in Seq(Ledgers) /\ Once(t)
      BY <1>0, <1>2, TrimmedOnce DEF Good, Service
  <2>2. stashPendingValidation(s, l) = r
      BY <1>2 DEF stashPendingValidation
  <2> HIDE DEF t
  <2>3. /\ r \in Service /\ r.pendingValidation = t
        /\ r.ledgerHistory = s.ledgerHistory /\ r.closedLedger = s.closedLedger
        /\ r.validatedLedger = s.validatedLedger /\ r.openLedger = s.openLedger
        /\ r.pendingLedgerValidations = s.pendingLedgerValidations
        /\ r.heldAdoptions = s.heldAdoptions /\ r.needsInitialSync = s.needsInitialSync
      BY <1>0, <2>1 DEF Service
  <2> HIDE DEF r
  <2>4. Good(r)
      BY <2>1, <2>3 DEF Good, Filed
  <2> QED
      BY <2>2, <2>3, <2>4 DEF SameChain
<1> QED
    BY <1>1, <1>2

LEMMA DrainEventGood ==
    ASSUME NEW s, Good(s), NEW l \in Ledgers
    PROVE  LET r == [drainPendingValidation(s, l) EXCEPT !.validatedLedger = l] IN
           /\ Good(r) /\ SameChain(r, s)
           /\ r.pendingLedgerValidations = s.pendingLedgerValidations
           /\ r.validatedLedger = l
<1> DEFINE d == drainPendingValidation(s, l)
           k == CHOOSE k \in DOMAIN s.pendingValidation : s.pendingValidation[k] = l
           t == Removed(s.pendingValidation, k)
<1>0. s \in Service
    BY DEF Good
<1>1. /\ d \in Service /\ Once(d.pendingValidation)
      /\ d.ledgerHistory = s.ledgerHistory /\ d.closedLedger = s.closedLedger
      /\ d.openLedger = s.openLedger
      /\ d.pendingLedgerValidations = s.pendingLedgerValidations
      /\ d.heldAdoptions = s.heldAdoptions /\ d.needsInitialSync = s.needsInitialSync
  <2>1. CASE ~Stashes(s.pendingValidation, l)
      BY <1>0, <2>1 DEF drainPendingValidation, Good
  <2>2. CASE Stashes(s.pendingValidation, l)
    <3>1. s.pendingValidation \in Seq(Ledgers)
        BY <1>0 DEF Service
    <3>2. k \in 1..Len(s.pendingValidation)
        BY <2>2, <3>1 DEF Stashes
    <3> HIDE DEF k
    <3>3. t \in Seq(Ledgers) /\ Once(t)
        BY <3>1, <3>2, RemovedKeepsOnce DEF Good
    <3>4. d = [s EXCEPT !.pendingValidation = t]
        BY <1>0, <2>2 DEF drainPendingValidation, k, Service
    <3> HIDE DEF t, d
    <3> QED
        BY <1>0, <3>3, <3>4 DEF Service
  <2> QED
      BY <2>1, <2>2
<1> HIDE DEF d
<1> DEFINE r == [d EXCEPT !.validatedLedger = l]
<1>2. /\ r \in Service /\ r.validatedLedger = l
      /\ r.pendingValidation = d.pendingValidation
      /\ r.ledgerHistory = d.ledgerHistory /\ r.closedLedger = d.closedLedger
      /\ r.openLedger = d.openLedger
      /\ r.pendingLedgerValidations = d.pendingLedgerValidations
      /\ r.heldAdoptions = d.heldAdoptions /\ r.needsInitialSync = d.needsInitialSync
    BY <1>1 DEF Service
<1> HIDE DEF r
<1>3. Good(r) /\ SameChain(r, s)
    BY <1>1, <1>2 DEF Good, Filed, SameChain
<1> QED
    BY <1>1, <1>2, <1>3 DEF r, d

(* A drained quorum is published once: it was not, and its entry is gone.   *)
LEMMA DrainGood ==
    ASSUME NEW s, Good(s), NEW l \in Ledgers, NEW known, NEW told, Backed(s, known, told)
    PROVE  LET r == drainPendingLedgerValidation(s, l) IN
           /\ Good(r) /\ SameChain(r, s)
           /\ Backed(r, known, told)
           /\ Promotes(s, l) => l \in known \ told /\ Backed(r, known, told \cup {l})
<1> DEFINE q == s.pendingLedgerValidations
           k == CHOOSE k \in StashedAt(s, Sequence(l)) : TRUE
           t == Removed(q, k)
           v == IF Promotes(s, l) THEN l ELSE s.validatedLedger
           r == [s EXCEPT !.pendingLedgerValidations = t, !.validatedLedger = v]
<1>0. s \in Service /\ q \in Seq(Stashed) /\ OncePerSeq(q)
    BY DEF Good, Service
<1>1. Promotes(s, l) => l \in known \ told /\ StashedAt(s, Sequence(l)) # {}
    BY <1>0 DEF Promotes, StashedAt, Backed
<1>2. CASE StashedAt(s, Sequence(l)) = {}
    BY <1>1, <1>2 DEF drainPendingLedgerValidation, SameChain
<1>3. CASE StashedAt(s, Sequence(l)) # {}
  <2>1. k \in StashedAt(s, Sequence(l))
      BY <1>3
  <2>2. k \in 1..Len(q) /\ Sequence(q[k].hash) = Sequence(l)
      BY <1>0, <2>1 DEF StashedAt
  <2>3. drainPendingLedgerValidation(s, l) = r
      BY <1>0, <1>3 DEF drainPendingLedgerValidation, Service
  <2> HIDE DEF k
  <2>4. /\ t \in Seq(Stashed) /\ OncePerSeq(t)
        /\ \A i \in 1..Len(t) : /\ Sequence(t[i].hash) # Sequence(l)
                                /\ \E j \in 1..Len(q) : t[i] = q[j]
    <3> HIDE DEF q
    <3>1. /\ t \in Seq(Stashed) /\ OncePerSeq(t)
          /\ \A i \in 1..Len(t) : /\ Sequence(t[i].hash) # Sequence(q[k].hash)
                                  /\ \E j \in 1..Len(q) : t[i] = q[j]
        BY <1>0, <2>2, RemovedDropsSeq
    <3> QED
        BY <2>2, <3>1
  <2>5. v \in Ledgers /\ v \in known \cup {Genesis}
      BY <1>0, <1>1 DEF Service, Backed
  <2> HIDE DEF t, v
  <2>6. /\ r \in Service /\ r.pendingLedgerValidations = t /\ r.validatedLedger = v
        /\ r.ledgerHistory = s.ledgerHistory /\ r.closedLedger = s.closedLedger
        /\ r.openLedger = s.openLedger
        /\ r.pendingValidation = s.pendingValidation
        /\ r.heldAdoptions = s.heldAdoptions /\ r.needsInitialSync = s.needsInitialSync
      BY <1>0, <2>4, <2>5 DEF Service
  <2> HIDE DEF r
  <2>7. Good(r) /\ SameChain(r, s)
      BY <2>4, <2>6 DEF Good, Filed, SameChain
  <2>8. \A i \in 1..Len(t) : t[i].hash \in known \ (told \cup {l})
      BY <2>4 DEF Backed
  <2>9. Backed(r, known, told) /\ Backed(r, known, told \cup {l})
      BY <2>5, <2>6, <2>8 DEF Backed
  <2> QED
      BY <1>1, <2>3, <2>7, <2>9
<1> QED
    BY <1>2, <1>3

(* A quorum reported before its ledger is here waits for it.                *)
LEMMA StashQuorumGood ==
    ASSUME NEW s, Good(s), NEW l \in Ledgers, NEW known, NEW told,
           Backed(s, known, told), l \notin told
    PROVE  LET r == stashPendingLedgerValidation(s, l) IN
           Good(r) /\ SameChain(r, s) /\ Backed(r, known \cup {l}, told)
<1> DEFINE q == s.pendingLedgerValidations
           x == [hash |-> l, age |-> 0]
           old == StashedAt(s, Sequence(l))
           t == IF old # {} THEN [i \in DOMAIN q |-> IF i \in old THEN x ELSE q[i]]
                            ELSE Trim(Append(q, x))
           r == [s EXCEPT !.pendingLedgerValidations = t]
<1>0. s \in Service /\ q \in Seq(Stashed) /\ OncePerSeq(q)
    BY DEF Good, Service
<1>1. x \in Stashed /\ x.hash = l
    BY Limits DEF Stashed
<1>2. r = stashPendingLedgerValidation(s, l)
    BY <1>0 DEF stashPendingLedgerValidation, Service
<1>3. \A i \in 1..Len(q) : i \in old <=> Sequence(q[i].hash) = Sequence(l)
    BY <1>0 DEF StashedAt
<1> HIDE DEF x, old, q
<1>4. /\ t \in Seq(Stashed) /\ OncePerSeq(t)
      /\ \A i \in 1..Len(t) : t[i] = x \/ \E j \in 1..Len(q) : t[i] = q[j]
  <2>1. CASE old = {}
    <3>1. t = Trim(Append(q, x))
        BY <2>1
    <3> HIDE DEF t
    <3>2. \A i \in 1..Len(q) : Sequence(q[i].hash) # Sequence(x.hash)
        BY <1>1, <1>3, <2>1
    <3> QED
        BY <1>0, <1>1, <3>1, <3>2, TrimmedOncePerSeq
  <2>2. CASE old # {}
    <3>1. t = [i \in 1..Len(q) |-> IF i \in old THEN x ELSE q[i]]
        BY <1>0, <2>2
    <3> HIDE DEF t
    <3>2. t \in Seq(Stashed) /\ Len(t) = Len(q)
        BY <1>0, <1>1, <3>1
    <3>3. \A i \in 1..Len(q) : Sequence(t[i].hash) = Sequence(q[i].hash)
        BY <1>0, <1>1, <1>3, <3>1
    <3>4. OncePerSeq(t)
        BY <1>0, <3>2, <3>3 DEF OncePerSeq
    <3> QED
        BY <1>0, <3>1, <3>2, <3>4
  <2> QED
      BY <2>1, <2>2
<1> HIDE DEF t
<1>5. /\ r \in Service /\ r.pendingLedgerValidations = t
      /\ r.validatedLedger = s.validatedLedger
      /\ r.ledgerHistory = s.ledgerHistory /\ r.closedLedger = s.closedLedger
      /\ r.openLedger = s.openLedger
      /\ r.pendingValidation = s.pendingValidation
      /\ r.heldAdoptions = s.heldAdoptions /\ r.needsInitialSync = s.needsInitialSync
    BY <1>0, <1>4 DEF Service
<1> HIDE DEF r
<1>6. Good(r) /\ SameChain(r, s)
    BY <1>4, <1>5 DEF Good, Filed, SameChain
<1>7. \A i \in 1..Len(t) : t[i].hash \in (known \cup {l}) \ told
    BY <1>1, <1>4 DEF Backed, q
<1>8. Backed(r, known \cup {l}, told)
    BY <1>5, <1>7 DEF Backed
<1> QED
    BY <1>2, <1>6, <1>8

(* What an operation on the held adoptions leaves alone.                    *)
SameButHeld(r, s) ==
    /\ SameChain(r, s)
    /\ r.pendingLedgerValidations = s.pendingLedgerValidations
    /\ r.pendingValidation = s.pendingValidation
    /\ r.validatedLedger = s.validatedLedger

LEMMA HeldGood ==
    ASSUME NEW s, Good(s), NEW h \in [Seqs -> Held \cup {None}],
           \A q \in Seqs : h[q] # None => Sequence(h[q].ledger) = q + 1
    PROVE  LET r == [s EXCEPT !.heldAdoptions = h] IN
           Good(r) /\ SameButHeld(r, s) /\ r.heldAdoptions = h
<1> DEFINE r == [s EXCEPT !.heldAdoptions = h]
<1>0. s \in Service
    BY DEF Good
<1>1. /\ r \in Service /\ r.heldAdoptions = h
      /\ r.ledgerHistory = s.ledgerHistory /\ r.closedLedger = s.closedLedger
      /\ r.openLedger = s.openLedger /\ r.validatedLedger = s.validatedLedger
      /\ r.pendingValidation = s.pendingValidation
      /\ r.pendingLedgerValidations = s.pendingLedgerValidations
      /\ r.needsInitialSync = s.needsInitialSync
    BY <1>0 DEF Service
<1> HIDE DEF r
<1>2. Good(r) /\ SameButHeld(r, s)
    BY <1>1 DEF Good, Filed, SameButHeld, SameChain
<1> QED
    BY <1>1, <1>2 DEF r

LEMMA EvictGood ==
    ASSUME NEW s, Good(s)
    PROVE  LET r == evictExpiredHeldAdoptions(s) IN Good(r) /\ SameButHeld(r, s)
<1> DEFINE g == s.heldAdoptions
           h == [q \in Seqs |-> IF g[q] # None /\ g[q].age >= HeldTTL THEN None ELSE g[q]]
<1>1. g \in [Seqs -> Held \cup {None}]
    BY DEF Good, Service
<1>2. /\ h \in [Seqs -> Held \cup {None}]
      /\ \A q \in Seqs : h[q] # None => Sequence(h[q].ledger) = q + 1
    BY <1>1 DEF Good, Filed
<1>3. evictExpiredHeldAdoptions(s) = [s EXCEPT !.heldAdoptions = h]
    BY DEF evictExpiredHeldAdoptions, Good, Service
<1> HIDE DEF h
<1> QED
    BY <1>2, <1>3, HeldGood

-----------------------------------------------------------------------------
(* Adoption.                                                                *)

(* The history has nothing of another chain just below the closed ledger.   *)
Chained(s) ==
    s.ledgerHistory[Sequence(s.closedLedger) - 1] \in {None, ParentOf(s.closedLedger)}

LEMMA FixMismatchGood ==
    ASSUME NEW s, Good(s), NEW l \in PeerLedgers
    PROVE  LET r == fixMismatch(s, l) IN
           /\ r \in Service
           /\ r.ledgerHistory[Sequence(l) - 1] \in {None, ParentOf(l)}
           /\ \A q \in Seqs : r.ledgerHistory[q] \in {None, s.ledgerHistory[q]}
           /\ r.closedLedger = s.closedLedger /\ r.validatedLedger = s.validatedLedger
           /\ r.openLedger = s.openLedger
           /\ r.pendingValidation = s.pendingValidation
           /\ r.pendingLedgerValidations = s.pendingLedgerValidations
           /\ r.heldAdoptions = s.heldAdoptions
<1> DEFINE g == s.ledgerHistory
           h == [q \in Seqs |-> IF \/ q = Sequence(l) - 1
                                   \/ q = Sequence(l) /\ g[q] # l
                                   \/ q > Sequence(l)
                                THEN None ELSE g[q]]
           r == [s EXCEPT !.ledgerHistory = h]
<1>0. s \in Service /\ g \in [Seqs -> Ledgers \cup {None}] /\ Sequence(l) - 1 \in Seqs
    BY OutsideLedgers DEF Good, Service
<1>1. CASE g[Sequence(l) - 1] \in {None, ParentOf(l)}
    BY <1>0, <1>1 DEF fixMismatch
<1>2. CASE g[Sequence(l) - 1] \notin {None, ParentOf(l)}
  <2>1. fixMismatch(s, l) = r
      BY <1>0, <1>2 DEF fixMismatch, Service
  <2>2. /\ h \in [Seqs -> Ledgers \cup {None}] /\ h[Sequence(l) - 1] = None
        /\ \A q \in Seqs : h[q] \in {None, g[q]}
      BY <1>0
  <2> HIDE DEF h
  <2>3. /\ r \in Service /\ r.ledgerHistory = h
        /\ r.closedLedger = s.closedLedger /\ r.validatedLedger = s.validatedLedger
        /\ r.openLedger = s.openLedger
        /\ r.pendingValidation = s.pendingValidation
        /\ r.pendingLedgerValidations = s.pendingLedgerValidations
        /\ r.heldAdoptions = s.heldAdoptions
      BY <1>0, <2>2 DEF Service
  <2> HIDE DEF r
  <2> QED
      BY <2>1, <2>2, <2>3
<1> QED
    BY <1>1, <1>2

(* A ledger becomes the closed ledger and enters the history.               *)
Installed(r, s, l) ==
    /\ r \in Service
    /\ r.closedLedger = l
    /\ r.ledgerHistory = [s.ledgerHistory EXCEPT ![Sequence(l)] = l]
    /\ r.validatedLedger = s.validatedLedger
    /\ r.pendingValidation = s.pendingValidation
    /\ r.pendingLedgerValidations = s.pendingLedgerValidations
    /\ r.heldAdoptions = s.heldAdoptions

LEMMA InstallGood ==
    ASSUME NEW s \in Service, NEW l \in Ledgers, Sequence(l) \in Seqs,
           Once(s.pendingValidation), OncePerSeq(s.pendingLedgerValidations),
           \A q \in Seqs : s.ledgerHistory[q] # None => Sequence(s.ledgerHistory[q]) = q,
           \A q \in Seqs : s.heldAdoptions[q] # None =>
                              Sequence(s.heldAdoptions[q].ledger) = q + 1,
           NEW r, Installed(r, s, l)
    PROVE  Good(r) /\ r.ledgerHistory[Sequence(l)] = l
<1> DEFINE h == [s.ledgerHistory EXCEPT ![Sequence(l)] = l]
<1>1. /\ h[Sequence(l)] = l
      /\ \A q \in Seqs : h[q] # None => Sequence(h[q]) = q
    BY DEF Service
<1>2. r.ledgerHistory = h
    BY DEF Installed
<1> HIDE DEF h
<1> QED
    BY <1>1, <1>2 DEF Good, Filed, Installed

LEMMA InstallIs ==
    ASSUME NEW s \in Service, NEW l \in Ledgers, Sequence(l) \in Seqs
    PROVE  /\ Installed([s EXCEPT !.closedLedger = l, !.ledgerHistory[Sequence(l)] = l], s, l)
           /\ Installed([s EXCEPT !.closedLedger = l, !.ledgerHistory[Sequence(l)] = l,
                                  !.needsInitialSync = FALSE], s, l)
<1> DEFINE h == [s.ledgerHistory EXCEPT ![Sequence(l)] = l]
           a == [s EXCEPT !.closedLedger = l, !.ledgerHistory = h]
           b == [s EXCEPT !.closedLedger = l, !.ledgerHistory = h, !.needsInitialSync = FALSE]
<1>1. h \in [Seqs -> Ledgers \cup {None}]
    BY DEF Service
<1>2. /\ [s EXCEPT !.closedLedger = l, !.ledgerHistory[Sequence(l)] = l] = a
      /\ [s EXCEPT !.closedLedger = l, !.ledgerHistory[Sequence(l)] = l,
                   !.needsInitialSync = FALSE] = b
    BY DEF Service
<1> HIDE DEF h
<1>3. a \in Service /\ b \in Service
    BY <1>1 DEF Service
<1>4. Installed(a, s, l) /\ Installed(b, s, l)
    BY <1>1, <1>3 DEF Service, Installed, h
<1> QED
    BY <1>2, <1>4

LEMMA OpenOnTip ==
    ASSUME NEW s, Good(s), s.ledgerHistory[Sequence(s.closedLedger)] = s.closedLedger
    PROVE  LET r == [s EXCEPT !.openLedger = NewOpen(s.closedLedger)] IN
           /\ Good(r) /\ Tip(r) /\ r.closedLedger = s.closedLedger
           /\ r.ledgerHistory = s.ledgerHistory
           /\ r.pendingLedgerValidations = s.pendingLedgerValidations
           /\ r.validatedLedger = s.validatedLedger
<1> DEFINE o == NewOpen(s.closedLedger)
           r == [s EXCEPT !.openLedger = o]
<1>0. s \in Service
    BY DEF Good
<1>1. o \in [parent : Ledgers, effects : SUBSET Txs, closed : BOOLEAN]
      /\ o.parent = s.closedLedger
    BY <1>0 DEF NewOpen, Service
<1> HIDE DEF o
<1>2. /\ r \in Service /\ r.openLedger = o
      /\ r.closedLedger = s.closedLedger /\ r.ledgerHistory = s.ledgerHistory
      /\ r.validatedLedger = s.validatedLedger
      /\ r.pendingValidation = s.pendingValidation
      /\ r.pendingLedgerValidations = s.pendingLedgerValidations
      /\ r.heldAdoptions = s.heldAdoptions
    BY <1>0, <1>1 DEF Service
<1> HIDE DEF r
<1>3. Good(r) /\ Tip(r)
    BY <1>1, <1>2 DEF Good, Filed, Tip
<1> QED
    BY <1>2, <1>3 DEF r, o

(* An operation under way: the record and the events it will publish.       *)
Ready(r) ==
    /\ r \in [svc : Service, events : SUBSET quorumed]
    /\ Good(r.svc)
    /\ r.events \subseteq quorumed \ published
    /\ Backed(r.svc, quorumed, published \cup r.events)

(* The end of every operation that installs a closed ledger: its quorum     *)
(* was waiting for it, or its event waits for the quorum.                   *)
LEMMA InstalledReady ==
    ASSUME NEW s, Good(s), NEW l \in Ledgers,
           s.closedLedger = l, s.ledgerHistory[Sequence(l)] = l,
           NEW ev, ev \subseteq quorumed \ published,
           Backed(s, quorumed, published \cup ev)
    PROVE  LET d == [drainPendingLedgerValidation(s, l) EXCEPT !.openLedger = NewOpen(l)]
               a == IF Promotes(s, l) THEN [svc |-> d, events |-> ev \cup {l}]
                    ELSE [svc |-> stashPendingValidation(d, l), events |-> ev]
           IN /\ Ready(a) /\ Tip(a.svc)
              /\ a.svc.closedLedger = l /\ a.svc.ledgerHistory = s.ledgerHistory
<1> DEFINE n == drainPendingLedgerValidation(s, l)
           d == [n EXCEPT !.openLedger = NewOpen(l)]
           c == stashPendingValidation(d, l)
           told == published \cup ev
<1>1. /\ Good(n) /\ SameChain(n, s) /\ Backed(n, quorumed, told)
      /\ Promotes(s, l) => l \in quorumed \ told /\ Backed(n, quorumed, told \cup {l})
    BY DrainGood
<1> HIDE DEF n
<1>2. /\ Good(d) /\ Tip(d) /\ d.closedLedger = l /\ d.ledgerHistory = s.ledgerHistory
      /\ d.pendingLedgerValidations = n.pendingLedgerValidations
      /\ d.validatedLedger = n.validatedLedger
    BY <1>1, OpenOnTip DEF SameChain
<1> HIDE DEF d
<1>3. /\ Good(c) /\ SameChain(c, d)
      /\ c.pendingLedgerValidations = d.pendingLedgerValidations
      /\ c.validatedLedger = d.validatedLedger
    BY <1>2, StashGood
<1> HIDE DEF c
<1>4. CASE Promotes(s, l)
  <2> DEFINE a == [svc |-> d, events |-> ev \cup {l}]
  <2>1. l \in quorumed \ told /\ Backed(d, quorumed, told \cup {l})
      BY <1>1, <1>2, <1>4 DEF Backed
  <2>2. a \in [svc : Service, events : SUBSET quorumed] /\ a.svc = d /\ a.events = ev \cup {l}
      BY <1>2, <2>1 DEF Good
  <2>3. published \cup (ev \cup {l}) = told \cup {l}
      OBVIOUS
  <2> HIDE DEF told
  <2>4. Ready(a)
      BY <1>2, <2>1, <2>2, <2>3 DEF Ready, told
  <2> QED
      BY <1>2, <1>4, <2>2, <2>4 DEF d, n
<1>5. CASE ~Promotes(s, l)
  <2> DEFINE a == [svc |-> c, events |-> ev]
  <2>1. Backed(c, quorumed, told)
      BY <1>1, <1>2, <1>3 DEF Backed
  <2>2. a \in [svc : Service, events : SUBSET quorumed] /\ a.svc = c /\ a.events = ev
      BY <1>3 DEF Good
  <2>3. Ready(a)
      BY <1>3, <2>1, <2>2 DEF Ready
  <2>4. Tip(c) /\ c.closedLedger = l /\ c.ledgerHistory = s.ledgerHistory
      BY <1>2, <1>3 DEF Tip, SameChain
  <2> QED
      BY <1>5, <2>2, <2>3, <2>4 DEF c, d, n
<1> QED
    BY <1>4, <1>5

LEMMA AdoptOneReady ==
    ASSUME NEW r, Ready(r), NEW l \in PeerLedgers
    PROVE  LET a == adoptOne(r, l) IN Ready(a) /\ Tip(a.svc) /\ Chained(a.svc)
<1> DEFINE f == fixMismatch(r.svc, l)
           s == [f EXCEPT !.closedLedger = l, !.ledgerHistory[Sequence(l)] = l,
                          !.needsInitialSync = FALSE]
           d == [drainPendingLedgerValidation(s, l) EXCEPT !.openLedger = NewOpen(l)]
           a == IF Promotes(s, l) THEN [svc |-> d, events |-> r.events \cup {l}]
                ELSE [svc |-> stashPendingValidation(d, l), events |-> r.events]
<1>0. l \in Ledgers /\ Sequence(l) \in Seqs /\ Sequence(l) - 1 \in Seqs
    BY OutsideLedgers
<1>1. /\ Good(r.svc) /\ Backed(r.svc, quorumed, published \cup r.events)
      /\ r.events \subseteq quorumed \ published
    BY DEF Ready
<1>2. /\ f \in Service
      /\ f.ledgerHistory[Sequence(l) - 1] \in {None, ParentOf(l)}
      /\ \A q \in Seqs : f.ledgerHistory[q] \in {None, r.svc.ledgerHistory[q]}
      /\ f.validatedLedger = r.svc.validatedLedger
      /\ f.pendingValidation = r.svc.pendingValidation
      /\ f.pendingLedgerValidations = r.svc.pendingLedgerValidations
      /\ f.heldAdoptions = r.svc.heldAdoptions
    BY <1>1, FixMismatchGood
<1>3. adoptOne(r, l) = a
    BY DEF adoptOne
<1> HIDE DEF f
<1>4. Installed(s, f, l)
    BY <1>0, <1>2, InstallIs
<1>5. /\ Once(f.pendingValidation) /\ OncePerSeq(f.pendingLedgerValidations)
      /\ \A q \in Seqs : f.ledgerHistory[q] # None => Sequence(f.ledgerHistory[q]) = q
      /\ \A q \in Seqs : f.heldAdoptions[q] # None =>
                            Sequence(f.heldAdoptions[q].ledger) = q + 1
    BY <1>1, <1>2 DEF Good, Filed
<1> HIDE DEF s
<1>6. Good(s) /\ s.ledgerHistory[Sequence(l)] = l
    BY <1>0, <1>2, <1>4, <1>5, InstallGood
<1>7. s.closedLedger = l /\ s.ledgerHistory = [f.ledgerHistory EXCEPT ![Sequence(l)] = l]
    BY <1>4 DEF Installed
<1>8. s.ledgerHistory[Sequence(l) - 1] \in {None, ParentOf(l)}
    BY <1>0, <1>2, <1>7, Limits DEF Service, Seqs
<1>9. Backed(s, quorumed, published \cup r.events)
    BY <1>1, <1>2, <1>4 DEF Backed, Installed
<1>10. /\ Ready(a) /\ Tip(a.svc)
       /\ a.svc.closedLedger = l /\ a.svc.ledgerHistory = s.ledgerHistory
    BY <1>0, <1>1, <1>6, <1>7, <1>9, InstalledReady
<1> HIDE DEF a
<1> QED
    BY <1>3, <1>8, <1>10 DEF Chained

(* One hop keeps all that an adoption establishes.                          *)
Settled(r) == Ready(r) /\ Tip(r.svc) /\ Chained(r.svc)

LEMMA HopSettled ==
    ASSUME NEW r, Settled(r)
    PROVE  Settled(cascadeHop(r))
<1> DEFINE s == evictExpiredHeldAdoptions(r.svc)
           q == Sequence(s.closedLedger)
           held == s.heldAdoptions[q]
           h == [s.heldAdoptions EXCEPT ![q] = None]
           t == [s EXCEPT !.heldAdoptions = h]
<1>0. r \in [svc : Service, events : SUBSET quorumed] /\ Good(r.svc)
    BY DEF Settled, Ready
<1>1. Good(s) /\ SameButHeld(s, r.svc)
    BY <1>0, EvictGood
<1>2. s \in Service /\ q \in Seqs /\ held \in Held \cup {None}
    BY <1>1 DEF Good, Filed, Service
<1>3. ASSUME NEW x, Good(x), SameButHeld(x, r.svc)
      PROVE  Settled([r EXCEPT !.svc = x])
  <2> DEFINE y == [r EXCEPT !.svc = x]
  <2>1. x \in Service
      BY <1>3 DEF Good
  <2>2. y \in [svc : Service, events : SUBSET quorumed] /\ y.svc = x /\ y.events = r.events
      BY <1>0, <2>1
  <2> HIDE DEF y
  <2>3. Ready(y)
      BY <1>3, <2>2 DEF Settled, Ready, Backed, SameButHeld
  <2>4. Tip(y.svc) /\ Chained(y.svc)
      BY <1>3, <2>2 DEF Settled, Tip, Chained, SameButHeld, SameChain
  <2> QED
      BY <2>3, <2>4 DEF Settled, y
<1>4. Good(t) /\ SameButHeld(t, r.svc)
  <2>1. /\ h \in [Seqs -> Held \cup {None}]
        /\ \A i \in Seqs : h[i] # None => Sequence(h[i].ledger) = i + 1
      BY <1>1, <1>2 DEF Good, Filed, Service
  <2> HIDE DEF h
  <2>2. Good(t) /\ SameButHeld(t, s)
      BY <1>1, <2>1, HeldGood
  <2> HIDE DEF t
  <2> QED
      BY <1>1, <2>2 DEF SameButHeld, SameChain
<1>5. t = [s EXCEPT !.heldAdoptions[q] = None]
    BY <1>2 DEF Service
<1>6. CASE held = None
    BY <1>1, <1>3, <1>6 DEF cascadeHop
<1>7. CASE held # None /\ ParentOf(held.ledger) # s.closedLedger
  <2>1. cascadeHop(r) = [r EXCEPT !.svc = t]
      BY <1>5, <1>7 DEF cascadeHop
  <2> QED
      BY <1>3, <1>4, <2>1
<1>8. CASE held # None /\ ParentOf(held.ledger) = s.closedLedger
  <2> DEFINE y == [r EXCEPT !.svc = t]
  <2>1. cascadeHop(r) = adoptOne(y, held.ledger)
      BY <1>5, <1>8 DEF cascadeHop
  <2>2. held.ledger \in PeerLedgers
      BY <1>2, <1>8 DEF Held
  <2>3. Ready(y)
      BY <1>3, <1>4 DEF Settled
  <2> HIDE DEF y, held
  <2> QED
      BY <2>1, <2>2, <2>3, AdoptOneReady DEF Settled
<1> QED
    BY <1>6, <1>7, <1>8

(* The whole adoption, with as many held ledgers as it releases.            *)
LEMMA AdoptionSettled ==
    ASSUME NEW s, Ready([svc |-> s, events |-> {}]), NEW l \in PeerLedgers
    PROVE  Settled(adoptLedgerWithState(s, l))
<1> DEFINE first == adoptOne([svc |-> s, events |-> {}], l)
           S == {i \in Nat : Settled(Cascade!Loop(l, first, i))}
<1>1. Settled(first)
    BY AdoptOneReady DEF Settled
<1> HIDE DEF first
<1>2. 0 \in S
    BY <1>1, Cascade!LoopTurns
<1>3. ASSUME NEW i \in S
      PROVE  i + 1 \in S
  <2>1. Cascade!Loop(l, first, i + 1) = cascadeHop(Cascade!Loop(l, first, i))
      BY Cascade!LoopTurns DEF cascadeAt
  <2> QED
      BY <2>1, HopSettled
<1> HIDE DEF S
<1>4. S = Nat
    BY <1>2, <1>3, Cascade!TurnByTurn DEF S
<1> QED
    BY <1>4, Limits DEF S, adoptLedgerWithState, first

-----------------------------------------------------------------------------
(* The operations.                                                          *)

ChainStep ==
    LET l == svc'.closedLedger IN
    /\ l # svc.closedLedger
    /\ ~svc.needsInitialSync
    /\ result' = result
    /\ ~svc'.openLedger.closed
    => svc'.ledgerHistory[Sequence(l) - 1] \in {None, ParentOf(l)}

StepKept == SInv' /\ ChainStep

LEMMA SInvReady ==
    ASSUME SInv, NEW s, Good(s), Backed(s, quorumed, published)
    PROVE  Ready([svc |-> s, events |-> {}])
<1> DEFINE r == [svc |-> s, events |-> {}]
<1>1. r \in [svc : Service, events : SUBSET quorumed] /\ r.svc = s /\ r.events = {}
    BY DEF Good
<1>2. published \cup {} = published
    OBVIOUS
<1> HIDE DEF r
<1>3. Ready(r)
    BY <1>1, <1>2 DEF Ready
<1> QED
    BY <1>3 DEF r

LEMMA BecomesKept ==
    ASSUME SInv, NEW r, Ready(r), Tip(r.svc), Becomes(r), quorumed' = quorumed,
           prevLedger' \in Ledgers, Sequence(prevLedger') \in Seqs
    PROVE  SInv'
<1>1. /\ svc' = r.svc /\ published' = published \cup r.events
      /\ r.events \subseteq quorumed \ published /\ twice' = {}
    BY DEF Becomes, Ready, SInv
<1>2. Good(svc') /\ Tip(svc') /\ Backed(svc', quorumed', published')
    BY <1>1 DEF Ready
<1>3. published' \subseteq quorumed'
    BY <1>1 DEF SInv
<1> QED
    BY <1>1, <1>2, <1>3 DEF SInv

(* A step that touches only the stashes, or the effects of the open ledger. *)
LEMMA QuietKept ==
    ASSUME SInv, NEW s, Good(s), Tip(s), s.closedLedger = svc.closedLedger,
           s.pendingLedgerValidations = svc.pendingLedgerValidations,
           s.validatedLedger = svc.validatedLedger,
           svc' = s, UNCHANGED <<prevLedger, history>>
    PROVE  StepKept
<1>1. /\ quorumed' = quorumed /\ published' = published /\ twice' = twice
      /\ prevLedger' = prevLedger
    BY DEF history
<1>2. Backed(svc', quorumed', published')
    BY <1>1 DEF SInv, Backed
<1> QED
    BY <1>1, <1>2 DEF SInv, StepKept, ChainStep

LEMMA OpenGood ==
    ASSUME NEW s, Good(s), NEW o \in [parent : Ledgers, effects : SUBSET Txs, closed : BOOLEAN],
           o.parent = s.closedLedger, s.ledgerHistory[Sequence(s.closedLedger)] = s.closedLedger
    PROVE  LET r == [s EXCEPT !.openLedger = o] IN
           /\ Good(r) /\ Tip(r) /\ r.openLedger = o /\ r.closedLedger = s.closedLedger
           /\ r.ledgerHistory = s.ledgerHistory
           /\ r.pendingLedgerValidations = s.pendingLedgerValidations
           /\ r.validatedLedger = s.validatedLedger
<1> DEFINE r == [s EXCEPT !.openLedger = o]
<1>0. s \in Service
    BY DEF Good
<1>1. /\ r \in Service /\ r.openLedger = o
      /\ r.closedLedger = s.closedLedger /\ r.ledgerHistory = s.ledgerHistory
      /\ r.validatedLedger = s.validatedLedger
      /\ r.pendingValidation = s.pendingValidation
      /\ r.pendingLedgerValidations = s.pendingLedgerValidations
      /\ r.heldAdoptions = s.heldAdoptions
    BY <1>0 DEF Service
<1> HIDE DEF r
<1>2. Good(r) /\ Tip(r)
    BY <1>1 DEF Good, Filed, Tip
<1> QED
    BY <1>1, <1>2 DEF r

LEMMA SubmitTransactionKept ==
    ASSUME SInv, NEW t \in Txs, SubmitTransaction(t)
    PROVE  StepKept
<1> DEFINE o == [svc.openLedger EXCEPT !.effects = @ \cup {t}]
           s == [svc EXCEPT !.openLedger = o]
<1>0. svc \in Service /\ Good(svc) /\ Tip(svc)
    BY DEF SInv, Good
<1>1. svc' = s /\ UNCHANGED <<prevLedger, history>>
    BY <1>0 DEF SubmitTransaction, Service
<1>2. o \in [parent : Ledgers, effects : SUBSET Txs, closed : BOOLEAN]
      /\ o.parent = svc.openLedger.parent
    BY <1>0 DEF Service
<1> HIDE DEF o
<1>3. /\ Good(s) /\ Tip(s) /\ s.closedLedger = svc.closedLedger
      /\ s.pendingLedgerValidations = svc.pendingLedgerValidations
      /\ s.validatedLedger = svc.validatedLedger
    BY <1>0, <1>2, OpenGood DEF Tip
<1> HIDE DEF s
<1> QED
    BY <1>1, <1>3, QuietKept

LEMMA SwitchLedgerKept ==
    ASSUME SInv, NEW q \in Seqs, SwitchLedger(svc.ledgerHistory[q])
    PROVE  StepKept
<1>1. /\ svc.ledgerHistory[q] \in Ledgers /\ Sequence(svc.ledgerHistory[q]) = q
      /\ svc' = svc /\ prevLedger' = svc.ledgerHistory[q]
      /\ quorumed' = quorumed /\ published' = published /\ twice' = twice
    BY DEF SInv, SwitchLedger, history, Good, Filed, Service
<1> QED
    BY <1>1 DEF SInv, StepKept, ChainStep

LEMMA AdoptLedgerWithStateKept ==
    ASSUME SInv, NEW l \in PeerLedgers, NEW s, Good(s), Backed(s, quorumed, published),
           Becomes(adoptLedgerWithState(s, l)), UNCHANGED <<prevLedger, quorumed, result>>
    PROVE  StepKept
<1> DEFINE r == adoptLedgerWithState(s, l)
<1>1. Settled(r)
    BY SInvReady, AdoptionSettled
<1> HIDE DEF r
<1>2. SInv'
    BY <1>1, BecomesKept DEF Settled, SInv, r
<1>3. Chained(svc')
    BY <1>1 DEF Settled, Becomes, r
<1> QED
    BY <1>2, <1>3 DEF StepKept, ChainStep, Chained

LEMMA SubmitHeldAdoptionKept ==
    ASSUME SInv, NEW l \in PeerLedgers, SubmitHeldAdoption(l)
    PROVE  StepKept
<1> DEFINE s == evictExpiredHeldAdoptions(svc)
           parent == s.ledgerHistory[Sequence(l) - 1]
           x == [ledger |-> l, age |-> 0]
           h == [s.heldAdoptions EXCEPT ![Sequence(l) - 1] = x]
           t == [s EXCEPT !.heldAdoptions = h]
<1>0. Good(svc) /\ Tip(svc) /\ Backed(svc, quorumed, published)
    BY DEF SInv
<1>1. Good(s) /\ SameButHeld(s, svc)
    BY <1>0, EvictGood
<1>2. Tip(s) /\ Backed(s, quorumed, published)
    BY <1>0, <1>1 DEF Tip, Backed, SameButHeld, SameChain
<1>3. Becomes(submitHeldAdoption(s, l)) /\ UNCHANGED <<prevLedger, quorumed, result>>
    BY DEF SubmitHeldAdoption
<1> HIDE DEF s
<1>4. ASSUME NEW r, Good(r), SameButHeld(r, s), Becomes([svc |-> r, events |-> {}])
      PROVE  StepKept
  <2>1. /\ svc' = r /\ published' = published /\ twice' = twice
      BY <1>4 DEF Becomes
  <2>2. Tip(r) /\ Backed(r, quorumed, published) /\ r.closedLedger = svc.closedLedger
      BY <1>1, <1>2, <1>4 DEF Tip, Backed, SameButHeld, SameChain
  <2> QED
      BY <1>3, <1>4, <2>1, <2>2 DEF SInv, StepKept, ChainStep
<1>5. CASE parent = None /\ submitHeldAdoption(s, l) =
               [svc |-> [s EXCEPT !.heldAdoptions[Sequence(l) - 1] = x], events |-> {}]
  <2>1. l \in Ledgers /\ Sequence(l) \in Nat /\ Sequence(l) - 1 \in Seqs /\ s \in Service
      BY <1>1, OutsideLedgers DEF Good, Seqs
  <2>2. t = [s EXCEPT !.heldAdoptions[Sequence(l) - 1] = x]
      BY <2>1 DEF Service
  <2>3. x \in Held /\ x.ledger = l
      BY Limits DEF Held
  <2> HIDE DEF x
  <2>4. /\ h \in [Seqs -> Held \cup {None}]
        /\ \A q \in Seqs : h[q] # None => Sequence(h[q].ledger) = q + 1
    <3>1. /\ s.heldAdoptions \in [Seqs -> Held \cup {None}]
          /\ \A q \in Seqs : s.heldAdoptions[q] # None =>
                                 Sequence(s.heldAdoptions[q].ledger) = q + 1
        BY <1>1 DEF Good, Filed, Service
    <3>2. /\ h \in [Seqs -> Held \cup {None}]
          /\ \A q \in Seqs : h[q] = IF q = Sequence(l) - 1 THEN x ELSE s.heldAdoptions[q]
        BY <2>1, <2>3, <3>1
    <3>3. (Sequence(l) - 1) + 1 = Sequence(l)
        BY <2>1
    <3> HIDE DEF h
    <3> QED
        BY <2>3, <3>1, <3>2, <3>3
  <2> HIDE DEF h
  <2>5. Good(t) /\ SameButHeld(t, s)
      BY <1>1, <2>4, HeldGood
  <2> HIDE DEF t
  <2> QED
      BY <1>3, <1>4, <1>5, <2>2, <2>5
<1>6. CASE submitHeldAdoption(s, l) = adoptLedgerWithState(s, l)
    BY <1>1, <1>2, <1>3, <1>6, AdoptLedgerWithStateKept
<1>7. CASE submitHeldAdoption(s, l) = [svc |-> s, events |-> {}]
  <2>1. SameButHeld(s, s)
      BY DEF SameButHeld, SameChain
  <2> QED
      BY <1>1, <1>3, <1>4, <1>7, <2>1
<1>8. \/ parent = None /\ submitHeldAdoption(s, l) =
               [svc |-> [s EXCEPT !.heldAdoptions[Sequence(l) - 1] = x], events |-> {}]
      \/ submitHeldAdoption(s, l) = adoptLedgerWithState(s, l)
      \/ submitHeldAdoption(s, l) = [svc |-> s, events |-> {}]
    BY DEF submitHeldAdoption
<1> QED
    BY <1>5, <1>6, <1>7, <1>8

LEMMA AdoptLedgerHeaderKept ==
    ASSUME SInv, NEW l \in PeerLedgers, AdoptLedgerHeader(l)
    PROVE  StepKept
<1> DEFINE i == [svc EXCEPT !.closedLedger = l, !.ledgerHistory[Sequence(l)] = l,
                            !.needsInitialSync = FALSE]
           s == [i EXCEPT !.openLedger = NewOpen(l)]
<1>0. l \in Ledgers /\ Sequence(l) \in Seqs /\ svc \in Service /\ Good(svc)
    BY OutsideLedgers DEF SInv, Good
<1>1. Installed(i, svc, l)
    BY <1>0, InstallIs
<1>2. svc' = s
    BY <1>0 DEF AdoptLedgerHeader, Service
<1> HIDE DEF i
<1>3. Good(i) /\ i.ledgerHistory[Sequence(l)] = l
    BY <1>0, <1>1, InstallGood DEF Good, Filed
<1>4. i.closedLedger = l
    BY <1>1 DEF Installed
<1>5. /\ Good(s) /\ Tip(s)
      /\ s.pendingLedgerValidations = i.pendingLedgerValidations
      /\ s.validatedLedger = i.validatedLedger
    BY <1>3, <1>4, OpenOnTip
<1> HIDE DEF s
<1>6. /\ quorumed' = quorumed /\ published' = published /\ twice' = twice
      /\ prevLedger' = prevLedger /\ svc.needsInitialSync
    BY DEF AdoptLedgerHeader, history
<1>7. Backed(svc', quorumed', published')
    BY <1>1, <1>2, <1>5, <1>6 DEF SInv, Backed, Installed
<1>8. SInv'
    BY <1>2, <1>5, <1>6, <1>7 DEF SInv
<1> QED
    BY <1>6, <1>8 DEF StepKept, ChainStep

LEMMA SetValidatedLedgerKept ==
    ASSUME SInv, NEW l \in NetworkLedgers, SetValidatedLedger(l)
    PROVE  StepKept
<1> DEFINE have == svc.ledgerHistory[Sequence(l)]
           v == [drainPendingValidation(svc, l) EXCEPT !.validatedLedger = l]
           p == stashPendingLedgerValidation(svc, l)
<1>0. l \in Ledgers /\ Sequence(l) \in Seqs /\ l # None /\ Good(svc) /\ Tip(svc)
      /\ Backed(svc, quorumed, published)
    BY OutsideLedgers DEF SInv
<1>1. /\ quorumed' = quorumed \cup {l} /\ l \notin quorumed /\ l \notin published
      /\ prevLedger' = prevLedger /\ result' = result
    BY DEF SetValidatedLedger, SInv
<1>2. /\ have = None => svc' = p /\ published' = published
      /\ have = l => svc' = v /\ published' \in {published, published \cup {l}}
      /\ have \notin {None, l} => svc' = svc /\ published' = published
      /\ twice' = {}
    BY <1>0, <1>1 DEF SetValidatedLedger, Becomes, SInv
<1>3. published' \subseteq quorumed'
    BY <1>1, <1>2 DEF SInv
<1>4. ASSUME NEW s, Good(s), SameChain(s, svc), Backed(s, quorumed', published'), svc' = s
      PROVE  StepKept
  <2>1. Tip(s) /\ s.closedLedger = svc.closedLedger
      BY <1>0, <1>4 DEF Tip, SameChain
  <2> QED
      BY <1>1, <1>2, <1>3, <1>4, <2>1 DEF SInv, StepKept, ChainStep
<1>5. CASE have = None
  <2>1. Good(p) /\ SameChain(p, svc) /\ Backed(p, quorumed \cup {l}, published)
      BY <1>0, <1>1, StashQuorumGood
  <2> HIDE DEF p
  <2> QED
      BY <1>1, <1>2, <1>4, <1>5, <2>1
<1>6. CASE have = l
  <2>1. /\ Good(v) /\ SameChain(v, svc)
        /\ v.pendingLedgerValidations = svc.pendingLedgerValidations
        /\ v.validatedLedger = l
      BY <1>0, DrainEventGood
  <2> HIDE DEF v
  <2>2. Backed(v, quorumed', published')
      BY <1>0, <1>1, <1>2, <1>6, <2>1 DEF Backed
  <2> QED
      BY <1>2, <1>4, <1>6, <2>1, <2>2
<1>7. CASE have \notin {None, l}
  <2>1. SameChain(svc, svc) /\ Backed(svc, quorumed', published')
      BY <1>0, <1>1, <1>2, <1>7 DEF SameChain, Backed
  <2> QED
      BY <1>0, <1>2, <1>4, <1>7, <2>1
<1> QED
    BY <1>5, <1>6, <1>7

LEMMA OlderIs ==
    /\ \A x \in Stashed : Older(x, PendingTTL) \in Stashed /\ Older(x, PendingTTL).hash = x.hash
    /\ \A x \in Held : Older(x, HeldTTL) \in Held /\ Older(x, HeldTTL).ledger = x.ledger
<1>0. PendingTTL \in Nat /\ HeldTTL \in Nat
    BY Limits
<1>1. ASSUME NEW x \in Stashed
      PROVE  Older(x, PendingTTL) \in Stashed /\ Older(x, PendingTTL).hash = x.hash
  <2> DEFINE a == IF x.age < PendingTTL THEN x.age + 1 ELSE x.age
  <2>1. a \in 0..PendingTTL
      BY <1>0 DEF Stashed
  <2>2. Older(x, PendingTTL) = [x EXCEPT !.age = a]
      BY DEF Older, Stashed
  <2> HIDE DEF a
  <2> QED
      BY <2>1, <2>2 DEF Stashed
<1>2. ASSUME NEW x \in Held
      PROVE  Older(x, HeldTTL) \in Held /\ Older(x, HeldTTL).ledger = x.ledger
  <2> DEFINE a == IF x.age < HeldTTL THEN x.age + 1 ELSE x.age
  <2>1. a \in 0..HeldTTL
      BY <1>0 DEF Held
  <2>2. Older(x, HeldTTL) = [x EXCEPT !.age = a]
      BY DEF Older, Held
  <2> HIDE DEF a
  <2> QED
      BY <2>1, <2>2 DEF Held
<1> QED
    BY <1>1, <1>2

LEMMA TickKept ==
    ASSUME SInv, Tick
    PROVE  StepKept
<1> DEFINE q == svc.pendingLedgerValidations
           t == [i \in 1..Len(q) |-> Older(q[i], PendingTTL)]
           h == [n \in Seqs |-> IF svc.heldAdoptions[n] = None THEN None
                                ELSE Older(svc.heldAdoptions[n], HeldTTL)]
           s == [svc EXCEPT !.pendingLedgerValidations = t, !.heldAdoptions = h]
<1>0. svc \in Service /\ q \in Seq(Stashed) /\ OncePerSeq(q) /\ Good(svc)
    BY DEF SInv, Good, Service
<1>1. svc' = s /\ UNCHANGED <<prevLedger, history>>
  <2>1. DOMAIN svc.pendingLedgerValidations = 1..Len(q)
      BY <1>0
  <2> QED
      BY <2>1 DEF Tick
<1>2. /\ t \in Seq(Stashed) /\ Len(t) = Len(q)
      /\ \A i \in 1..Len(q) : t[i].hash = q[i].hash
  <2>1. \A i \in 1..Len(q) : Older(q[i], PendingTTL) \in Stashed
                              /\ Older(q[i], PendingTTL).hash = q[i].hash
      BY <1>0, OlderIs
  <2>2. Len(q) \in Nat
      BY <1>0
  <2> HIDE DEF q
  <2> QED
      BY <2>1, <2>2
<1>3. /\ h \in [Seqs -> Held \cup {None}]
      /\ \A n \in Seqs : h[n] # None => Sequence(h[n].ledger) = n + 1
    BY <1>0, OlderIs DEF Good, Filed, Service
<1>4. OncePerSeq(t)
    BY <1>0, <1>2 DEF OncePerSeq
<1> HIDE DEF t, h
<1>5. /\ s \in Service /\ s.pendingLedgerValidations = t /\ s.heldAdoptions = h
      /\ s.closedLedger = svc.closedLedger /\ s.ledgerHistory = svc.ledgerHistory
      /\ s.validatedLedger = svc.validatedLedger /\ s.openLedger = svc.openLedger
      /\ s.pendingValidation = svc.pendingValidation
    BY <1>0, <1>2, <1>3 DEF Service
<1> HIDE DEF s
<1>6. Good(s) /\ Tip(s) /\ Backed(s, quorumed, published)
    BY <1>2, <1>3, <1>4, <1>5 DEF SInv, Good, Filed, Tip, Backed
<1>7. /\ quorumed' = quorumed /\ published' = published /\ twice' = twice
      /\ prevLedger' = prevLedger
    BY <1>1 DEF history
<1> QED
    BY <1>1, <1>5, <1>6, <1>7 DEF SInv, StepKept, ChainStep

-----------------------------------------------------------------------------
(* The consensus result.                                                    *)

LEMMA SwitchParentGood ==
    ASSUME SInv
    PROVE  LET s == switchParent(svc, prevLedger) IN
           /\ Good(s) /\ Tip(s) /\ Backed(s, quorumed, published)
           /\ Sequence(s.closedLedger) = Sequence(prevLedger)
<1> DEFINE i == [svc EXCEPT !.closedLedger = prevLedger,
                            !.ledgerHistory[Sequence(prevLedger)] = prevLedger]
           s == [i EXCEPT !.openLedger = NewOpen(prevLedger)]
<1>0. /\ svc \in Service /\ Good(svc) /\ prevLedger \in Ledgers /\ Sequence(prevLedger) \in Seqs
      /\ Backed(svc, quorumed, published)
    BY DEF SInv, Good
<1>1. CASE Sequence(prevLedger) = Sequence(svc.closedLedger)
    BY <1>1 DEF switchParent, SInv
<1>2. CASE Sequence(prevLedger) # Sequence(svc.closedLedger)
  <2>1. switchParent(svc, prevLedger) = s
      BY <1>0, <1>2 DEF switchParent, Service
  <2>2. Installed(i, svc, prevLedger)
      BY <1>0, InstallIs
  <2> HIDE DEF i
  <2>3. Good(i) /\ i.ledgerHistory[Sequence(prevLedger)] = prevLedger
      BY <1>0, <2>2, InstallGood DEF Good, Filed
  <2>4. i.closedLedger = prevLedger
      BY <2>2 DEF Installed
  <2>5. /\ Good(s) /\ Tip(s) /\ s.closedLedger = prevLedger
        /\ s.pendingLedgerValidations = i.pendingLedgerValidations
        /\ s.validatedLedger = i.validatedLedger
      BY <2>3, <2>4, OpenOnTip
  <2> HIDE DEF s
  <2>6. Backed(s, quorumed, published)
      BY <1>0, <2>2, <2>5 DEF Backed, Installed
  <2> QED
      BY <2>1, <2>5, <2>6
<1> QED
    BY <1>1, <1>2

LEMMA ToCloseIs ==
    ASSUME NEW s, Good(s), Tip(s), NEW txs \in SUBSET Txs
    PROVE  /\ toClose(s, txs) \in [parent : Ledgers, effects : SUBSET Txs, closed : BOOLEAN]
           /\ toClose(s, txs).parent = s.closedLedger
<1>0. s \in Service /\ s.openLedger.parent = s.closedLedger /\ s.closedLedger \in Ledgers
    BY DEF Good, Tip, Service
<1>1. CASE txs = {}
    BY <1>0, <1>1 DEF toClose, Service
<1>2. CASE txs # {}
  <2> DEFINE o == NewOpen(s.closedLedger)
  <2>1. o \in [parent : Ledgers, effects : SUBSET Txs, closed : BOOLEAN]
        /\ o.parent = s.closedLedger
      BY <1>0 DEF NewOpen
  <2> HIDE DEF o
  <2>2. toClose(s, txs) = [o EXCEPT !.effects = txs \ Included(s.closedLedger)]
      BY <1>2 DEF toClose, o
  <2>3. txs \ Included(s.closedLedger) \in SUBSET Txs
      OBVIOUS
  <2> QED
      BY <2>1, <2>2, <2>3
<1> QED
    BY <1>1, <1>2

LEMMA AcceptFailsKept ==
    ASSUME SInv, NEW txs \in SUBSET Txs, AcceptConsensusResultFails(txs)
    PROVE  StepKept
<1> DEFINE s == switchParent(svc, prevLedger)
           c == toClose(s, txs)
           o == [c EXCEPT !.closed = TRUE]
           r == [s EXCEPT !.openLedger = o]
<1>1. Good(s) /\ Tip(s) /\ Backed(s, quorumed, published)
    BY SwitchParentGood
<1>2. svc' = r /\ UNCHANGED <<prevLedger, history>>
    BY DEF AcceptConsensusResultFails
<1> HIDE DEF s
<1>3. /\ c \in [parent : Ledgers, effects : SUBSET Txs, closed : BOOLEAN]
      /\ c.parent = s.closedLedger
    BY <1>1, ToCloseIs
<1> HIDE DEF c
<1>4. o \in [parent : Ledgers, effects : SUBSET Txs, closed : BOOLEAN] /\ o.parent = c.parent
    BY <1>3
<1>5. o.closed
    BY <1>3
<1> HIDE DEF o
<1>6. /\ Good(r) /\ Tip(r) /\ r.openLedger = o
      /\ r.pendingLedgerValidations = s.pendingLedgerValidations
      /\ r.validatedLedger = s.validatedLedger
    BY <1>1, <1>3, <1>4, OpenGood DEF Tip
<1> HIDE DEF r
<1>7. Backed(r, quorumed, published)
    BY <1>1, <1>6 DEF Backed
<1>8. /\ quorumed' = quorumed /\ published' = published /\ twice' = twice
      /\ prevLedger' = prevLedger
    BY <1>2 DEF history
<1>9. SInv'
    BY <1>2, <1>6, <1>7, <1>8 DEF SInv
<1>10. svc'.openLedger.closed
    BY <1>2, <1>5, <1>6
<1> QED
    BY <1>9, <1>10 DEF StepKept, ChainStep

LEMMA ParentOfAppend ==
    ASSUME NEW S, NEW q \in Seq(S), NEW x \in S
    PROVE  ParentOf(Append(q, x)) = q
<1> DEFINE a == Append(q, x)
           f == SubSeq(a, 1, Len(q))
<1>1. /\ a \in Seq(S) /\ Len(a) = Len(q) + 1 /\ Len(q) \in Nat
      /\ \A i \in 1..Len(q) : a[i] = q[i] /\ q[i] \in S
    OBVIOUS
<1>2. ParentOf(a) = f
    BY <1>1 DEF ParentOf
<1> HIDE DEF a
<1>3. /\ f \in Seq(S) /\ Len(f) = Len(q)
      /\ \A i \in 1..Len(q) : f[i] = a[i]
    BY <1>1
<1> HIDE DEF f
<1>4. f = q
    BY <1>1, <1>3, SeqEqual
<1> QED
    BY <1>2, <1>4 DEF a

LEMMA AcceptKept ==
    ASSUME SInv, NEW txs \in SUBSET Txs, AcceptConsensusResult(txs)
    PROVE  StepKept
<1> DEFINE s == switchParent(svc, prevLedger)
           c == toClose(s, txs)
           block == [txs |-> IF txs = {} THEN {} ELSE c.effects, effects |-> c.effects]
           l == Append(s.closedLedger, block)
           i == [s EXCEPT !.closedLedger = l, !.ledgerHistory[Sequence(l)] = l]
           d == [drainPendingLedgerValidation(i, l) EXCEPT !.openLedger = NewOpen(l)]
           a == IF Promotes(i, l) THEN [svc |-> d, events |-> {} \cup {l}]
                ELSE [svc |-> stashPendingValidation(d, l), events |-> {}]
<1>1. /\ Good(s) /\ Tip(s) /\ Backed(s, quorumed, published)
      /\ Sequence(s.closedLedger) = Sequence(prevLedger)
    BY SwitchParentGood
<1>2. /\ c \in [parent : Ledgers, effects : SUBSET Txs, closed : BOOLEAN]
      /\ c.parent = s.closedLedger
    BY <1>1, ToCloseIs
<1>3. built(s, txs) = l
    BY <1>2 DEF built
<1>4. /\ Sequence(prevLedger) < MaxSeq /\ prevLedger' = l /\ quorumed' = quorumed
      /\ Becomes(a)
  <2>1. {} \cup {l} = {l}
      OBVIOUS
  <2> HIDE DEF l, d
  <2>2. /\ Promotes(i, l) => Becomes([svc |-> d, events |-> {l}])
        /\ ~Promotes(i, l) => Becomes([svc |-> stashPendingValidation(d, l), events |-> {}])
        /\ Sequence(prevLedger) < MaxSeq /\ prevLedger' = l /\ quorumed' = quorumed
      BY <1>3 DEF AcceptConsensusResult, d
  <2> QED
      BY <2>1, <2>2
<1> HIDE DEF s, c
<1>5. s \in Service /\ s.closedLedger \in Ledgers
    BY <1>1 DEF Good, Service
<1>6. block \in [txs : SUBSET Txs, effects : SUBSET Txs]
    BY <1>2
<1> HIDE DEF block
<1>7. l \in Ledgers /\ Sequence(l) = Sequence(s.closedLedger) + 1 /\ ParentOf(l) = s.closedLedger
  <2> DEFINE B == [txs : SUBSET Txs, effects : SUBSET Txs]
  <2>1. s.closedLedger \in Seq(B) /\ block \in B
      BY <1>5, <1>6 DEF Ledgers
  <2> HIDE DEF B
  <2>2. ParentOf(l) = s.closedLedger
      BY <2>1, ParentOfAppend
  <2>3. l \in Seq(B) /\ Sequence(l) = Sequence(s.closedLedger) + 1
      BY <2>1 DEF Sequence
  <2> QED
      BY <2>2, <2>3 DEF Ledgers, B
<1>8. Sequence(l) \in Seqs /\ Sequence(s.closedLedger) \in Seqs
      /\ Sequence(l) - 1 = Sequence(s.closedLedger) /\ Sequence(l) # Sequence(s.closedLedger)
  <2>1. Sequence(prevLedger) \in Seqs
      BY DEF SInv
  <2> HIDE DEF l
  <2> QED
      BY <1>1, <1>4, <1>7, <2>1, Limits DEF Seqs
<1> HIDE DEF l
<1>9. Installed(i, s, l)
    BY <1>5, <1>7, <1>8, InstallIs
<1> HIDE DEF i
<1>10. Good(i) /\ i.ledgerHistory[Sequence(l)] = l
  <2>1. /\ Once(s.pendingValidation) /\ OncePerSeq(s.pendingLedgerValidations)
        /\ \A q \in Seqs : s.ledgerHistory[q] # None => Sequence(s.ledgerHistory[q]) = q
        /\ \A q \in Seqs : s.heldAdoptions[q] # None =>
                              Sequence(s.heldAdoptions[q].ledger) = q + 1
      BY <1>1 DEF Good, Filed
  <2> QED
      BY <1>5, <1>7, <1>8, <1>9, <2>1, InstallGood
<1>11. i.closedLedger = l /\ i.ledgerHistory[Sequence(l) - 1] = ParentOf(l)
  <2>1. /\ s.ledgerHistory \in [Seqs -> Ledgers \cup {None}]
        /\ s.ledgerHistory[Sequence(s.closedLedger)] = s.closedLedger
      BY <1>1, <1>5 DEF Tip, Service
  <2>2. i.closedLedger = l /\ i.ledgerHistory = [s.ledgerHistory EXCEPT ![Sequence(l)] = l]
      BY <1>9 DEF Installed
  <2> QED
      BY <1>7, <1>8, <2>1, <2>2
<1>12. {} \subseteq quorumed \ published /\ Backed(i, quorumed, published \cup {})
  <2>1. published \cup {} = published
      OBVIOUS
  <2> QED
      BY <1>1, <1>9, <2>1 DEF Backed, Installed
<1>13. /\ Ready(a) /\ Tip(a.svc)
       /\ a.svc.closedLedger = l /\ a.svc.ledgerHistory = i.ledgerHistory
    BY <1>7, <1>10, <1>11, <1>12, InstalledReady
<1> HIDE DEF a
<1>14. SInv'
    BY <1>4, <1>7, <1>8, <1>13, BecomesKept
<1>15. svc'.closedLedger = l /\ svc'.ledgerHistory = i.ledgerHistory
    BY <1>4, <1>13 DEF Becomes
<1> QED
    BY <1>11, <1>14, <1>15 DEF StepKept, ChainStep

LEMMA OperationsKept ==
    ASSUME SInv, Next \/ \E l \in PeerLedgers : AdoptLedgerWithState(l)
    PROVE  StepKept
<1>1. ASSUME NEW l \in PeerLedgers, AdoptLedgerWithState(l) PROVE StepKept
    BY <1>1, AdoptLedgerWithStateKept DEF AdoptLedgerWithState, SInv
<1>2. ASSUME NEW l \in {svc.ledgerHistory[q] : q \in Seqs}, SwitchLedger(l) PROVE StepKept
    BY <1>2, SwitchLedgerKept
<1> QED
    BY <1>1, <1>2, SubmitTransactionKept, AcceptKept, AcceptFailsKept, SetValidatedLedgerKept,
       SubmitHeldAdoptionKept, AdoptLedgerHeaderKept, TickKept DEF Next

LEMMA InitSInv == Init => SInv
<1> SUFFICES ASSUME Init PROVE SInv
    OBVIOUS
<1>0. 1 \in Seqs /\ MaxPending \in Nat \ {0}
    BY Limits DEF Seqs
<1>1. <<>> \in Ledgers /\ Sequence(<<>>) = 1
    BY DEF Ledgers, Sequence
<1>2. /\ svc.ledgerHistory = [q \in Seqs |-> IF q = 1 THEN <<>> ELSE None]
      /\ svc.closedLedger = <<>> /\ svc.validatedLedger = <<>>
      /\ svc.openLedger = NewOpen(<<>>)
      /\ svc.pendingValidation = <<>> /\ svc.pendingLedgerValidations = <<>>
      /\ svc.heldAdoptions = [q \in Seqs |-> None]
    BY DEF Init, Genesis
<1>3. NewOpen(<<>>) \in [parent : Ledgers, effects : SUBSET Txs, closed : BOOLEAN]
      /\ NewOpen(<<>>).parent = <<>>
    BY <1>1 DEF NewOpen
<1>4. svc \in Service
    BY <1>0, <1>1, <1>3 DEF Init, Service, Genesis
<1>5. Filed(svc) /\ Tip(svc)
    BY <1>0, <1>1, <1>2, <1>3 DEF Tip, Filed
<1>6. Good(svc)
    BY <1>0, <1>2, <1>4, <1>5 DEF Good, Once, OncePerSeq
<1>7. Backed(svc, quorumed, published)
    BY <1>2 DEF Init, Backed, Genesis
<1> QED
    BY <1>0, <1>1, <1>5, <1>6, <1>7 DEF Init, SInv, Genesis

-----------------------------------------------------------------------------

LEMMA SInvHolds == SpecAPI => []SInv
<1> DEFINE N == Next \/ \E l \in PeerLedgers : AdoptLedgerWithState(l)
<1>1. SInv /\ [N]_vars => SInv'
  <2>1. CASE N
      BY <2>1, OperationsKept DEF StepKept
  <2>2. CASE UNCHANGED vars
    <3>1. /\ svc' = svc /\ prevLedger' = prevLedger /\ quorumed' = quorumed
          /\ published' = published /\ twice' = twice
        BY <2>2 DEF vars
    <3> QED
        BY <3>1 DEF SInv
  <2> HIDE DEF N
  <2> QED
      BY <2>1, <2>2
<1> QED
    BY <1>1, InitSInv, PTL DEF SpecAPI

(* Every state of the service has the types of its fields: the history      *)
(* files a ledger under its own sequence, and the stashes hold each key     *)
(* once and never more than pendingValidationMaxLen of them.                *)
THEOREM TypesHold == SpecAPI => []TypeOK
<1>1. SInv => TypeOK
  <2> SUFFICES ASSUME SInv PROVE TypeOK
      OBVIOUS
  <2>0. svc \in Service /\ Filed(svc) /\ Once(svc.pendingValidation)
        /\ OncePerSeq(svc.pendingLedgerValidations)
      BY DEF SInv, Good
  <2>1. \A q \in Seqs : svc.ledgerHistory[q] # None => Sequence(svc.ledgerHistory[q]) = q
      BY <2>0 DEF Filed
  <2>2. \A q \in Seqs : svc.heldAdoptions[q] # None =>
           /\ Sequence(svc.heldAdoptions[q].ledger) = q + 1
           /\ svc.heldAdoptions[q].age \in 0..HeldTTL
      BY <2>0 DEF Filed, Service, Held
  <2>3. LET x == svc.pendingValidation IN Len(x) <= MaxPending /\ OnlyOnce(x)
    <3>1. svc.pendingValidation \in Seq(Ledgers)
        BY <2>0 DEF Service
    <3> QED
        BY <2>0, <3>1 DEF Once, OnlyOnce
  <2>4. LET x == svc.pendingLedgerValidations IN
           /\ Len(x) <= MaxPending
           /\ OnlyOnce([i \in DOMAIN x |-> Sequence(x[i].hash)])
           /\ \A i \in DOMAIN x : x[i].age \in 0..PendingTTL
    <3> DEFINE x == svc.pendingLedgerValidations
    <3>1. x \in Seq(Stashed)
        BY <2>0 DEF Service
    <3>2. OncePerSeq(x)
        BY <2>0
    <3> HIDE DEF x
    <3>3. /\ Len(x) <= MaxPending
          /\ OnlyOnce([i \in DOMAIN x |-> Sequence(x[i].hash)])
          /\ \A i \in DOMAIN x : x[i].age \in 0..PendingTTL
      <4> DEFINE f == [i \in DOMAIN x |-> Sequence(x[i].hash)]
      <4>1. DOMAIN x = 1..Len(x) /\ \A i \in DOMAIN x : x[i] \in Stashed
          BY <3>1
      <4>2. DOMAIN f = 1..Len(x) /\ \A i \in 1..Len(x) : f[i] = Sequence(x[i].hash)
          BY <4>1
      <4> HIDE DEF f
      <4>3. OnlyOnce(f)
          BY <3>2, <4>2 DEF OncePerSeq, OnlyOnce
      <4>4. \A i \in DOMAIN x : x[i].age \in 0..PendingTTL
          BY <4>1 DEF Stashed
      <4> QED
          BY <3>2, <4>3, <4>4 DEF OncePerSeq, f
    <3> QED
        BY <3>3 DEF x
  <2> QED
      BY <2>1, <2>2, <2>3, <2>4 DEF TypeOK
<1> QED
    BY <1>1, SInvHolds, PTL

(* Only a ledger whose quorum was reported becomes validated or published,  *)
(* and none is published twice, whatever SetValidatedLedger, the consensus  *)
(* results, the adoptions and their cascades interleave.                    *)
THEOREM ValidationExactHolds == SpecAPI => []ValidationExact
<1>1. SInv => ValidationExact
    BY DEF SInv, Backed, ValidationExact, ValidatedByQuorum, PublishedOnce
<1> QED
    BY <1>1, SInvHolds, PTL

(* The closed ledger is the one the history has at its sequence and the     *)
(* open ledger is its child, after every operation and every failed close.  *)
THEOREM TipConsistentHolds == SpecAPI => []TipConsistent
<1>1. SInv => TipConsistent
    BY DEF SInv, Tip, TipConsistent
<1> QED
    BY <1>1, SInvHolds, PTL

(* An adoption leaves no ledger of another chain just below the ledger it   *)
(* makes the tip, however many held adoptions its cascade releases.         *)
THEOREM AdoptionChainsHold == SpecAPI => AdoptionChains
<1> DEFINE N == Next \/ \E l \in PeerLedgers : AdoptLedgerWithState(l)
<1>1. SInv /\ [N]_vars => [ChainStep]_vars
    BY OperationsKept DEF StepKept
<1> QED
    BY <1>1, SInvHolds, PTL DEF SpecAPI, AdoptionChains, ChainStep
=============================================================================
