----------------------- MODULE ApplyStateTableProofs -----------------------
(***************************************************************************)
(* Proofs about ApplyStateTable, for any keys, values and owners and any   *)
(* number of transactions.                                                 *)
(***************************************************************************)
EXTENDS ApplyStateTable, FiniteSetTheorems, TLAPS

(* An item remembers truthfully what the base view had: an inserted entry  *)
(* is not there, a cached, modified or erased one is, as its original.     *)
ItemMatches(k) ==
  Tracked(items, k) =>
    /\ items[k].cur # Absent
    /\ items[k].orig = base[k]
    /\ (items[k].action = "Insert") <=> (base[k] = Absent)
    /\ items[k].action = "Cache" => items[k].cur = base[k]

ItemsMatch == \A k \in Keys : ItemMatches(k)

TabInv == TableTypeOK /\ ItemsMatch /\ PreviousTxnIDIsLast

(* The two marks are neither entries nor items.                            *)
LEMMA Marks == Absent \notin Entry /\ Absent \notin Values /\ Untracked \notin Item
PROOF BY TableConstants

(* A step that gives one key an item that matches the base keeps ItemsMatch. *)
LEMMA OneItem ==
  ASSUME TabInv, NEW k \in Keys, NEW i \in Item \cup {Untracked},
         items' = [items EXCEPT ![k] = i], UNCHANGED <<base, tx, chain>>,
         i # Untracked =>
           /\ i.cur # Absent
           /\ i.orig = base[k]
           /\ (i.action = "Insert") <=> (base[k] = Absent)
           /\ i.action = "Cache" => i.cur = base[k]
  PROVE  TabInv'
<1>1. TableTypeOK'
  BY DEF TabInv, TableTypeOK
<1>2. ItemsMatch'
  BY DEF TabInv, TableTypeOK, ItemsMatch, ItemMatches, Tracked
<1>3. PreviousTxnIDIsLast'
  BY DEF TabInv, PreviousTxnIDIsLast
<1>4. QED
  BY <1>1, <1>2, <1>3 DEF TabInv

(* What Track builds is an item.                                           *)
LEMMA TrackIsItem ==
  ASSUME NEW a \in {"Cache", "Insert", "Modify", "Erase"},
         NEW o \in Entry \cup {Absent}, NEW c \in Entry \cup {Absent}
  PROVE  /\ Track(a, o, c) \in Item
         /\ Track(a, o, c).action = a
         /\ Track(a, o, c).orig = o
         /\ Track(a, o, c).cur = c
PROOF BY DEF Track, Item

(* The same for a step that tracks a key.                                  *)
LEMMA OneTracked ==
  ASSUME TabInv, NEW k \in Keys, NEW a \in {"Cache", "Insert", "Modify", "Erase"},
         NEW o \in Entry \cup {Absent}, NEW c \in Entry,
         items' = [items EXCEPT ![k] = Track(a, o, c)], UNCHANGED <<base, tx, chain>>,
         o = base[k], (a = "Insert") <=> (base[k] = Absent), a = "Cache" => c = base[k]
  PROVE  TabInv'
<1> DEFINE i == Track(a, o, c)
<1>1. i \in Item /\ i.action = a /\ i.orig = o /\ i.cur = c
  BY TrackIsItem
<1>2. i.cur # Absent
  BY <1>1, Marks
<1> HIDE DEF i
<1>3. i.orig = base[k] /\ ((i.action = "Insert") <=> (base[k] = Absent))
      /\ (i.action = "Cache" => i.cur = base[k])
  BY <1>1
<1>4. items' = [items EXCEPT ![k] = i]
  BY DEF i
<1>5. QED
  BY <1>1, <1>2, <1>3, <1>4, OneItem

(* What the bytes built for an entry are.                                  *)
LEMMA BuiltIsEntry ==
  ASSUME TabInv, NEW k \in Keys, NEW x \in Values, NEW e \in Built(k, x)
  PROVE  e \in Entry /\ e.val = x
<1>1. Seen(base, items, k) # Absent => Seen(base, items, k) \in Entry
  BY DEF TabInv, TableTypeOK, Seen, Tracked, Item, ItemsMatch, ItemMatches
<1>2. QED
  BY <1>1 DEF Built, Entry

-----------------------------------------------------------------------------
LEMMA InitTabInv == TableInit => TabInv
PROOF BY Marks DEF TableInit, TabInv, TableTypeOK, ItemsMatch, ItemMatches, Tracked,
                   PreviousTxnIDIsLast, Entry

LEMMA ReadKeeps == ASSUME TabInv, NEW k \in Keys, Read(k) PROVE TabInv'
<1>1. base[k] \in Entry /\ base[k] # Absent
  BY DEF Read, TabInv, TableTypeOK
<1>2. items' = [items EXCEPT ![k] = Track("Cache", base[k], base[k])]
      /\ UNCHANGED <<base, tx, chain>>
  BY DEF Read
<1>3. QED
  BY <1>1, <1>2, OneTracked

LEMMA InsertKeeps ==
  ASSUME TabInv, NEW k \in Keys, NEW e \in Entry, Insert(k, e) PROVE TabInv'
<1>0. UNCHANGED <<base, tx, chain>>
  BY DEF Insert
<1>1. CASE Tracked(items, k)
  <2>1. items[k] \in Item /\ items[k].action = "Erase"
    BY <1>1, Marks DEF Insert, Seen, TabInv, TableTypeOK, Tracked, ItemsMatch, ItemMatches
  <2>2. items[k].orig \in Entry \cup {Absent} /\ items[k].orig = base[k] /\ base[k] # Absent
    BY <1>1, <2>1 DEF TabInv, ItemsMatch, ItemMatches, Item
  <2>3. items' = [items EXCEPT ![k] = Track("Modify", items[k].orig, e)]
    BY <1>1 DEF Insert
  <2>4. QED
    BY <2>2, <2>3, <1>0, OneTracked
<1>2. CASE ~Tracked(items, k)
  <2>1. base[k] = Absent
    BY <1>2 DEF Insert, Seen
  <2>2. items' = [items EXCEPT ![k] = Track("Insert", Absent, e)]
    BY <1>2 DEF Insert
  <2>3. QED
    BY <2>1, <2>2, <1>0, OneTracked
<1>3. QED
  BY <1>1, <1>2

LEMMA UpdateKeeps ==
  ASSUME TabInv, NEW k \in Keys, NEW e \in Entry, Update(k, e) PROVE TabInv'
<1>0. UNCHANGED <<base, tx, chain>>
  BY DEF Update
<1>1. CASE Tracked(items, k)
  <2> DEFINE a == IF items[k].action = "Cache" THEN "Modify" ELSE items[k].action
  <2>1. items[k] \in Item /\ items[k].orig = base[k]
    BY <1>1 DEF TabInv, TableTypeOK, Tracked, ItemsMatch, ItemMatches
  <2>2. a \in {"Cache", "Insert", "Modify", "Erase"} /\ a # "Cache"
    BY <2>1 DEF Item
  <2>3. (a = "Insert") <=> (base[k] = Absent)
    BY <1>1 DEF TabInv, ItemsMatch, ItemMatches
  <2>4. items' = [items EXCEPT ![k] = Track(a, items[k].orig, e)]
    BY <1>1 DEF Update
  <2>5. items[k].orig \in Entry \cup {Absent}
    BY <2>1 DEF Item
  <2> HIDE DEF a
  <2>6. QED
    BY <2>1, <2>2, <2>3, <2>4, <2>5, <1>0, OneTracked
<1>2. CASE ~Tracked(items, k)
  <2> DEFINE a == IF base[k] = Absent THEN "Insert" ELSE "Modify"
  <2>1. items' = [items EXCEPT ![k] = Track(a, base[k], e)]
    BY <1>2 DEF Update
  <2>2. base[k] \in Entry \cup {Absent}
    BY DEF TabInv, TableTypeOK
  <2>3. a \in {"Cache", "Insert", "Modify", "Erase"} /\ a # "Cache"
        /\ ((a = "Insert") <=> (base[k] = Absent))
    OBVIOUS
  <2> HIDE DEF a
  <2>4. QED
    BY <2>1, <2>2, <2>3, <1>0, OneTracked
<1>3. QED
  BY <1>1, <1>2

LEMMA EraseKeeps == ASSUME TabInv, NEW k \in Keys, Erase(k) PROVE TabInv'
<1>0. UNCHANGED <<base, tx, chain>>
  BY DEF Erase
<1>1. CASE ~Tracked(items, k)
  <2>1. base[k] \in Entry
    BY <1>1 DEF Erase, Seen, TabInv, TableTypeOK
  <2>2. items' = [items EXCEPT ![k] = Track("Erase", base[k], base[k])]
    BY <1>1 DEF Erase
  <2>3. QED
    BY <2>1, <2>2, <1>0, OneTracked, Marks
<1>2. CASE Tracked(items, k) /\ items[k].action = "Insert"
  <2>1. items' = [items EXCEPT ![k] = Untracked]
    BY <1>2 DEF Erase
  <2>2. Untracked \in Item \cup {Untracked} /\ ~(Untracked # Untracked)
    OBVIOUS
  <2>3. QED
    BY <1>0, <2>1, <2>2, OneItem
<1>3. CASE Tracked(items, k) /\ items[k].action # "Insert"
  <2>1. items[k] \in Item /\ items[k].orig = base[k] /\ items[k].cur # Absent
        /\ base[k] # Absent
    BY <1>3 DEF TabInv, TableTypeOK, Tracked, ItemsMatch, ItemMatches
  <2>2. items[k].orig \in Entry \cup {Absent} /\ items[k].cur \in Entry
    BY <2>1 DEF Item
  <2>3. items' = [items EXCEPT ![k] = Track("Erase", items[k].orig, items[k].cur)]
    BY <1>3 DEF Erase
  <2>4. QED
    BY <2>1, <2>2, <2>3, <1>0, OneTracked
<1>4. QED
  BY <1>1, <1>2, <1>3

-----------------------------------------------------------------------------
(* What threading does to the item of a key: the original stays, the value *)
(* stays, and an entry that is written and can carry PreviousTxnID carries *)
(* this transaction.                                                       *)
LEMMA ThreadKeepsValue ==
  ASSUME TabInv, NEW e \in Entry
  PROVE  Thread(e) \in Entry /\ Thread(e).val = e.val /\ Thread(e).prev = tx
PROOF BY Marks DEF TabInv, TableTypeOK, Thread, Entry

(* The items as threading leaves them.                                     *)
ThreadedItem(k, i) ==
  \/ i = Untracked /\ ~Tracked(items, k)
  \/ /\ i \in Item /\ i.cur \in Entry /\ i.orig = base[k]
     /\ (i.action = "Insert") <=> (base[k] = Absent)
     /\ i.action \in {"Insert", "Modify"} /\ k \notin NonThreaded => i.cur.prev = tx
     /\ i.action # "Erase" =>
          Seen(base, items, k) # Absent /\ i.cur.val = Seen(base, items, k).val
     /\ i.action = "Erase" => Seen(base, items, k) = Absent
     /\ i.action = "Cache" => Seen(base, items, k) = base[k]

LEMMA ThreadOneItem ==
  ASSUME TabInv, NEW k \in Keys PROVE ThreadedItem(k, ThreadOne(items, k))
<1>0. k \in ThreadedOwners(items) => k \notin NonThreaded
  BY TableConstants DEF ThreadedOwners
<1>1. CASE Tracked(items, k)
  <2>1. /\ items[k] \in Item /\ items[k].cur \in Entry /\ items[k].orig = base[k]
        /\ (items[k].action = "Insert") <=> (base[k] = Absent)
        /\ items[k].action = "Cache" => items[k].cur = base[k]
        /\ items[k].action \in {"Cache", "Insert", "Modify", "Erase"}
        /\ items[k].orig \in Entry \cup {Absent}
    BY <1>1 DEF TabInv, TableTypeOK, ItemsMatch, ItemMatches, Tracked, Item
  <2>2. CASE items[k].action \in {"Insert", "Modify"}
    <3> DEFINE c == IF k \in NonThreaded THEN items[k].cur ELSE Thread(items[k].cur)
    <3>1. ThreadOne(items, k) = [items[k] EXCEPT !.cur = c]
      BY <1>1, <2>2 DEF ThreadOne
    <3>2. c \in Entry /\ c.val = items[k].cur.val /\ (k \notin NonThreaded => c.prev = tx)
      BY <2>1, ThreadKeepsValue
    <3>3. Seen(base, items, k) = items[k].cur
      BY <1>1, <2>2 DEF Seen
    <3> HIDE DEF c
    <3> DEFINE i == [items[k] EXCEPT !.cur = c]
    <3>4. i \in Item /\ i.cur = c /\ i.orig = items[k].orig /\ i.action = items[k].action
      BY <2>1, <3>2 DEF Item
    <3> HIDE DEF i
    <3>5. ThreadedItem(k, i)
      BY <2>1, <2>2, <3>2, <3>3, <3>4, Marks DEF ThreadedItem
    <3>6. QED
      BY <3>1, <3>5 DEF i
  <2>3. CASE items[k].action = "Cache" /\ k \in ThreadedOwners(items)
    <3> DEFINE c == Thread(items[k].cur)
               i == Track("Modify", items[k].orig, c)
    <3>1. ThreadOne(items, k) = i
      BY <1>1, <2>3 DEF ThreadOne
    <3>2. c \in Entry /\ c.val = items[k].cur.val /\ c.prev = tx
      BY <2>1, ThreadKeepsValue
    <3>3. Seen(base, items, k) = items[k].cur
      BY <1>1, <2>3 DEF Seen
    <3> HIDE DEF c
    <3>4. i \in Item /\ i.cur = c /\ i.orig = items[k].orig /\ i.action = "Modify"
      BY <2>1, <3>2, TrackIsItem
    <3> HIDE DEF i
    <3>5. QED
      BY <2>1, <2>3, <3>1, <3>2, <3>3, <3>4, Marks DEF ThreadedItem
  <2>4. CASE /\ items[k].action \in {"Cache", "Erase"}
             /\ ~(items[k].action = "Cache" /\ k \in ThreadedOwners(items))
    <3>1. ThreadOne(items, k) = items[k]
      BY <1>1, <2>4 DEF ThreadOne
    <3>2. Seen(base, items, k) = IF items[k].action = "Erase" THEN Absent ELSE items[k].cur
      BY <1>1 DEF Seen
    <3>3. QED
      BY <2>1, <2>4, <3>1, <3>2, Marks DEF ThreadedItem
  <2>5. QED
    BY <2>1, <2>2, <2>3, <2>4
<1>2. CASE ~Tracked(items, k)
  <2>1. Seen(base, items, k) = base[k] /\ base[k] \in Entry \cup {Absent}
    BY <1>2 DEF Seen, TabInv, TableTypeOK
  <2>2. CASE k \in ThreadedOwners(items) /\ base[k] # Absent
    <3> DEFINE c == Thread(base[k])
               i == Track("Modify", base[k], c)
    <3>1. ThreadOne(items, k) = i
      BY <1>2, <2>2 DEF ThreadOne
    <3>2. c \in Entry /\ c.val = base[k].val /\ c.prev = tx
      BY <2>1, <2>2, ThreadKeepsValue
    <3> HIDE DEF c
    <3>3. i \in Item /\ i.cur = c /\ i.orig = base[k] /\ i.action = "Modify"
      BY <2>1, <3>2, TrackIsItem
    <3> HIDE DEF i
    <3>4. QED
      BY <2>1, <2>2, <3>1, <3>2, <3>3 DEF ThreadedItem
  <2>3. CASE ~(k \in ThreadedOwners(items) /\ base[k] # Absent)
    BY <1>2, <2>3 DEF ThreadOne, ThreadedItem, Tracked
  <2>4. QED
    BY <2>2, <2>3
<1>3. QED
  BY <1>1, <1>2

(* Everything applyImpl writes, the base view accepts.                     *)
LEMMA TabInvAccepts == TabInv => ApplyNeverFails
<1> SUFFICES ASSUME TabInv, NEW k \in Keys, Affects(Threaded(items)[k])
             PROVE  (Threaded(items)[k].action = "Insert") <=> (base[k] = Absent)
  BY DEF ApplyNeverFails, BaseAccepts, AffectedNodes
<1>1. ThreadedItem(k, ThreadOne(items, k)) /\ Threaded(items)[k] = ThreadOne(items, k)
  BY ThreadOneItem DEF Threaded
<1>2. QED
  BY <1>1 DEF ThreadedItem, Affects

(* The base view after Apply, key by key.                                  *)
LEMMA WrittenKey ==
  ASSUME TabInv, NEW k \in Keys
  PROVE  LET t == Threaded(items)
             w == Written(t, base)[k]
         IN  /\ w \in Entry \cup {Absent}
             /\ w = Absent <=> Seen(base, items, k) = Absent
             /\ w # Absent => w.val = Seen(base, items, k).val
             /\ k \notin NonThreaded /\ w # Absent =>
                  w.prev = IF k \in AffectedNodes(t) THEN tx ELSE chain[k]
<1> DEFINE t == Threaded(items)
           i == ThreadOne(items, k)
           w == Written(t, base)[k]
<1>1. ThreadedItem(k, i) /\ t[k] = i /\ (k \in AffectedNodes(t) <=> Affects(i))
  BY ThreadOneItem DEF Threaded, AffectedNodes
<1>2. w = IF ~Affects(i) THEN base[k] ELSE IF i.action = "Erase" THEN Absent ELSE i.cur
  BY <1>1 DEF Written
<1>3. base[k] \in Entry \cup {Absent} /\ (k \notin NonThreaded /\ base[k] # Absent => base[k].prev = chain[k])
  BY DEF TabInv, TableTypeOK, PreviousTxnIDIsLast
<1> HIDE DEF t, i, w
<1>4. CASE i = Untracked
  <2>1. ~Affects(i) /\ Seen(base, items, k) = base[k]
    BY <1>1, <1>4, Marks DEF Affects, ThreadedItem, Seen
  <2>2. QED
    BY <1>1, <1>2, <1>3, <2>1 DEF t, w
<1>5. CASE i # Untracked /\ Affects(i)
  <2>1. i.action \in {"Insert", "Modify", "Erase"} /\ i \in Item
    BY <1>1, <1>5 DEF Affects, ThreadedItem, Item
  <2>2. QED
    BY <1>1, <1>2, <1>5, <2>1, Marks DEF ThreadedItem, t, w
<1>6. CASE i # Untracked /\ ~Affects(i)
  <2>1. \/ i.action = "Cache" /\ Seen(base, items, k) = base[k]
        \/ i.action = "Modify" /\ base[k] = i.cur
    BY <1>1, <1>6 DEF Affects, ThreadedItem
  <2>2. base[k] \in Entry
    BY <1>1, <1>3, <1>6, <2>1 DEF ThreadedItem
  <2>3. Seen(base, items, k) # Absent /\ Seen(base, items, k).val = base[k].val
    BY <1>1, <1>6, <2>1, <2>2, Marks DEF ThreadedItem
  <2>4. QED
    BY <1>1, <1>2, <1>3, <1>6, <2>2, <2>3, Marks DEF t, w
<1>7. QED
  BY <1>4, <1>5, <1>6

LEMMA ApplyKeeps == ASSUME TabInv, Apply PROVE TabInv'
<1> DEFINE t == Threaded(items)
<1>1. /\ base' = Written(t, base) /\ tx' = tx + 1 /\ items' = [k \in Keys |-> Untracked]
      /\ chain' = [k \in Keys |-> IF k \in AffectedNodes(t) THEN tx ELSE chain[k]]
  BY DEF Apply
<1>2. base' \in [Keys -> Entry \cup {Absent}]
  <2>1. Written(t, base) = [k \in Keys |-> Written(t, base)[k]]
    BY DEF Written
  <2>2. \A k \in Keys : Written(t, base)[k] \in Entry \cup {Absent}
    BY WrittenKey
  <2>3. QED
    BY <1>1, <2>1, <2>2
<1>3. TableTypeOK'
  BY <1>1, <1>2 DEF TabInv, TableTypeOK
<1>4. ItemsMatch'
  BY <1>1 DEF ItemsMatch, ItemMatches, Tracked
<1>5. PreviousTxnIDIsLast'
  <2> SUFFICES ASSUME NEW k \in Keys \ NonThreaded, base'[k] # Absent
               PROVE  base'[k].prev = chain'[k]
    BY DEF PreviousTxnIDIsLast
  <2>1. base'[k].prev = IF k \in AffectedNodes(t) THEN tx ELSE chain[k]
    BY <1>1, WrittenKey
  <2>2. QED
    BY <1>1, <2>1
<1>6. QED
  BY <1>3, <1>4, <1>5 DEF TabInv

LEMMA NextKeeps == ASSUME TabInv, [TableNext]_tableVars PROVE TabInv'
<1>1. ASSUME NEW k \in Keys, Read(k) PROVE TabInv'
  BY <1>1, ReadKeeps
<1>2. ASSUME NEW k \in Keys, Erase(k) PROVE TabInv'
  BY <1>2, EraseKeeps
<1>3. ASSUME NEW k \in Keys, NEW x \in Values, NEW e \in Built(k, x), Insert(k, e) PROVE TabInv'
  BY <1>3, BuiltIsEntry, InsertKeeps
<1>4. ASSUME NEW k \in Keys, NEW x \in Values, NEW e \in Built(k, x), Update(k, e) PROVE TabInv'
  BY <1>4, BuiltIsEntry, UpdateKeeps
<1>5. CASE Apply
  BY <1>5, ApplyKeeps
<1>6. CASE Discard
  BY <1>6 DEF Discard, TabInv, TableTypeOK, ItemsMatch, ItemMatches, Tracked, PreviousTxnIDIsLast
<1>7. CASE UNCHANGED tableVars
  BY <1>7 DEF tableVars, TabInv, TableTypeOK, ItemsMatch, ItemMatches, Tracked, PreviousTxnIDIsLast
<1>8. QED
  BY <1>1, <1>2, <1>3, <1>4, <1>5, <1>6, <1>7 DEF TableNext

(* The invariant holds of every table.                                     *)
THEOREM TableInvariant == TableSpec => []TabInv
PROOF BY InitTabInv, NextKeeps, PTL DEF TableSpec

(* ApplyStateTable.applyImpl never meets an error of the base view, for    *)
(* any sequence of reads, inserts, updates and erases.                     *)
THEOREM ApplyNeverFailsAlways == TableSpec => []ApplyNeverFails
PROOF BY TableInvariant, TabInvAccepts, PTL

(* The PreviousTxnID of an entry always names the last transaction whose   *)
(* metadata listed it.                                                     *)
THEOREM ThreadsUnbroken == TableSpec => []PreviousTxnIDIsLast
<1>1. TabInv => PreviousTxnIDIsLast
  BY DEF TabInv
<1>2. QED
  BY <1>1, TableInvariant, PTL

-----------------------------------------------------------------------------
(* A set of natural numbers with a member has a least one.                 *)
LEMMA SmallestKey ==
  ASSUME NEW T \in SUBSET Nat, T # {}
  PROVE  \E m \in T : \A y \in T : m <= y
<1> SUFFICES ASSUME \A m \in T : \E y \in T : y < m
             PROVE  FALSE
  OBVIOUS
<1> DEFINE S == {n \in Nat : \A y \in T : n <= y}
<1>1. 0 \in S
  OBVIOUS
<1>2. ASSUME NEW n \in S PROVE n + 1 \in S
  OBVIOUS
<1>3. S \subseteq Nat
  OBVIOUS
<1> HIDE DEF S
<1>4. S = Nat
  BY <1>1, <1>2, <1>3, Search!TurnByTurn
<1>5. PICK t \in T : TRUE
  OBVIOUS
<1>6. t + 1 \in S
  BY <1>4, <1>5
<1>7. QED
  BY <1>5, <1>6 DEF S

(* Keys are numbers, the least of them above NoKey.                        *)
LEMMA KeysAreNumbers ==
  /\ Keys \subseteq Nat /\ NoKey \notin Keys
  /\ \A k \in {NoKey} \cup Keys : k \in Nat
<1>1. Keys \subseteq Nat /\ NoKey \notin Keys
  BY TableConstants
<1>2. QED
  BY <1>1 DEF NoKey

(* What Least returns, and that nothing else could be returned.            *)
LEMMA LeastIs ==
  ASSUME NEW T \in SUBSET Keys
  PROVE  /\ T = {} => Least(T) = NoKey
         /\ T # {} => Least(T) \in T /\ \A y \in T : Least(T) <= y
<1>1. T \in SUBSET Nat
  BY TableConstants
<1>2. ASSUME T # {} PROVE Min(T) \in T /\ \A y \in T : Min(T) <= y
  BY <1>1, <1>2, SmallestKey DEF Min
<1>3. QED
  BY <1>2 DEF Least

LEMMA LeastUnique ==
  ASSUME NEW T \in SUBSET Keys, NEW m \in T, \A y \in T : m <= y
  PROVE  Least(T) = m
<1>1. Least(T) \in T /\ \A y \in T : Least(T) <= y
  BY LeastIs
<1>2. Least(T) \in Nat /\ m \in Nat
  BY <1>1, TableConstants
<1>3. QED
  BY <1>1, <1>2

LEMMA BaseSuccIs ==
  ASSUME NEW k \in {NoKey} \cup Keys
  PROVE  /\ BaseSucc(base, k) = NoKey =>
              \A i \in Keys : i > k => base[i] = Absent
         /\ BaseSucc(base, k) # NoKey =>
              /\ BaseSucc(base, k) \in Keys
              /\ BaseSucc(base, k) > k
              /\ base[BaseSucc(base, k)] # Absent
              /\ \A i \in Keys : i > k /\ base[i] # Absent => BaseSucc(base, k) <= i
<1> DEFINE T == {i \in Keys : i > k /\ base[i] # Absent}
<1>1. T \in SUBSET Keys /\ BaseSucc(base, k) = Least(T)
  BY DEF BaseSucc
<1>2. T # {} => Least(T) \in T /\ \A y \in T : Least(T) <= y
  BY <1>1, LeastIs
<1>3. T = {} => Least(T) = NoKey
  BY <1>1, LeastIs
<1>4. NoKey \notin T
  BY TableConstants
<1>5. QED
  BY <1>1, <1>2, <1>3, <1>4

(* How far a search that began above k has come when it is at x, after n   *)
(* turns: it has passed nothing but erased keys, and one more of them at   *)
(* every turn.                                                             *)
UpTo(x) == {i \in Keys : i <= x}

SearchedTo(k, n, x) ==
  /\ x = NoKey => \A i \in Keys : i > k /\ base[i] # Absent => IsErased(items, i)
  /\ x # NoKey => /\ x \in Keys /\ x > k /\ base[x] # Absent
                  /\ \A i \in Keys : i > k /\ i < x /\ base[i] # Absent => IsErased(items, i)
                  /\ IsErased(items, x) => Cardinality(UpTo(x)) > n

LEMMA KeysCounted ==
  ASSUME NEW x
  PROVE  /\ IsFiniteSet(UpTo(x)) /\ Cardinality(UpTo(x)) \in Nat
         /\ Cardinality(Keys) \in Nat /\ Cardinality(UpTo(x)) <= Cardinality(Keys)
<1>1. IsFiniteSet(Keys) /\ UpTo(x) \subseteq Keys
  BY TableConstants DEF UpTo
<1>2. IsFiniteSet(UpTo(x)) /\ Cardinality(UpTo(x)) <= Cardinality(Keys)
  BY <1>1, FS_Subset
<1>3. QED
  BY <1>1, <1>2, FS_CardinalityType

LEMMA OneMoreKey ==
  ASSUME NEW x \in {NoKey} \cup Keys, NEW y \in Keys, y > x
  PROVE  Cardinality(UpTo(y)) > Cardinality(UpTo(x))
<1> DEFINE U == UpTo(x) \cup {y}
<1>0. x \in Nat /\ y \in Nat /\ \A i \in Keys : i \in Nat
  BY KeysAreNumbers
<1>1. y \notin UpTo(x) /\ U \subseteq UpTo(y)
  <2>1. ASSUME NEW i \in Keys, i <= x PROVE i <= y /\ i # y
    BY <1>0, <2>1
  <2>2. y <= y
    BY <1>0
  <2>3. QED
    BY <2>1, <2>2 DEF UpTo
<1>2. IsFiniteSet(U) /\ Cardinality(U) = Cardinality(UpTo(x)) + 1
  BY <1>1, KeysCounted, FS_AddElement
<1> HIDE DEF U
<1>3. Cardinality(U) <= Cardinality(UpTo(y))
  BY <1>1, KeysCounted, FS_Subset
<1>4. QED
  BY <1>2, <1>3, KeysCounted

LEMMA SearchTurn ==
  ASSUME NEW k \in {NoKey} \cup Keys, NEW n \in Nat, NEW x, SearchedTo(k, n, x)
  PROVE  SearchedTo(k, n + 1, PastErased([base |-> base, items |-> items], n + 1, x))
<1> DEFINE y == BaseSucc(base, x)
<1>1. CASE ~(x # NoKey /\ IsErased(items, x))
  <2>1. PastErased([base |-> base, items |-> items], n + 1, x) = x
    BY <1>1 DEF PastErased
  <2>2. QED
    BY <2>1, <1>1 DEF SearchedTo
<1>2. CASE x # NoKey /\ IsErased(items, x)
  <2>1. PastErased([base |-> base, items |-> items], n + 1, x) = y
    BY <1>2 DEF PastErased
  <2>2. x \in Keys /\ x \in Nat /\ k \in Nat /\ Keys \subseteq Nat /\ NoKey \notin Keys
    BY <1>2, KeysAreNumbers DEF SearchedTo
  <2>3. /\ y = NoKey => \A i \in Keys : i > x => base[i] = Absent
        /\ y # NoKey => /\ y \in Keys /\ y > x /\ base[y] # Absent
                        /\ \A i \in Keys : i > x /\ base[i] # Absent => y <= i
    BY <2>2, BaseSuccIs
  <2> HIDE DEF y
  <2>4. ASSUME NEW i \in Keys, i > k, base[i] # Absent, ~(i > x) PROVE IsErased(items, i)
    BY <2>2, <2>4, <1>2 DEF SearchedTo
  <2>5. ASSUME y = NoKey
        PROVE  \A i \in Keys : i > k /\ base[i] # Absent => IsErased(items, i)
    BY <2>3, <2>4, <2>5
  <2>6. ASSUME y # NoKey
        PROVE  /\ y \in Keys /\ y > k /\ base[y] # Absent
               /\ \A i \in Keys : i > k /\ i < y /\ base[i] # Absent => IsErased(items, i)
    <3>1. y \in Keys /\ y > x /\ base[y] # Absent /\ x > k
      BY <2>3, <2>6, <1>2 DEF SearchedTo
    <3>2. ASSUME NEW i \in Keys, i > k, i < y, base[i] # Absent PROVE IsErased(items, i)
      BY <3>1, <3>2, <2>2, <2>3, <2>4
    <3>3. y > k
      BY <3>1, <2>2
    <3>4. QED
      BY <3>1, <3>2, <3>3
  <2>7. ASSUME y # NoKey PROVE Cardinality(UpTo(y)) > n + 1
    <3>1. y \in Keys /\ y > x
      BY <2>3, <2>7
    <3>2. Cardinality(UpTo(x)) > n
      BY <1>2 DEF SearchedTo
    <3>3. Cardinality(UpTo(y)) > Cardinality(UpTo(x))
      BY <3>1, <2>2, OneMoreKey
    <3>4. QED
      BY <3>2, <3>3, KeysCounted
  <2>8. QED
    BY <2>1, <2>5, <2>6, <2>7 DEF SearchedTo
<1>3. QED
  BY <1>1, <1>2

(* The search of the base view ends at the first of its keys above k that  *)
(* the table has not erased.                                               *)
LEMMA NextInBaseIs ==
  ASSUME NEW k \in {NoKey} \cup Keys
  PROVE  /\ NextInBase(k) = NoKey =>
              \A i \in Keys : i > k /\ base[i] # Absent => IsErased(items, i)
         /\ NextInBase(k) # NoKey =>
              /\ NextInBase(k) \in Keys /\ NextInBase(k) > k
              /\ base[NextInBase(k)] # Absent /\ ~IsErased(items, NextInBase(k))
              /\ \A i \in Keys : i > k /\ base[i] # Absent /\ ~IsErased(items, i)
                                   => NextInBase(k) <= i
<1> DEFINE v == [base |-> base, items |-> items]
           x0 == BaseSucc(base, k)
           S == {n \in Nat : SearchedTo(k, n, Search!Loop(v, x0, n))}
<1>1. k \in Nat /\ Keys \subseteq Nat /\ NoKey \notin Keys /\ Cardinality(Keys) \in Nat
  BY KeysAreNumbers, KeysCounted
<1>2. SearchedTo(k, 0, x0)
  <2>1. /\ x0 = NoKey => \A i \in Keys : i > k => base[i] = Absent
        /\ x0 # NoKey => /\ x0 \in Keys /\ x0 > k /\ base[x0] # Absent
                         /\ \A i \in Keys : i > k /\ base[i] # Absent => x0 <= i
    BY BaseSuccIs
  <2> HIDE DEF x0
  <2>2. ASSUME x0 # NoKey PROVE Cardinality(UpTo(x0)) > 0
    BY <2>1, <2>2, OneMoreKey, KeysCounted
  <2>3. ASSUME x0 # NoKey, NEW i \in Keys, i > k, i < x0, base[i] # Absent PROVE FALSE
    <3>1. x0 \in Nat /\ i \in Nat /\ x0 <= i
      BY <2>1, <2>3, <1>1
    <3>2. QED
      BY <3>1, <2>3
  <2>4. QED
    BY <2>1, <2>2, <2>3 DEF SearchedTo
<1>3. 0 \in S
  BY <1>2, Search!LoopTurns
<1>4. ASSUME NEW n \in S PROVE n + 1 \in S
  <2>1. Search!Loop(v, x0, n + 1) = PastErased(v, n + 1, Search!Loop(v, x0, n))
    BY Search!LoopTurns
  <2>2. SearchedTo(k, n, Search!Loop(v, x0, n)) /\ n \in Nat
    OBVIOUS
  <2>3. QED
    BY <2>1, <2>2, SearchTurn
<1> HIDE DEF S
<1>5. S = Nat
  BY <1>3, <1>4, Search!TurnByTurn DEF S
<1>6. SearchedTo(k, Cardinality(Keys), NextInBase(k))
  BY <1>1, <1>5 DEF S, NextInBase
<1> DEFINE x == NextInBase(k)
<1> HIDE DEF x
<1>7. x # NoKey => ~IsErased(items, x)
  BY <1>6, KeysCounted DEF SearchedTo, x
<1>8. ASSUME x # NoKey, NEW i \in Keys, i > k, base[i] # Absent, ~IsErased(items, i)
      PROVE  x <= i
  <2>1. x \in Keys /\ ~(i < x)
    BY <1>6, <1>8 DEF SearchedTo, x
  <2>2. x \in Nat /\ i \in Nat
    BY <2>1, <1>1
  <2>3. QED
    BY <2>1, <2>2
<1>9. QED
  BY <1>6, <1>7, <1>8 DEF SearchedTo, x

LEMMA SuccInTable == TabInv => SuccIsNextVisible
<1> SUFFICES ASSUME TabInv, NEW k \in {NoKey} \cup Keys
             PROVE  Succ(k) = Least({i \in Keys : i > k /\ Seen(base, items, i) # Absent})
  BY DEF SuccIsNextVisible
<1> DEFINE V == {i \in Keys : i > k /\ Seen(base, items, i) # Absent}
           A == {i \in Keys : i > k /\ Tracked(items, i) /\ ~IsErased(items, i)}
           x == NextInBase(k)
           B == A \cup ({x} \ {NoKey})
<1>1. k \in Nat /\ Keys \subseteq Nat
  BY KeysAreNumbers
<1>2. /\ x = NoKey => \A i \in Keys : i > k /\ base[i] # Absent => IsErased(items, i)
      /\ x # NoKey => /\ x \in Keys /\ x > k /\ base[x] # Absent /\ ~IsErased(items, x)
                      /\ \A i \in Keys : i > k /\ base[i] # Absent /\ ~IsErased(items, i)
                                           => x <= i
  BY NextInBaseIs
<1>3. Succ(k) = Least(B)
  BY DEF Succ
<1> HIDE DEF x
<1>4. A \subseteq V
  BY DEF TabInv, ItemsMatch, ItemMatches, Seen, IsErased
<1>5. x # NoKey => x \in V
  BY <1>2, <1>4 DEF Seen, IsErased
<1>6. ASSUME NEW i \in V, i \notin A PROVE x # NoKey /\ x <= i
  <2>1. ~IsErased(items, i) /\ ~Tracked(items, i) /\ base[i] # Absent
    BY <1>6 DEF Seen, IsErased
  <2>2. QED
    BY <2>1, <1>2
<1>7. B \subseteq V /\ V \subseteq Keys
  BY <1>4, <1>5
<1>8. CASE V = {}
  BY <1>3, <1>7, <1>8
<1>9. CASE V # {}
  <2> DEFINE m == Least(V)
  <2>1. m \in V /\ \A y \in V : m <= y
    BY <1>7, <1>9, LeastIs
  <2>0. B \in SUBSET Keys /\ \A y \in B : m <= y
    BY <2>1, <1>7
  <2> HIDE DEF m, V, A
  <2>2. CASE m \in A
    <3>1. m \in B
      BY <2>2
    <3> HIDE DEF B
    <3>2. QED
      BY <3>1, <2>0, <1>3, LeastUnique DEF m, V
  <2>3. CASE m \notin A
    <3>1. x # NoKey /\ x <= m /\ x \in V
      BY <2>1, <2>3, <1>5, <1>6
    <3>2. x = m
      BY <3>1, <2>1, <1>1, <1>7
    <3>3. m \in B
      BY <3>1, <3>2
    <3> HIDE DEF B
    <3>4. QED
      BY <3>3, <2>0, <1>3, LeastUnique DEF m, V
  <2>4. QED
    BY <2>2, <2>3 DEF m, V
<1>10. QED
  BY <1>8, <1>9

(* Walking the table with Succ, as the order books and the directories are *)
(* walked, meets exactly the entries that Read finds, in every state that  *)
(* any sequence of reads, inserts, updates, erases and applied             *)
(* transactions leads to: the search that steps over erased keys of the    *)
(* base view never stops at one and never passes one that is there.        *)
THEOREM WalkMeetsEveryEntry == TableSpec => []SuccIsNextVisible
PROOF BY TableInvariant, SuccInTable, PTL

-----------------------------------------------------------------------------
(* The refinement: the values the ledger and the table hold.               *)
LEMMA ShownValues ==
  ASSUME TabInv
  PROVE  /\ Vals(base) \in [Keys -> Values \cup {Absent}]
         /\ Vals(Shown) \in [Keys -> Values \cup {Absent}]
         /\ \A k \in Keys : Vals(Shown)[k] = Absent <=> Seen(base, items, k) = Absent
<1>1. \A k \in Keys : base[k] \in Entry \cup {Absent}
  BY DEF TabInv, TableTypeOK
<1>2. \A k \in Keys : Seen(base, items, k) \in Entry \cup {Absent}
  BY <1>1 DEF Seen, TabInv, TableTypeOK, ItemsMatch, ItemMatches, Tracked, Item
<1>3. \A e \in Entry : e.val \in Values /\ e.val # Absent
  BY Marks DEF Entry
<1>4. QED
  BY <1>1, <1>2, <1>3 DEF Vals, Shown

(* A step that changes the item of one key changes what is shown of it.    *)
LEMMA ShownStep ==
  ASSUME TabInv, NEW k \in Keys, NEW i, items' = [items EXCEPT ![k] = i],
         UNCHANGED <<base, tx, chain>>
  PROVE  /\ Vals(base)' = Vals(base)
         /\ Vals(Shown)' = [Vals(Shown) EXCEPT ![k] = Vals(Shown')[k]]
         /\ Shown'[k] = IF i = Untracked THEN base[k]
                        ELSE IF i.action = "Erase" THEN Absent ELSE i.cur
<1>1. items'[k] = i /\ \A j \in Keys \ {k} : items'[j] = items[j]
  BY DEF TabInv, TableTypeOK
<1>2. \A j \in Keys \ {k} : Shown'[j] = Shown[j]
  BY <1>1 DEF Shown, Seen, Tracked
<1>3. Shown'[k] = IF i = Untracked THEN base[k]
                  ELSE IF i.action = "Erase" THEN Absent ELSE i.cur
  BY <1>1 DEF Shown, Seen, Tracked
<1>4. Vals(base)' = Vals(base) /\ Vals(Shown)' = Vals(Shown')
  BY DEF Vals
<1>5. Vals(Shown') = [Vals(Shown) EXCEPT ![k] = Vals(Shown')[k]]
  BY <1>2 DEF Vals
<1>6. QED
  BY <1>3, <1>4, <1>5

LEMMA ReadIsStutter ==
  ASSUME TabInv, NEW k \in Keys, Read(k) PROVE UNCHANGED View!viewVars
<1> DEFINE i == Track("Cache", base[k], base[k])
<1>1. items' = [items EXCEPT ![k] = i] /\ UNCHANGED <<base, tx, chain>>
  BY DEF Read
<1>2. i \in Item /\ i.action = "Cache" /\ i.cur = base[k]
  <2>1. base[k] \in Entry \cup {Absent}
    BY DEF TabInv, TableTypeOK
  <2>2. QED
    BY <2>1, TrackIsItem
<1>3. Seen(base, items, k) = base[k]
  BY DEF Read, Seen
<1> HIDE DEF i
<1>4. Shown'[k] = base[k] /\ Vals(base)' = Vals(base)
      /\ Vals(Shown)' = [Vals(Shown) EXCEPT ![k] = Vals(Shown')[k]]
  BY <1>1, <1>2, ShownStep, Marks
<1>5. Vals(Shown')[k] = Vals(Shown)[k]
  BY <1>3, <1>4 DEF Vals, Shown
<1>6. QED
  BY <1>4, <1>5, ShownValues DEF View!viewVars

LEMMA WriteIsPut ==
  ASSUME TabInv, NEW k \in Keys, NEW e \in Entry, Insert(k, e) \/ Update(k, e)
  PROVE  View!Put(k, e.val)
<1>1. PICK a \in {"Insert", "Modify"}, o \in Entry \cup {Absent} :
        items' = [items EXCEPT ![k] = Track(a, o, e)]
  <2>0. base[k] \in Entry \cup {Absent}
    BY DEF TabInv, TableTypeOK
  <2>1. CASE ~Tracked(items, k)
    BY <2>0, <2>1 DEF Insert, Update
  <2>2. CASE Tracked(items, k)
    <3>1. /\ items[k].orig \in Entry \cup {Absent}
          /\ items[k].action \in {"Cache", "Insert", "Modify", "Erase"}
      BY <2>2 DEF TabInv, TableTypeOK, Tracked, Item
    <3>2. QED
      BY <2>2, <3>1 DEF Insert, Update
  <2>3. QED
    BY <2>1, <2>2
<1>2. UNCHANGED <<base, tx, chain>>
  BY DEF Insert, Update
<1> DEFINE i == Track(a, o, e)
<1>3. i \in Item /\ i.action # "Erase" /\ i.cur = e
  BY TrackIsItem
<1>4. i # Untracked
  BY <1>3, Marks
<1> HIDE DEF i
<1>5. Shown'[k] = e /\ Vals(base)' = Vals(base)
      /\ Vals(Shown)' = [Vals(Shown) EXCEPT ![k] = Vals(Shown')[k]]
  BY <1>1, <1>2, <1>3, <1>4, ShownStep DEF i
<1>6. Vals(Shown')[k] = e.val
  BY <1>5, Marks DEF Vals
<1>7. QED
  BY <1>5, <1>6 DEF View!Put

LEMMA EraseIsRemove ==
  ASSUME TabInv, NEW k \in Keys, Erase(k) PROVE View!Remove(k)
<1>1. PICK i \in Item \cup {Untracked} :
        /\ items' = [items EXCEPT ![k] = i]
        /\ i = Untracked => base[k] = Absent
        /\ i # Untracked => i.action = "Erase"
  <2>1. CASE ~Tracked(items, k)
    <3>1. base[k] \in Entry \cup {Absent}
      BY DEF TabInv, TableTypeOK
    <3>2. /\ Track("Erase", base[k], base[k]) \in Item
          /\ Track("Erase", base[k], base[k]).action = "Erase"
      BY <3>1, TrackIsItem
    <3>3. QED
      BY <2>1, <3>2, Marks DEF Erase
  <2>2. CASE Tracked(items, k) /\ items[k].action = "Insert"
    BY <2>2 DEF Erase, TabInv, ItemsMatch, ItemMatches
  <2>3. CASE Tracked(items, k) /\ items[k].action # "Insert"
    <3>1. items[k].orig \in Entry \cup {Absent} /\ items[k].cur \in Entry \cup {Absent}
      BY <2>3 DEF TabInv, TableTypeOK, Tracked, Item
    <3>2. /\ Track("Erase", items[k].orig, items[k].cur) \in Item
          /\ Track("Erase", items[k].orig, items[k].cur).action = "Erase"
      BY <3>1, TrackIsItem
    <3>3. QED
      BY <2>3, <3>2, Marks DEF Erase
  <2>4. QED
    BY <2>1, <2>2, <2>3
<1>2. UNCHANGED <<base, tx, chain>> /\ Seen(base, items, k) # Absent
  BY DEF Erase
<1>3. Shown'[k] = Absent /\ Vals(base)' = Vals(base)
      /\ Vals(Shown)' = [Vals(Shown) EXCEPT ![k] = Vals(Shown')[k]]
  BY <1>1, <1>2, ShownStep
<1>4. Vals(Shown')[k] = Absent /\ Vals(Shown)[k] # Absent
  BY <1>2, <1>3, ShownValues DEF Vals
<1>5. QED
  BY <1>3, <1>4 DEF View!Remove

LEMMA ApplyIsCommit == ASSUME TabInv, Apply PROVE View!Commit
<1>1. base' = Written(Threaded(items), base) /\ items' = [k \in Keys |-> Untracked]
  BY DEF Apply
<1>2. \A k \in Keys : Vals(base')[k] = Vals(Shown)[k]
  BY <1>1, WrittenKey DEF Vals, Shown
<1>3. Vals(base') = Vals(Shown)
  BY <1>2 DEF Vals
<1>4. \A k \in Keys : Shown'[k] = base'[k]
  BY <1>1 DEF Shown, Seen, Tracked
<1>5. Vals(Shown') = Vals(base')
  BY <1>4 DEF Vals
<1>6. Vals(base)' = Vals(base') /\ Vals(Shown)' = Vals(Shown')
  BY DEF Vals
<1>7. QED
  BY <1>3, <1>5, <1>6 DEF View!Commit

LEMMA DiscardIsDrop == ASSUME TabInv, Discard PROVE View!Drop
<1>1. base' = base /\ items' = [k \in Keys |-> Untracked]
  BY DEF Discard
<1>2. \A k \in Keys : Shown'[k] = base[k]
  BY <1>1 DEF Shown, Seen, Tracked
<1>3. Vals(Shown)' = Vals(base) /\ Vals(base)' = Vals(base)
  BY <1>1, <1>2 DEF Vals
<1>4. QED
  BY <1>3 DEF View!Drop

(* ApplyStateTable is a LedgerView: a transactor that works on it sees     *)
(* what it wrote over what the ledger has, and the ledger changes only by  *)
(* Apply, which makes it what the transactor saw.                          *)
THEOREM TableIsLedgerView == TableSpec => ImplementsLedgerView
<1>1. TableInit => View!ViewInit
  <2> SUFFICES ASSUME TableInit PROVE View!ViewInit
    OBVIOUS
  <2>1. TabInv
    BY InitTabInv
  <2>2. \A k \in Keys : Shown[k] = base[k]
    BY DEF TableInit, Shown, Seen, Tracked
  <2>3. Vals(Shown) = Vals(base)
    BY <2>2 DEF Vals
  <2>4. QED
    BY <2>1, <2>3, ShownValues DEF View!ViewInit
<1>2. TabInv /\ [TableNext]_tableVars => [View!ViewNext]_(View!viewVars)
  <2> SUFFICES ASSUME TabInv, [TableNext]_tableVars
               PROVE  [View!ViewNext]_(View!viewVars)
    OBVIOUS
  <2>1. ASSUME NEW k \in Keys, Read(k) PROVE UNCHANGED View!viewVars
    BY <2>1, ReadIsStutter
  <2>2. ASSUME NEW k \in Keys, Erase(k) PROVE View!ViewNext
    BY <2>2, EraseIsRemove DEF View!ViewNext
  <2>3. ASSUME NEW k \in Keys, NEW x \in Values, NEW e \in Built(k, x),
               Insert(k, e) \/ Update(k, e)
        PROVE  View!ViewNext
    BY <2>3, BuiltIsEntry, WriteIsPut DEF View!ViewNext
  <2>4. CASE Apply
    BY <2>4, ApplyIsCommit DEF View!ViewNext
  <2>5. CASE Discard
    BY <2>5, DiscardIsDrop DEF View!ViewNext
  <2>6. CASE UNCHANGED tableVars
    BY <2>6 DEF tableVars, View!viewVars, Vals, Shown, Seen, Tracked
  <2>7. QED
    BY <2>1, <2>2, <2>3, <2>4, <2>5, <2>6 DEF TableNext
<1>3. QED
  BY <1>1, <1>2, TableInvariant, PTL DEF TableSpec, ImplementsLedgerView, View!ViewSpec

=============================================================================
