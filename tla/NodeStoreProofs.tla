-------------------------- MODULE NodeStoreProofs ---------------------------
(***************************************************************************)
(* Proofs about NodeStore, for any number of nodes, threads and backends   *)
(* and any sizes and lifetimes of the caches: no Fetch misses a node it    *)
(* had to find.                                                            *)
(***************************************************************************)
EXTENDS NodeStore, SequenceTheorems, TLAPS

Backends == 1 .. Len(backends)

Fetching == [call : {"negative", "backend", "fill", "mark"}, node : Nodes, owed : SUBSET Nodes]

Storing == [call : {"write", "cache", "clear"}, node : Nodes, to : Backends]

NodeStoreTypes ==
    /\ backends \in Seq(SUBSET Nodes)
    /\ closed \subseteq Backends
    /\ primary \in Backends
    /\ rotating \in Seq([of : Backends, age : Nat])
    /\ thread \in [Threads -> {Resting} \union Fetching \union Storing]
    /\ stored \subseteq Nodes /\ excused \subseteq Nodes

(* Until a Rotate has failed, the primary and the rotated-out backends are *)
(* the open ones, and each is in one place.                                *)
Distinct(list) == \A i, j \in DOMAIN list : list[i].of = list[j].of => i = j

Lists(list) ==
    /\ Distinct(list)
    /\ \A i \in DOMAIN list : list[i].of \notin closed

Chained ==
    /\ primary \notin closed
    /\ Lists(rotating)
    /\ \A i \in DOMAIN rotating : rotating[i].of # primary
    /\ \A b \in Backends \ closed : b = primary \/ \E i \in DOMAIN rotating : rotating[i].of = b

(* What has been written and not excused is in an open backend.            *)
Written(n) == n \in stored \/ \E t \in Threads : thread[t].call \in {"cache", "clear"} /\ thread[t].node = n

Kept(n) == \E b \in Backends \ closed : n \in backends[b]

NInv ==
    /\ NodeStoreTypes
    /\ excused # Nodes => Chained
    /\ \A n \in Nodes \ excused : Written(n) => Kept(n)
    /\ \A n \in stored \ excused : n \notin DOMAIN negative
    /\ \A t \in Threads : thread[t].call \in {"negative", "backend"} => thread[t].owed \subseteq stored \intersect {thread[t].node}
    /\ missed = {}

-----------------------------------------------------------------------------
(* The elements of a sequence, and a sequence of a larger set.             *)
LEMMA Elements ==
    ASSUME NEW R, NEW q \in Seq(R)
    PROVE  \A i \in DOMAIN q : q[i] \in R
    OBVIOUS

LEMMA WiderSeq ==
    ASSUME NEW R, NEW T, R \subseteq T, NEW q \in Seq(R)
    PROVE  q \in Seq(T)
    OBVIOUS

(* RotatingDatabase.Fetch asks the primary and every rotated-out backend.  *)
LEMMA OrderIs ==
    ASSUME NodeStoreTypes
    PROVE  /\ Len(rotating) \in Nat /\ DOMAIN rotating = 1 .. Len(rotating)
           /\ DOMAIN Order = 1 .. Len(rotating) + 1
           /\ Order[1] = primary
           /\ \A i \in 1 .. Len(rotating) : Order[i + 1] = rotating[Len(rotating) + 1 - i].of
<1> DEFINE m == Len(rotating)
           tail == [i \in DOMAIN rotating |-> rotating[m + 1 - i].of]
<1>1. rotating \in Seq([of : Backends, age : Nat])
    BY DEF NodeStoreTypes
<1>2. m \in Nat /\ DOMAIN rotating = 1 .. m
    BY <1>1
<1> HIDE DEF m
<1>3. \A i \in 1 .. m : rotating[m + 1 - i].of \in Backends
  <2>1. \A j \in 1 .. m : rotating[j] \in [of : Backends, age : Nat]
      BY <1>1, <1>2, ElementOfSeq DEF m
  <2>2. \A i \in 1 .. m : m + 1 - i \in 1 .. m
      BY <1>2
  <2> QED
      BY <2>1, <2>2
<1>4. tail \in Seq(Backends) /\ Len(tail) = m /\ \A i \in 1 .. m : tail[i] = rotating[m + 1 - i].of
    BY <1>2, <1>3
<1>5. <<primary>> \in Seq(Backends) /\ Len(<<primary>>) = 1
    BY DEF NodeStoreTypes
<1>6. Order = <<primary>> \o tail
    BY DEF Order, m
<1> HIDE DEF tail
<1>7. Len(Order) = m + 1 /\ Order \in Seq(Backends)
    BY <1>2, <1>4, <1>5, <1>6
<1>8. Order[1] = primary
    BY <1>2, <1>4, <1>5, <1>6
<1>9. ASSUME NEW i \in 1 .. m PROVE Order[i + 1] = tail[i]
    BY <1>2, <1>4, <1>5, <1>6
<1> QED
    BY <1>2, <1>4, <1>7, <1>8, <1>9 DEF m

(* Until a Rotate has failed it reaches every open backend.                *)
LEMMA OpenIsReachable ==
    ASSUME NodeStoreTypes, Chained
    PROVE  Reachable = Backends \ closed
<1>1. ASSUME NEW i \in DOMAIN Order PROVE Order[i] \in Backends \ closed
  <2>1. CASE i = 1
      BY <2>1, OrderIs DEF Chained, NodeStoreTypes
  <2>2. CASE i # 1
    <3>1. i - 1 \in 1 .. Len(rotating) /\ i = (i - 1) + 1
        BY <2>2, OrderIs
    <3> DEFINE j == Len(rotating) + 1 - (i - 1)
    <3>2. j \in DOMAIN rotating
        BY <3>1, OrderIs
    <3>3. Order[i] = rotating[j].of
        BY <3>1, OrderIs
    <3> HIDE DEF j
    <3>4. rotating[j] \in [of : Backends, age : Nat]
      <4>1. rotating \in Seq([of : Backends, age : Nat]) /\ j \in 1 .. Len(rotating)
          BY <3>2, OrderIs DEF NodeStoreTypes
      <4> QED
          BY <4>1, ElementOfSeq
    <3> QED
        BY <3>2, <3>3, <3>4 DEF Chained, Lists, Distinct
  <2> QED
      BY <2>1, <2>2
<1>2. ASSUME NEW b \in Backends \ closed PROVE \E i \in DOMAIN Order : Order[i] = b
  <2>1. CASE b = primary
      BY <2>1, OrderIs
  <2>2. CASE b # primary
    <3>1. PICK j \in DOMAIN rotating : rotating[j].of = b
        BY <2>2 DEF Chained
    <3> DEFINE i == Len(rotating) + 1 - j
    <3>2. i \in 1 .. Len(rotating) /\ Len(rotating) + 1 - i = j
      <4>1. Len(rotating) \in Nat /\ j \in 1 .. Len(rotating)
          BY OrderIs
      <4> QED
          BY <4>1
    <3> HIDE DEF i
    <3>3. Order[i + 1] = b /\ i + 1 \in DOMAIN Order
        BY <3>1, <3>2, OrderIs
    <3> QED
        BY <3>3
  <2> QED
      BY <2>1, <2>2
<1>3. \A i \in DOMAIN Order : \A j \in 1 .. i : j \in DOMAIN Order
    BY OrderIs
<1> QED
    BY <1>1, <1>2, <1>3 DEF Reachable

(* A node that has been written and is not excused is found by the backends. *)
LEMMA WrittenIsFetched ==
    ASSUME NInv, NEW n \in Nodes \ excused, Written(n)
    PROVE  (\E b \in Reachable : n \in backends[b]) /\ BackendFetch(n) = "ok"
<1>1. Chained
    BY DEF NInv
<1>2. Kept(n)
    BY DEF NInv
<1> QED
    BY <1>1, <1>2, OpenIsReachable DEF NInv, Kept, BackendFetch

-----------------------------------------------------------------------------
LEMMA InitNInv == NodeStoreInit => NInv
<1> SUFFICES ASSUME NodeStoreInit PROVE NInv
    OBVIOUS
<1>1. Len(backends) = 1 /\ Backends = {1} /\ backends \in Seq(SUBSET Nodes)
    BY DEF NodeStoreInit, Backends
<1>2. rotating \in Seq([of : Backends, age : Nat]) /\ DOMAIN rotating = {}
    BY DEF NodeStoreInit
<1>3. NodeStoreTypes
    BY <1>1, <1>2 DEF NodeStoreInit, NodeStoreTypes
<1>4. Chained
    BY <1>1, <1>2 DEF NodeStoreInit, Chained, Lists, Distinct
<1>5. \A n \in Nodes : ~Written(n)
    BY DEF NodeStoreInit, Written, Resting
<1>6. \A t \in Threads : thread[t].call = "none"
    BY DEF NodeStoreInit, Resting
<1> QED
    BY <1>3, <1>4, <1>5, <1>6 DEF NInv, NodeStoreInit

(* What a step of one thread that leaves the backends alone must keep.     *)
Owes(r) == r.call \in {"negative", "backend"} => r.owed \subseteq stored \intersect {r.node}

LEMMA ThreadStep ==
    ASSUME NInv, NEW t \in Threads, NEW r \in {Resting} \union Fetching \union Storing,
           thread' = [thread EXCEPT ![t] = r],
           UNCHANGED <<backends, closed, primary, rotating, stored, missed>>,
           excused' \subseteq Nodes, excused \subseteq excused',
           r.call \in {"cache", "clear"} => Written(r.node),
           Owes(r),
           \A n \in stored \ excused' : n \notin DOMAIN negative'
    PROVE  NInv'
<1>1. NodeStoreTypes'
    BY DEF NInv, NodeStoreTypes, Backends, Fetching, Storing
<1>2. (excused # Nodes => Chained)'
    BY DEF NInv, NodeStoreTypes, Chained, Lists, Distinct, Backends
<1>3. ASSUME NEW n \in Nodes, Written(n)' PROVE Written(n)
    BY <1>3 DEF Written, NInv, NodeStoreTypes
<1>4. ASSUME NEW n \in Nodes, Kept(n) PROVE Kept(n)'
    BY <1>4 DEF Kept, Backends
<1>5. (\A n \in Nodes \ excused : Written(n) => Kept(n))'
    BY <1>3, <1>4 DEF NInv
<1>6. (\A u \in Threads : thread[u].call \in {"negative", "backend"}
                            => thread[u].owed \subseteq stored \intersect {thread[u].node})'
    BY DEF NInv, NodeStoreTypes, Owes
<1> QED
    BY <1>1, <1>2, <1>5, <1>6 DEF NInv

(* A step of no thread.                                                    *)
LEMMA QuietStep ==
    ASSUME NInv, UNCHANGED <<backends, closed, primary, rotating, thread, stored, excused, missed>>,
           DOMAIN negative' \subseteq DOMAIN negative
    PROVE  NInv'
<1>1. NodeStoreTypes'
    BY DEF NInv, NodeStoreTypes, Backends, Fetching, Storing
<1>2. (excused # Nodes => Chained)'
    BY DEF NInv, Chained, Lists, Distinct, Backends
<1>3. ASSUME NEW n \in Nodes PROVE Written(n)' = Written(n) /\ Kept(n)' = Kept(n)
    BY DEF Written, Kept, Backends
<1>4. (\A n \in Nodes \ excused : Written(n) => Kept(n))'
    BY <1>3 DEF NInv
<1> QED
    BY <1>1, <1>2, <1>4 DEF NInv

-----------------------------------------------------------------------------
(* The steps of Fetch.                                                     *)
LEMMA FetchKeeps ==
    ASSUME NInv, NEW t \in Threads, NEW n \in Nodes, Fetch(t, n)
    PROVE  NInv'
<1>1. CASE CacheHas(n)
    BY <1>1, QuietStep DEF Fetch
<1>2. CASE ~CacheHas(n)
  <2> DEFINE r == [call |-> "negative", node |-> n, owed |-> {n} \intersect stored]
  <2>1. r \in Fetching /\ r.call = "negative" /\ Owes(r)
      BY DEF Fetching, Owes
  <2>2. thread' = [thread EXCEPT ![t] = r]
      BY <1>2 DEF Fetch, Begin
  <2> HIDE DEF r
  <2>3. UNCHANGED <<backends, closed, primary, rotating, negative, stored, excused, missed>>
      BY DEF Fetch
  <2>4. excused \subseteq Nodes /\ \A m \in stored \ excused : m \notin DOMAIN negative
      BY DEF NInv, NodeStoreTypes
  <2> QED
      BY <2>1, <2>2, <2>3, <2>4, ThreadStep
<1> QED
    BY <1>1, <1>2

(* The records of the threads.                                             *)
LEMMA Rests ==
    /\ Resting \in {Resting} \union Fetching \union Storing
    /\ Resting.call = "none" /\ Owes(Resting)
    BY DEF Resting, Owes

LEMMA FetchingRecord ==
    ASSUME NInv, NEW t \in Threads, thread[t].call \in {"negative", "backend", "fill", "mark"}
    PROVE  thread[t] \in Fetching
    BY DEF NInv, NodeStoreTypes, Resting, Storing

LEMMA StoringRecord ==
    ASSUME NInv, NEW t \in Threads, thread[t].call \in {"write", "cache", "clear"}
    PROVE  thread[t] \in Storing
    BY DEF NInv, NodeStoreTypes, Resting, Fetching

(* A Fetch that finds nothing had nothing to find.                         *)
LEMMA NothingMissed ==
    ASSUME NInv, NEW t \in Threads, thread[t].call \in {"negative", "backend"},
           thread[t].node \notin stored \ excused, Misses(t)
    PROVE  UNCHANGED missed
<1>1. thread[t].owed \subseteq stored \intersect {thread[t].node}
    BY DEF NInv
<1> QED
    BY <1>1 DEF Misses

LEMMA FetchNegativeKeeps ==
    ASSUME NInv, NEW t \in Threads, FetchNegative(t)
    PROVE  NInv'
<1>1. thread[t] \in Fetching /\ thread[t].call = "negative"
    BY FetchingRecord DEF FetchNegative, At
<1>2. DOMAIN negative' \subseteq DOMAIN negative
    BY DEF FetchNegative, Drop
<1>3. UNCHANGED <<backends, closed, primary, rotating, stored, excused>>
    BY DEF FetchNegative
<1>4. excused \subseteq Nodes /\ \A m \in stored \ excused : m \notin DOMAIN negative'
    BY <1>2 DEF NInv, NodeStoreTypes
<1>5. CASE thread[t].node \in DOMAIN negative \ Expired(negative)
  <2>1. thread' = [thread EXCEPT ![t] = Resting] /\ Misses(t)
      BY <1>5 DEF FetchNegative
  <2>2. thread[t].node \notin stored \ excused
      BY <1>5 DEF NInv
  <2>3. UNCHANGED missed
      BY <1>1, <2>1, <2>2, NothingMissed
  <2> QED
      BY <1>3, <1>4, <2>1, <2>3, Rests, ThreadStep
<1>6. CASE thread[t].node \notin DOMAIN negative \ Expired(negative)
  <2> DEFINE r == [thread[t] EXCEPT !.call = "backend"]
  <2>1. thread' = [thread EXCEPT ![t] = r] /\ UNCHANGED missed
      BY <1>6 DEF FetchNegative, Goes
  <2>2. r \in Fetching /\ r.call = "backend" /\ r.node = thread[t].node /\ r.owed = thread[t].owed
      BY <1>1 DEF Fetching
  <2> HIDE DEF r
  <2>3. Owes(r)
      BY <1>1, <2>2 DEF NInv, Owes
  <2> QED
      BY <1>3, <1>4, <2>1, <2>2, <2>3, ThreadStep
<1> QED
    BY <1>5, <1>6

LEMMA FetchBackendKeeps ==
    ASSUME NInv, NEW t \in Threads, FetchBackend(t)
    PROVE  NInv'
<1>1. thread[t] \in Fetching /\ thread[t].call = "backend" /\ thread[t].node \in Nodes
    BY FetchingRecord DEF FetchBackend, At, Fetching
<1>2. UNCHANGED <<backends, closed, primary, rotating, cache, negative, stored, excused>>
    BY DEF FetchBackend
<1>3. excused \subseteq Nodes /\ \A m \in stored \ excused : m \notin DOMAIN negative
    BY DEF NInv, NodeStoreTypes
<1> DEFINE got == BackendFetch(thread[t].node)
<1>4. got \in {"ok", "notfound", "error"}
    BY DEF BackendFetch
<1>5. /\ got = "ok" => Goes(t, "fill") /\ UNCHANGED missed
      /\ got = "notfound" => Goes(t, "mark") /\ Misses(t)
      /\ got = "error" => thread' = [thread EXCEPT ![t] = Resting] /\ Misses(t)
    BY <1>4 DEF FetchBackend
<1>6. thread[t].node \in stored \ excused => got = "ok"
    BY <1>1, WrittenIsFetched DEF Written
<1> HIDE DEF got
<1>7. UNCHANGED missed
    BY <1>1, <1>4, <1>5, <1>6, NothingMissed
<1>8. ASSUME NEW c \in {"fill", "mark"}, Goes(t, c) PROVE NInv'
  <2> DEFINE r == [thread[t] EXCEPT !.call = c]
  <2>1. thread' = [thread EXCEPT ![t] = r]
      BY <1>8 DEF Goes
  <2>2. r \in Fetching /\ r.call = c
      BY <1>1 DEF Fetching
  <2> HIDE DEF r
  <2>3. Owes(r)
      BY <2>2 DEF Owes
  <2> QED
      BY <1>2, <1>3, <1>7, <2>1, <2>2, <2>3, ThreadStep
<1>9. CASE got = "error"
    BY <1>2, <1>3, <1>5, <1>7, <1>9, Rests, ThreadStep
<1> QED
    BY <1>4, <1>5, <1>8, <1>9

LEMMA FetchFillKeeps ==
    ASSUME NInv, NEW t \in Threads, FetchFill(t)
    PROVE  NInv'
<1>1. UNCHANGED <<backends, closed, primary, rotating, negative, stored, excused, missed>>
      /\ thread' = [thread EXCEPT ![t] = Resting]
    BY DEF FetchFill
<1>2. excused \subseteq Nodes /\ \A m \in stored \ excused : m \notin DOMAIN negative
    BY DEF NInv, NodeStoreTypes
<1> QED
    BY <1>1, <1>2, Rests, ThreadStep

(* A Fetch that marks a node missing excuses it when it has been written   *)
(* since.                                                                  *)
LEMMA FetchMarkKeeps ==
    ASSUME NInv, NEW t \in Threads, FetchMark(t)
    PROVE  NInv'
<1> DEFINE n == thread[t].node
<1>1. n \in Nodes
    BY FetchingRecord DEF FetchMark, At, Fetching
<1>2. UNCHANGED <<backends, closed, primary, rotating, cache, stored, missed>>
      /\ thread' = [thread EXCEPT ![t] = Resting]
    BY DEF FetchMark
<1>3. DOMAIN negative' \subseteq {n} \union DOMAIN negative
    BY DEF FetchMark, MarkedMissing
<1>4. excused' = IF \E b \in Reachable : n \in backends[b] THEN excused \union {n} ELSE excused
    BY DEF FetchMark
<1> HIDE DEF n
<1>5. excused' \subseteq Nodes /\ excused \subseteq excused'
    BY <1>1, <1>4 DEF NInv, NodeStoreTypes
<1>6. ASSUME NEW m \in stored \ excused' PROVE m \notin DOMAIN negative'
  <2>1. m \in Nodes \ excused /\ m \notin DOMAIN negative /\ Written(m)
      BY <1>5, <1>6 DEF NInv, NodeStoreTypes, Written
  <2>2. \E b \in Reachable : m \in backends[b]
      BY <2>1, WrittenIsFetched
  <2> QED
      BY <1>3, <1>4, <1>6, <2>1, <2>2
<1> QED
    BY <1>2, <1>5, <1>6, Rests, ThreadStep

-----------------------------------------------------------------------------
(* The steps of Store.                                                     *)
LEMMA StoreKeeps ==
    ASSUME NInv, NEW t \in Threads, NEW n \in Nodes, Store(t, n)
    PROVE  NInv'
<1> DEFINE r == [call |-> "write", node |-> n, to |-> primary]
<1>1. r \in Storing /\ r.call = "write"
    BY DEF Storing, NInv, NodeStoreTypes
<1>2. UNCHANGED <<backends, closed, primary, rotating, negative, stored, excused, missed>>
      /\ thread' = [thread EXCEPT ![t] = r]
    BY DEF Store
<1> HIDE DEF r
<1>3. Owes(r)
    BY <1>1 DEF Owes
<1>4. excused \subseteq Nodes /\ \A m \in stored \ excused : m \notin DOMAIN negative
    BY DEF NInv, NodeStoreTypes
<1> QED
    BY <1>1, <1>2, <1>3, <1>4, ThreadStep

(* The node is in the backend before anything says that it is stored.      *)
LEMMA StoreWriteKeeps ==
    ASSUME NInv, NEW t \in Threads, StoreWrite(t)
    PROVE  NInv'
<1> DEFINE n == thread[t].node
           to == thread[t].to
<1>1. thread[t] \in Storing /\ n \in Nodes /\ to \in Backends
    BY StoringRecord DEF StoreWrite, At, Storing
<1>2. UNCHANGED <<closed, primary, rotating, cache, negative, stored, excused, missed>>
    BY DEF StoreWrite
<1>3. CASE to \in closed
  <2>1. thread' = [thread EXCEPT ![t] = Resting] /\ UNCHANGED backends
      BY <1>3 DEF StoreWrite
  <2>2. excused \subseteq Nodes /\ \A m \in stored \ excused : m \notin DOMAIN negative
      BY DEF NInv, NodeStoreTypes
  <2> QED
      BY <1>2, <2>1, <2>2, Rests, ThreadStep
<1>4. CASE to \notin closed
  <2> DEFINE r == [thread[t] EXCEPT !.call = "cache"]
  <2>1. thread' = [thread EXCEPT ![t] = r]
        /\ backends' = [backends EXCEPT ![to] = @ \union {n}]
      BY <1>4 DEF StoreWrite, Goes
  <2>2. r \in Storing /\ r.call = "cache" /\ r.node = n
      BY <1>1 DEF Storing
  <2> HIDE DEF r, n, to
  <2>3. backends \in Seq(SUBSET Nodes) /\ DOMAIN backends = Backends
      BY DEF NInv, NodeStoreTypes, Backends
  <2>4. backends' \in Seq(SUBSET Nodes) /\ Backends' = Backends
        /\ \A b \in Backends : backends'[b] = IF b = to THEN backends[b] \union {n} ELSE backends[b]
    <3>1. \A b \in Backends : backends[b] \in SUBSET Nodes
        BY <2>3, ElementOfSeq DEF Backends
    <3>2. Len(backends') = Len(backends)
        BY <2>1, <2>3
    <3>3. \A b \in Backends : backends'[b] = IF b = to THEN backends[b] \union {n} ELSE backends[b]
        BY <2>1, <2>3
    <3>4. backends' \in Seq(SUBSET Nodes)
        BY <1>1, <2>1, <2>3, <3>1
    <3> QED
        BY <3>2, <3>3, <3>4 DEF Backends
  <2>5. NodeStoreTypes'
    <3>1. Storing' = Storing
        BY <2>4 DEF Storing
    <3>2. thread' \in [Threads -> {Resting} \union Fetching \union Storing]
        BY <2>1, <2>2 DEF NInv, NodeStoreTypes
    <3>3. closed \subseteq Backends /\ primary \in Backends /\ rotating \in Seq([of : Backends, age : Nat])
          /\ stored \subseteq Nodes /\ excused \subseteq Nodes
        BY DEF NInv, NodeStoreTypes
    <3> QED
        BY <1>2, <2>4, <3>1, <3>2, <3>3 DEF NodeStoreTypes, Fetching
  <2>6. (excused # Nodes => Chained)'
      BY <1>2, <2>4 DEF NInv, Chained, Lists, Distinct
  <2>7. ASSUME NEW m \in Nodes \ excused, Written(m)' PROVE Kept(m)'
    <3>1. CASE m = n
        BY <1>1, <1>2, <1>4, <2>4, <3>1 DEF Kept
    <3>2. CASE m # n
      <4>1. Written(m)
          BY <1>2, <2>1, <2>2, <2>7, <3>2 DEF Written, NInv, NodeStoreTypes
      <4>2. Kept(m)
          BY <4>1 DEF NInv
      <4> QED
          BY <1>2, <2>4, <4>2 DEF Kept
    <3> QED
        BY <3>1, <3>2
  <2>8. (\A u \in Threads : thread[u].call \in {"negative", "backend"}
                              => thread[u].owed \subseteq stored \intersect {thread[u].node})'
      BY <1>2, <2>1, <2>2 DEF NInv, NodeStoreTypes
  <2> QED
      BY <1>2, <2>5, <2>6, <2>7, <2>8 DEF NInv
<1> QED
    BY <1>3, <1>4

LEMMA StoreCacheKeeps ==
    ASSUME NInv, NEW t \in Threads, StoreCache(t)
    PROVE  NInv'
<1> DEFINE r == [thread[t] EXCEPT !.call = "clear"]
<1>1. thread[t] \in Storing /\ thread[t].call = "cache"
    BY StoringRecord DEF StoreCache, At
<1>2. r \in Storing /\ r.call = "clear" /\ r.node = thread[t].node
    BY <1>1 DEF Storing
<1>3. UNCHANGED <<backends, closed, primary, rotating, negative, stored, excused, missed>>
      /\ thread' = [thread EXCEPT ![t] = r]
    BY DEF StoreCache, Goes
<1> HIDE DEF r
<1>4. Written(r.node) /\ Owes(r)
    BY <1>1, <1>2 DEF Written, Owes
<1>5. excused \subseteq Nodes /\ \A m \in stored \ excused : m \notin DOMAIN negative
    BY DEF NInv, NodeStoreTypes
<1> QED
    BY <1>2, <1>3, <1>4, <1>5, ThreadStep

LEMMA StoreClearKeeps ==
    ASSUME NInv, NEW t \in Threads, StoreClear(t)
    PROVE  NInv'
<1> DEFINE n == thread[t].node
<1>1. thread[t] \in Storing /\ thread[t].call = "clear" /\ n \in Nodes
    BY StoringRecord DEF StoreClear, At, Storing
<1>2. UNCHANGED <<backends, closed, primary, rotating, cache, excused, missed>>
      /\ thread' = [thread EXCEPT ![t] = Resting]
      /\ stored' = stored \union {n}
    BY DEF StoreClear
<1>3. DOMAIN negative' = DOMAIN negative \ {n}
    BY DEF StoreClear, ClearMissing, Drop
<1>4. Written(n)
    BY <1>1 DEF Written
<1> HIDE DEF n
<1>5. NodeStoreTypes'
    BY <1>1, <1>2 DEF NInv, NodeStoreTypes, Backends, Fetching, Storing
<1>6. (excused # Nodes => Chained)'
    BY <1>2 DEF NInv, Chained, Lists, Distinct, Backends
<1>7. ASSUME NEW m \in Nodes \ excused, Written(m)' PROVE Kept(m)'
  <2>1. Written(m)
      BY <1>2, <1>4, <1>7, Rests DEF Written, NInv, NodeStoreTypes
  <2> QED
      BY <1>2, <2>1 DEF NInv, Kept, Backends
<1>8. (\A u \in Threads : thread[u].call \in {"negative", "backend"}
                            => thread[u].owed \subseteq stored \intersect {thread[u].node})'
    BY <1>2, Rests DEF NInv, NodeStoreTypes
<1>9. (\A m \in stored \ excused : m \notin DOMAIN negative)'
    BY <1>2, <1>3 DEF NInv
<1> QED
    BY <1>2, <1>5, <1>6, <1>7, <1>8, <1>9 DEF NInv

-----------------------------------------------------------------------------
(* The loop of cleanupExpiredBackendsLocked keeps the entries that are not *)
(* past their retention, each once.                                        *)
Backend == [of : Backends, age : Nat]

KeptSoFar(list, i, r) ==
    /\ r \in Seq(Backend)
    /\ \A m \in DOMAIN r : \E j \in 1 .. i : r[m] = list[j] /\ ~(list[j].age > Retention)
    /\ \A j \in 1 .. i : ~(list[j].age > Retention) => \E m \in DOMAIN r : r[m] = list[j]
    /\ Distinct(list) => Distinct(r)

LEMMA RecentTurn ==
    ASSUME NEW list \in Seq(Backend), NEW i \in Nat, i + 1 \in DOMAIN list,
           NEW r, KeptSoFar(list, i, r)
    PROVE  KeptSoFar(list, i + 1, keepRecent(list, i + 1, r))
<1> DEFINE e == list[i + 1]
<1>0. i + 1 \in 1 .. Len(list) /\ DOMAIN list = 1 .. Len(list) /\ Len(list) \in Nat
    OBVIOUS
<1>1. e \in Backend
    BY <1>0, ElementOfSeq
<1>2. 1 .. i + 1 = 1 .. i \union {i + 1}
    OBVIOUS
<1>3. CASE e.age > Retention
  <2>1. keepRecent(list, i + 1, r) = r
      BY <1>3 DEF keepRecent
  <2>2. \A m \in DOMAIN r : \E j \in 1 .. i + 1 : r[m] = list[j] /\ ~(list[j].age > Retention)
      BY <1>2 DEF KeptSoFar
  <2>3. \A j \in 1 .. i + 1 : ~(list[j].age > Retention) => \E m \in DOMAIN r : r[m] = list[j]
      BY <1>2, <1>3 DEF KeptSoFar
  <2> QED
      BY <2>1, <2>2, <2>3 DEF KeptSoFar
<1>4. CASE ~(e.age > Retention)
  <2> DEFINE q == Append(r, e)
  <2>1. keepRecent(list, i + 1, r) = q
      BY <1>4 DEF keepRecent
  <2>2. r \in Seq(Backend) /\ Len(r) \in Nat /\ DOMAIN r = 1 .. Len(r)
      BY DEF KeptSoFar
  <2>3. /\ q \in Seq(Backend) /\ DOMAIN q = 1 .. Len(r) + 1
        /\ \A m \in DOMAIN r : q[m] = r[m]
        /\ q[Len(r) + 1] = e
        /\ DOMAIN q = DOMAIN r \union {Len(r) + 1}
      BY <1>1, <2>2
  <2> HIDE DEF q
  <2>4. ASSUME NEW m \in DOMAIN q
        PROVE  \E j \in 1 .. i + 1 : q[m] = list[j] /\ ~(list[j].age > Retention)
    <3>1. CASE m \in DOMAIN r
      <4>1. PICK j \in 1 .. i : r[m] = list[j] /\ ~(list[j].age > Retention)
          BY <3>1 DEF KeptSoFar
      <4> QED
          BY <1>2, <2>3, <3>1, <4>1
    <3>2. CASE m = Len(r) + 1
        BY <1>2, <1>4, <2>3, <3>2
    <3> QED
        BY <2>3, <3>1, <3>2
  <2>5. ASSUME NEW j \in 1 .. i + 1, ~(list[j].age > Retention)
        PROVE  \E m \in DOMAIN q : q[m] = list[j]
    <3>1. CASE j \in 1 .. i
      <4>1. PICK m \in DOMAIN r : r[m] = list[j]
          BY <2>5, <3>1 DEF KeptSoFar
      <4> QED
          BY <2>3, <4>1
    <3>2. CASE j = i + 1
        BY <2>3, <3>2
    <3> QED
        BY <1>2, <3>1, <3>2
  <2>6. ASSUME Distinct(list) PROVE Distinct(q)
    <3>1. ASSUME NEW m \in DOMAIN r PROVE r[m].of # e.of
      <4>1. PICK j \in 1 .. i : r[m] = list[j]
          BY DEF KeptSoFar
      <4>2. j \in DOMAIN list /\ j # i + 1
          BY <1>0
      <4> QED
          BY <1>0, <2>6, <4>1, <4>2 DEF Distinct
    <3>2. Distinct(r)
        BY <2>6 DEF KeptSoFar
    <3> QED
        BY <2>3, <3>1, <3>2 DEF Distinct
  <2> QED
      BY <2>1, <2>3, <2>4, <2>5, <2>6 DEF KeptSoFar
<1> QED
    BY <1>3, <1>4

LEMMA RecentIs ==
    ASSUME NEW list \in Seq(Backend)
    PROVE  KeptSoFar(list, Len(list), Recent!Loop(list, <<>>, Len(list)))
<1> DEFINE r(i) == Recent!Loop(list, <<>>, i)
           S == {i \in Nat : i <= Len(list) => KeptSoFar(list, i, r(i))}
<1>0. Len(list) \in Nat /\ DOMAIN list = 1 .. Len(list)
    OBVIOUS
<1>1. 0 \in S
  <2>1. r(0) = <<>>
      BY Recent!LoopTurns
  <2>2. KeptSoFar(list, 0, <<>>)
      BY DEF KeptSoFar, Distinct
  <2> QED
      BY <2>1, <2>2
<1>2. ASSUME NEW i \in S PROVE i + 1 \in S
  <2> SUFFICES ASSUME i + 1 <= Len(list) PROVE KeptSoFar(list, i + 1, r(i + 1))
      OBVIOUS
  <2>1. i \in Nat /\ i + 1 \in DOMAIN list /\ KeptSoFar(list, i, r(i))
      BY <1>0
  <2>2. r(i + 1) = keepRecent(list, i + 1, r(i))
      BY <2>1, Recent!LoopTurns
  <2> QED
      BY <2>1, <2>2, RecentTurn
<1> HIDE DEF S
<1>3. S = Nat
    BY <1>1, <1>2, Recent!TurnByTurn DEF S
<1> QED
    BY <1>0, <1>3 DEF S

(* Where the primary is, once it is on the list.                           *)
LEMMA WithPrimaryIs ==
    ASSUME NodeStoreTypes, Chained
    PROVE  /\ WithPrimary \in Seq(Backend)
           /\ Lists(WithPrimary)
           /\ \A b \in Backends \ closed : \E i \in DOMAIN WithPrimary : WithPrimary[i].of = b
           /\ Past(WithPrimary) \subseteq Backends
<1> DEFINE e == [of |-> primary, age |-> 0]
           q == Append(rotating, e)
<1>1. rotating \in Seq(Backend) /\ Len(rotating) \in Nat /\ DOMAIN rotating = 1 .. Len(rotating)
    BY DEF NodeStoreTypes, Backend
<1>2. e \in Backend /\ e.of = primary
    BY DEF NodeStoreTypes, Backend
<1> HIDE DEF e
<1>3. /\ q \in Seq(Backend) /\ DOMAIN q = DOMAIN rotating \union {Len(rotating) + 1}
      /\ \A m \in DOMAIN rotating : q[m] = rotating[m]
      /\ q[Len(rotating) + 1] = e
    BY <1>1, <1>2
<1>4. WithPrimary = q
    BY DEF WithPrimary, e
<1> HIDE DEF q
<1>5. Lists(q)
    BY <1>2, <1>3 DEF Chained, Lists, Distinct
<1>6. \A b \in Backends \ closed : \E i \in DOMAIN q : q[i].of = b
    BY <1>2, <1>3 DEF Chained
<1>7. \A i \in DOMAIN q : q[i] \in Backend
    BY <1>3
<1>8. Past(q) \subseteq Backends
    BY <1>7 DEF Past, Backend
<1> QED
    BY <1>3, <1>4, <1>5, <1>6, <1>8


LEMMA RotateKeeps ==
    ASSUME NInv, Rotate
    PROVE  NInv'
<1> DEFINE list == WithPrimary
           past == Past(list)
           new == Len(backends) + 1
           left == Recent!Loop(list, <<>>, Len(list))
<1>1. backends \in Seq(SUBSET Nodes) /\ Len(backends) \in Nat /\ DOMAIN backends = Backends
      /\ closed \subseteq Backends /\ stored \subseteq Nodes /\ excused \subseteq Nodes
      /\ primary \in Backends
    BY DEF NInv, NodeStoreTypes, Backends
<1>2. rotating' = left /\ closed' = closed \union past /\ primary' = new
      /\ excused' = excused \union UNION {backends[b] : b \in past}
      /\ UNCHANGED <<cache, negative, thread, stored, missed>>
    BY DEF Rotate
<1>3. list \in Seq([of : Backends, age : Nat]) /\ past \subseteq Backends
  <2> DEFINE e == [of |-> primary, age |-> 0]
  <2>1. e \in [of : Backends, age : Nat] /\ rotating \in Seq([of : Backends, age : Nat])
      BY <1>1 DEF NInv, NodeStoreTypes
  <2> HIDE DEF e
  <2>2. list \in Seq([of : Backends, age : Nat])
      BY <2>1 DEF WithPrimary, e
  <2>3. \A i \in DOMAIN list : list[i] \in [of : Backends, age : Nat]
      BY <2>2, Elements
  <2> HIDE DEF list
  <2> QED
      BY <2>2, <2>3 DEF Past, list
<1>4. /\ backends' \in Seq(SUBSET Nodes)
      /\ Len(backends') = new
      /\ \A b \in Backends : backends'[b] = IF b \in past THEN {} ELSE backends[b]
  <2> DEFINE f == [b \in DOMAIN backends |-> IF b \in past THEN {} ELSE backends[b]]
  <2>1. backends' = Append(f, {})
      BY DEF Rotate
  <2> HIDE DEF past
  <2>2. \A b \in Backends : f[b] = IF b \in past THEN {} ELSE backends[b]
      BY <1>1
  <2>3. \A b \in Backends : backends[b] \in SUBSET Nodes
      BY <1>1, ElementOfSeq DEF Backends
  <2>4. f \in Seq(SUBSET Nodes) /\ Len(f) = Len(backends)
      BY <1>1, <2>3 DEF Backends
  <2> HIDE DEF f
  <2>5. backends' \in Seq(SUBSET Nodes) /\ Len(backends') = new
      BY <1>1, <2>1, <2>4
  <2>6. \A b \in Backends : backends'[b] = f[b]
      BY <1>1, <2>1, <2>4 DEF Backends
  <2> QED
      BY <2>2, <2>5, <2>6
<1>5. Backends' = Backends \union {new} /\ new \notin Backends
    BY <1>1, <1>4 DEF Backends
<1> HIDE DEF past, left, list, new
<1>6. excused' \subseteq Nodes /\ excused \subseteq excused'
  <2>1. \A b \in past : backends[b] \subseteq Nodes
      BY <1>1, <1>3, ElementOfSeq DEF Backends
  <2> QED
      BY <1>1, <1>2, <2>1
<1>7. KeptSoFar(list, Len(list), left)
    BY <1>3, RecentIs DEF left, Backend
<1>8. NodeStoreTypes'
  <2>1. left \in Seq([of : Backends', age : Nat])
    <3>1. left \in Seq(Backend)
        BY <1>7 DEF KeptSoFar
    <3>2. Backend \subseteq [of : Backends', age : Nat]
        BY <1>5 DEF Backend
    <3> QED
        BY <3>1, <3>2, WiderSeq
  <2>2. Storing \subseteq Storing'
      BY <1>5 DEF Storing
  <2>3. thread' \in [Threads -> {Resting} \union Fetching \union Storing']
      BY <1>2, <2>2 DEF NInv, NodeStoreTypes
  <2> QED
      BY <1>1, <1>2, <1>3, <1>4, <1>5, <1>6, <2>1, <2>3 DEF NodeStoreTypes, Fetching
<1>9. ASSUME excused' # Nodes PROVE Chained'
  <2>1. Chained /\ NodeStoreTypes
      BY <1>6, <1>9, <1>1 DEF NInv
  <2>2. /\ Lists(list)
        /\ \A b \in Backends \ closed : \E i \in DOMAIN list : list[i].of = b
      BY <2>1, WithPrimaryIs DEF list
  <2>3. DOMAIN list = 1 .. Len(list)
      BY <1>3
  <2>4. Distinct(left)
      BY <1>7, <2>2 DEF KeptSoFar, Lists
  <2>5. ASSUME NEW m \in DOMAIN left
        PROVE  left[m].of \in Backends /\ left[m].of \notin closed \union past
    <3>1. PICK j \in DOMAIN list : left[m] = list[j] /\ ~(list[j].age > Retention)
        BY <1>7, <2>3 DEF KeptSoFar
    <3>2. ASSUME NEW k \in DOMAIN list, list[k].age > Retention PROVE list[k].of # list[j].of
        BY <2>2, <3>1, <3>2 DEF Lists, Distinct
    <3>3. list[j].of \notin past
        BY <3>2 DEF past, Past
    <3>4. list[j].of \notin closed
        BY <2>2 DEF Lists
    <3>5. list[j] \in [of : Backends, age : Nat]
        BY <1>3, Elements
    <3> QED
        BY <3>1, <3>3, <3>4, <3>5
  <2>6. ASSUME NEW b \in Backends' \ closed'
        PROVE  b = primary' \/ \E m \in DOMAIN left : left[m].of = b
    <3> SUFFICES ASSUME b # new PROVE \E m \in DOMAIN left : left[m].of = b
        BY <1>2
    <3>1. b \in Backends \ closed /\ b \notin past
        BY <1>2, <1>5
    <3>2. PICK i \in DOMAIN list : list[i].of = b
        BY <2>2, <3>1
    <3>3. ~(list[i].age > Retention)
        BY <3>1, <3>2 DEF past, Past
    <3>4. PICK m \in DOMAIN left : left[m] = list[i]
        BY <1>7, <2>3, <3>3 DEF KeptSoFar
    <3> QED
        BY <3>2, <3>4
  <2>7. primary' \notin closed'
      BY <1>1, <1>2, <1>3, <1>5
  <2>8. \A i \in DOMAIN rotating' : rotating'[i].of # primary' /\ rotating'[i].of \notin closed'
      BY <1>2, <1>5, <2>5
  <2>9. Distinct(rotating')
      BY <1>2, <2>4
  <2> QED
      BY <1>2, <2>6, <2>7, <2>8, <2>9 DEF Chained, Lists, Distinct
<1>10. ASSUME NEW n \in Nodes \ excused', Written(n)' PROVE Kept(n)'
  <2>1. Written(n) /\ n \notin excused
      BY <1>2, <1>6, <1>10 DEF Written
  <2>2. PICK b \in Backends \ closed : n \in backends[b]
      BY <2>1 DEF NInv, Kept
  <2>3. b \notin past
      BY <1>2, <1>10, <2>2
  <2>4. b \in Backends' \ closed' /\ n \in backends'[b]
      BY <1>2, <1>4, <1>5, <2>2, <2>3
  <2> QED
      BY <2>4 DEF Kept
<1> QED
    BY <1>2, <1>6, <1>8, <1>9, <1>10 DEF NInv

LEMMA RotateFailsKeeps ==
    ASSUME NInv, RotateFails
    PROVE  NInv'
<1>1. UNCHANGED <<backends, closed, primary, cache, negative, thread, stored, missed>>
      /\ excused' = Nodes /\ rotating' = WithPrimary
    BY DEF RotateFails
<1> DEFINE e == [of |-> primary, age |-> 0]
<1>2. e \in [of : Backends, age : Nat] /\ rotating \in Seq([of : Backends, age : Nat])
    BY DEF NInv, NodeStoreTypes
<1> HIDE DEF e
<1>3. WithPrimary \in Seq([of : Backends, age : Nat])
    BY <1>2 DEF WithPrimary, e
<1>4. NodeStoreTypes'
    BY <1>1, <1>3 DEF NInv, NodeStoreTypes, Backends, Fetching, Storing
<1> QED
    BY <1>1, <1>4 DEF NInv, NodeStoreTypes

(* Time passes: the entries grow older, none comes and none goes.          *)
LEMMA TickKeeps ==
    ASSUME NInv, Tick
    PROVE  NInv'
<1>1. UNCHANGED <<backends, closed, primary, thread, stored, excused, missed>>
      /\ DOMAIN negative' = DOMAIN negative
    BY DEF Tick
<1>2. rotating \in Seq([of : Backends, age : Nat]) /\ DOMAIN rotating = 1 .. Len(rotating)
      /\ Len(rotating) \in Nat
    BY DEF NInv, NodeStoreTypes
<1>3. \A i \in DOMAIN rotating : rotating[i] \in [of : Backends, age : Nat]
    BY <1>2, Elements
<1>4. /\ DOMAIN rotating' = DOMAIN rotating
      /\ \A i \in DOMAIN rotating : rotating'[i] = [rotating[i] EXCEPT !.age = Older(@, Retention)]
    BY DEF Tick
<1>5. \A i \in DOMAIN rotating : rotating'[i] \in [of : Backends, age : Nat]
                                  /\ rotating'[i].of = rotating[i].of
    BY <1>3, <1>4 DEF Older
<1>6. rotating' \in Seq([of : Backends, age : Nat])
  <2> DEFINE R == [of : Backends, age : Nat]
  <2>1. rotating' = [i \in 1 .. Len(rotating) |-> rotating'[i]]
      BY <1>2 DEF Tick
  <2>2. \A i \in 1 .. Len(rotating) : rotating'[i] \in R
      BY <1>2, <1>5
  <2> HIDE DEF R
  <2>3. rotating' \in Seq(R)
      BY <1>2, <2>1, <2>2
  <2> QED
      BY <2>3 DEF R
<1>7. NodeStoreTypes'
    BY <1>1, <1>6 DEF NInv, NodeStoreTypes, Backends, Fetching, Storing
<1>8. (excused # Nodes => Chained)'
    BY <1>1, <1>4, <1>5 DEF NInv, Chained, Lists, Distinct, Backends
<1>9. ASSUME NEW n \in Nodes PROVE Written(n)' = Written(n) /\ Kept(n)' = Kept(n)
    BY <1>1 DEF Written, Kept, Backends
<1> QED
    BY <1>1, <1>7, <1>8, <1>9 DEF NInv

LEMMA NextKeepsNInv ==
    ASSUME NInv, [NodeStoreNext]_storeVars
    PROVE  NInv'
<1>1. CASE UNCHANGED storeVars
    BY <1>1, QuietStep DEF storeVars
<1>2. CASE Sweep
    BY <1>2, QuietStep DEF Sweep, Drop
<1> QED
    BY <1>1, <1>2, FetchKeeps, FetchNegativeKeeps, FetchBackendKeeps, FetchFillKeeps,
       FetchMarkKeeps, StoreKeeps, StoreWriteKeeps, StoreCacheKeeps, StoreClearKeeps,
       RotateKeeps, RotateFailsKeeps, TickKeeps DEF NodeStoreNext

THEOREM NInvHolds == NodeStoreSpec => []NInv
    BY InitNInv, NextKeepsNInv, PTL DEF NodeStoreSpec

(* No Fetch reports a node missing that was stored before it began, in any *)
(* interleaving of any number of Fetch and Store calls with rotations,     *)
(* sweeps, evictions and expiries, but for the exceptions StoredIsFound    *)
(* names.                                                                  *)
THEOREM StoredIsFoundHolds == NodeStoreSpec => []StoredIsFound
<1>1. NInv => StoredIsFound
    BY DEF NInv, StoredIsFound
<1> QED
    BY <1>1, NInvHolds, PTL
=============================================================================
