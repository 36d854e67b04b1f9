----------------------------- MODULE NodeStore ------------------------------
(***************************************************************************)
(* The node store (storage/nodestore/): a Database with an LRU cache of    *)
(* nodes and a negative cache of hashes known to be missing, over a        *)
(* RotatingDatabase that writes to a primary backend and reads from it and *)
(* from the backends it has rotated out, until their retention is over.    *)
(* Threads are inside Fetch and Store at the same time; each cache and the *)
(* list of backends has a lock of its own, held for one step only.         *)
(***************************************************************************)
EXTENDS Integers, Sequences, FiniteSets

CONSTANTS
    Nodes,          \* hashes; a node's data is determined by its hash
    Threads,        \* goroutines using the database
    CacheSize,      \* maxSize of the cache
    CacheTTL,       \* ttl of the cache, in ticks
    NegativeSize,   \* maxSize of the negative cache
    NegativeTTL,    \* ttl of the negative cache, in ticks
    Retention,      \* RetentionPeriod, in ticks
    MaxBackends     \* bound: backends ever created

VARIABLES
    backends,   \* every backend created: the nodes in it
    closed,     \* the backends that have been closed and deleted
    primary,    \* index of the primary backend
    rotating,   \* the rotated-out backends, oldest first: [of, age]
    cache,      \* the LRU list, most recently used first: [node, age]
    negative,   \* missing hash -> age of its entry
    thread,     \* thread -> the call it is in
    stored,     \* nodes whose Store has returned nil        (read by no code)
    excused,    \* nodes that may be reported missing anyway (read by no code)
    missed      \* nodes a Fetch had to find and has not     (read by no code)

storeVars ==
    <<backends, closed, primary, rotating, cache, negative, thread, stored, excused, missed>>

ASSUME NodeStoreConstants == Retention \in Nat

Resting == [call |-> "none"]

NodeStoreInit ==
    /\ backends = <<{}>> /\ closed = {}
    /\ primary = 1
    /\ rotating = <<>>
    /\ cache = <<>>
    /\ negative = <<>>
    /\ thread = [t \in Threads |-> Resting]
    /\ stored = {} /\ excused = {} /\ missed = {}

-----------------------------------------------------------------------------
(* The caches                                                              *)

NotOf(list, n) == SelectSeq(list, LAMBDA e : e.node # n)

CacheHas(n) == \E i \in DOMAIN cache : cache[i].node = n /\ cache[i].age <= CacheTTL

\* Get moves a live entry to the front and drops an expired one.
CacheGet(list, n) ==
    LET found == SelectSeq(list, LAMBDA e : e.node = n) IN
    IF found # <<>> /\ found[1].age <= CacheTTL THEN found \o NotOf(list, n) ELSE NotOf(list, n)

\* Put refreshes or adds the entry, then evicts from the back.
CachePut(list, n) ==
    LET all == <<[node |-> n, age |-> 0]>> \o NotOf(list, n) IN
    SubSeq(all, 1, IF Len(all) > CacheSize THEN CacheSize ELSE Len(all))

\* Sweep works from the back and stops at the first entry that has not
\* expired.
CacheSweep(list) ==
    LET live == {i \in DOMAIN list : list[i].age <= CacheTTL}
    IN SubSeq(list, 1, CHOOSE n \in live \union {0} : \A i \in live : i <= n)

Drop(f, keys) == [k \in DOMAIN f \ keys |-> f[k]]

Expired(neg) == {n \in DOMAIN neg : neg[n] > NegativeTTL}

\* MarkMissing evicts one of the oldest entries at capacity (maxSize / 10, at
\* least one), even when the hash is already among them.
Oldest(neg) == {n \in DOMAIN neg : \A m \in DOMAIN neg : neg[m] <= neg[n]}

MarkedMissing(n, victim) ==
    [m \in {n} \union (DOMAIN negative \ victim) |-> IF m = n THEN 0 ELSE negative[m]]

Victims(neg) == IF Cardinality(DOMAIN neg) >= NegativeSize THEN {{v} : v \in Oldest(neg)} ELSE {{}}

-----------------------------------------------------------------------------
(* The rotating database                                                   *)

\* RotatingDatabase.Fetch asks the primary, then the others from the newest
\* to the oldest, and gives up at the first one that is closed.
Order == <<primary>> \o [i \in DOMAIN rotating |-> rotating[Len(rotating) + 1 - i].of]

Reachable == {Order[i] : i \in {i \in DOMAIN Order : \A j \in 1 .. i : Order[j] \notin closed}}

BackendFetch(n) ==
    IF \E b \in Reachable : n \in backends[b] THEN "ok"
    ELSE IF \E i \in DOMAIN Order : Order[i] \in closed THEN "error"
    ELSE "notfound"

Begin(t, call, n) ==
    thread' = [thread EXCEPT ![t] = [call |-> call, node |-> n, owed |-> {n} \intersect stored]]

At(t, call) == thread[t].call = call

Goes(t, call) == thread' = [thread EXCEPT ![t].call = call]

\* Fetch returns nil, nil for a node whose Store had returned before it began.
Misses(t) == missed' = missed \union (thread[t].owed \ excused)

\* Fetch, step by step: the cache ...
Fetch(t, n) ==
    /\ thread[t] = Resting
    /\ cache' = CacheGet(cache, n)
    /\ IF CacheHas(n) THEN UNCHANGED thread ELSE Begin(t, "negative", n)
    /\ UNCHANGED <<backends, closed, primary, rotating, negative, stored, excused, missed>>

\* ... the negative cache (IsMissing drops an expired entry) ...
FetchNegative(t) ==
    /\ At(t, "negative")
    /\ negative' = Drop(negative, Expired(negative) \intersect {thread[t].node})
    /\ IF thread[t].node \in DOMAIN negative \ Expired(negative)
       THEN Misses(t) /\ thread' = [thread EXCEPT ![t] = Resting]
       ELSE Goes(t, "backend") /\ UNCHANGED missed
    /\ UNCHANGED <<backends, closed, primary, rotating, cache, stored, excused>>

\* ... the backends ...
FetchBackend(t) ==
    /\ At(t, "backend")
    /\ \E got \in {BackendFetch(thread[t].node)} :
        CASE got = "ok"       -> Goes(t, "fill") /\ UNCHANGED missed
          [] got = "notfound" -> Goes(t, "mark") /\ Misses(t)
          [] got = "error"    -> thread' = [thread EXCEPT ![t] = Resting] /\ Misses(t)
    /\ UNCHANGED <<backends, closed, primary, rotating, cache, negative, stored, excused>>

\* ... and the cache that remembers the answer.  A node stored since the
\* backends were asked is then marked missing all the same.
FetchFill(t) ==
    /\ At(t, "fill")
    /\ cache' = CachePut(cache, thread[t].node)
    /\ thread' = [thread EXCEPT ![t] = Resting]
    /\ UNCHANGED <<backends, closed, primary, rotating, negative, stored, excused, missed>>

FetchMark(t) ==
    /\ At(t, "mark")
    /\ \E victim \in Victims(negative) : negative' = MarkedMissing(thread[t].node, victim)
    /\ excused' = IF \E b \in Reachable : thread[t].node \in backends[b]
                  THEN excused \union {thread[t].node} ELSE excused
    /\ thread' = [thread EXCEPT ![t] = Resting]
    /\ UNCHANGED <<backends, closed, primary, rotating, cache, stored, missed>>

\* Store takes the primary under the lock and writes to it without it: by
\* then it may have been rotated out, or closed.
Store(t, n) ==
    /\ thread[t] = Resting
    /\ thread' = [thread EXCEPT ![t] = [call |-> "write", node |-> n, to |-> primary]]
    /\ UNCHANGED <<backends, closed, primary, rotating, cache, negative, stored, excused, missed>>

StoreWrite(t) ==
    /\ At(t, "write")
    /\ IF thread[t].to \notin closed
       THEN /\ backends' = [backends EXCEPT ![thread[t].to] = @ \union {thread[t].node}]
            /\ Goes(t, "cache")
       ELSE /\ thread' = [thread EXCEPT ![t] = Resting]
            /\ UNCHANGED backends
    /\ UNCHANGED <<closed, primary, rotating, cache, negative, stored, excused, missed>>

StoreCache(t) ==
    /\ At(t, "cache")
    /\ cache' = CachePut(cache, thread[t].node)
    /\ Goes(t, "clear")
    /\ UNCHANGED <<backends, closed, primary, rotating, negative, stored, excused, missed>>

\* Mutant: the negative cache is left as it is.
KeepMissing(n) == negative

ClearMissing(n) == Drop(negative, {n})

StoreClear(t) ==
    /\ At(t, "clear")
    /\ negative' = ClearMissing(thread[t].node)
    /\ stored' = stored \union {thread[t].node}
    /\ thread' = [thread EXCEPT ![t] = Resting]
    /\ UNCHANGED <<backends, closed, primary, rotating, cache, excused, missed>>

-----------------------------------------------------------------------------

\* cleanupExpiredBackendsLocked closes and deletes the backends that are past
\* their retention, and keeps the others.
Past(list) == {list[i].of : i \in {i \in DOMAIN list : list[i].age > Retention}}

keepRecent(list, i, remaining) ==
    IF list[i].age > Retention THEN remaining ELSE Append(remaining, list[i])

Recent == INSTANCE Loops WITH Step <- keepRecent

\* Rotate appends the primary to the rotated-out backends before it creates
\* its successor; when that fails the primary stays where it is, and is in
\* the list as well.
WithPrimary == Append(rotating, [of |-> primary, age |-> 0])

Rotate ==
    /\ Len(backends) < MaxBackends
    /\ backends' = Append([b \in DOMAIN backends |->
                             IF b \in Past(WithPrimary) THEN {} ELSE backends[b]], {})
    /\ closed' = closed \union Past(WithPrimary)
    /\ rotating' = Recent!Loop(WithPrimary, <<>>, Len(WithPrimary))
    /\ excused' = excused \union UNION {backends[b] : b \in Past(WithPrimary)}
    /\ primary' = Len(backends) + 1
    /\ UNCHANGED <<cache, negative, thread, stored, missed>>

RotateFails ==
    /\ Len(rotating) < MaxBackends - 1
    /\ rotating' = WithPrimary
    /\ excused' = Nodes
    /\ UNCHANGED <<backends, closed, primary, cache, negative, thread, stored, missed>>

Sweep ==
    /\ \/ \E i \in DOMAIN cache : cache[i].age > CacheTTL
       \/ Expired(negative) # {}
    /\ cache' = CacheSweep(cache)
    /\ negative' = Drop(negative, Expired(negative))
    /\ UNCHANGED <<backends, closed, primary, rotating, thread, stored, excused, missed>>

Older(age, limit) == IF age > limit THEN age ELSE age + 1

Tick ==
    /\ cache' = [i \in DOMAIN cache |-> [cache[i] EXCEPT !.age = Older(@, CacheTTL)]]
    /\ negative' = [n \in DOMAIN negative |-> Older(negative[n], NegativeTTL)]
    /\ rotating' = [i \in DOMAIN rotating |-> [rotating[i] EXCEPT !.age = Older(@, Retention)]]
    /\ UNCHANGED <<backends, closed, primary, thread, stored, excused, missed>>

NodeStoreNext ==
    \/ \E t \in Threads, n \in Nodes : Fetch(t, n) \/ Store(t, n)
    \/ \E t \in Threads :
          \/ FetchNegative(t) \/ FetchBackend(t) \/ FetchFill(t) \/ FetchMark(t)
          \/ StoreWrite(t) \/ StoreCache(t) \/ StoreClear(t)
    \/ Rotate \/ RotateFails \/ Sweep \/ Tick

NodeStoreSpec == NodeStoreInit /\ [][NodeStoreNext]_storeVars

-----------------------------------------------------------------------------
(* Properties                                                              *)

\* Fetch finds every node whose Store had returned when the call began,
\* across evictions, expiries and rotations, with the exceptions the code
\* makes: a node whose backend is past its retention, one that an
\* overlapping Fetch marked missing after it had been written, and
\* everything once a Rotate has failed (its primary is then both in use and
\* on the list that retention empties).
StoredIsFound == missed = {}

=============================================================================
