----------------------------- MODULE LedgerMaps -----------------------------
(***************************************************************************)
(* The SHAMaps of a node at work (shamap/shamap.go, and ledger.go which    *)
(* drives them): items are put into and deleted from modifiable maps, maps *)
(* are made immutable, backed by a store of nodes, and snapshotted, while  *)
(* two goroutines may be inside Snapshot of the same backed map and the    *)
(* store may refuse a batch.                                               *)
(*                                                                         *)
(* First what is read from a SHAMap without changing it: ordered lookups   *)
(* (iterator.go), the comparison of two maps (compare.go and               *)
(* FindDifference), and Merkle proofs (proof.go).                          *)
(***************************************************************************)
EXTENDS SHAMap

None == <<>>

Less(k1, k2) == \E n \in 1 .. MaxDepth : Upto(k1, n - 1) = Upto(k2, n - 1) /\ k1[n] < k2[n]

\* The tree once every node that can be fetched has been: what descend
\* makes of it when everything is visited.
Fetchable(t, backed, store) ==
    {q \in {Append(p, b) : p \in {p \in DOMAIN t : ~IsLeaf(t[p])}, b \in Branches} :
        backed /\ q \notin DOMAIN t /\ t[Front(q)].hashes[Last(q)] \in DOMAIN store}

FetchChildren(t, backed, store) ==
    t @@ [q \in Fetchable(t, backed, store) |-> Deserialize(store[t[Front(q)].hashes[Last(q)]])]

FetchAll(t, backed, store) ==
    FoldLeft(LAMBDA s, n : FetchChildren(s, backed, store), t, [i \in 1 .. MaxDepth |-> i])

Children(t, p) == {b \in Branches : Append(p, b) \in DOMAIN t}

-----------------------------------------------------------------------------
(* Ordered access                                                          *)

\* forEachUnsafe, and Begin followed by Next until it returns false.
RECURSIVE InOrder(_, _)
InOrder(t, p) ==
    IF IsLeaf(t[p]) THEN <<t[p].key>>
    ELSE FoldLeft(LAMBDA s, b : IF b \in Children(t, p) THEN s \o InOrder(t, Append(p, b)) ELSE s,
                  <<>>, [i \in Branches |-> i])

RECURSIVE FirstBelow(_, _)
FirstBelow(t, p) ==
    IF IsLeaf(t[p]) THEN t[p].key
    ELSE FirstBelow(t, Append(p, CHOOSE b \in Children(t, p) : \A c \in Children(t, p) : b <= c))

RECURSIVE LastBelow(_, _)
LastBelow(t, p) ==
    IF IsLeaf(t[p]) THEN t[p].key
    ELSE LastBelow(t, Append(p, CHOOSE b \in Children(t, p) : \A c \in Children(t, p) : b >= c))

\* The inner nodes of the walk towards id that have a child on the side of
\* their branch towards id that `side' selects; the deepest one is used.
Turns(t, w, side(_, _), id) ==
    {p \in Ancestors(w.path) : ~IsLeaf(t[p]) /\ \E b \in Children(t, p) : side(b, id[Len(p) + 1])}

Deepest(paths) == CHOOSE p \in paths : \A q \in paths : Len(q) <= Len(p)

After(b, c) == b > c

Before(b, c) == b < c

\* The first item of UpperBound(id): the least key above id.
UpperBoundOf(t, w, id, turns) ==
    IF w.end = "leaf" /\ Less(id, t[w.path].key) THEN t[w.path].key
    ELSE IF turns = {} THEN None
    ELSE LET p == Deepest(turns) IN
         FirstBelow(t, Append(p, Minimum({b \in Children(t, p) : After(b, id[Len(p) + 1])})))

UpperBound(t, id) ==
    UpperBoundOf(t, WalkToKey(t, id, FALSE, <<>>), id,
                 Turns(t, WalkToKey(t, id, FALSE, <<>>), After, id))

\* The item of LowerBound(id): the greatest key below id.
LowerBoundOf(t, w, id, turns) ==
    IF w.end = "leaf" /\ Less(t[w.path].key, id) THEN t[w.path].key
    ELSE IF turns = {} THEN None
    ELSE LET p == Deepest(turns) IN
         LastBelow(t, Append(p, CHOOSE b \in Children(t, p) :
                                    /\ Before(b, id[Len(p) + 1])
                                    /\ \A c \in Children(t, p) : Before(c, id[Len(p) + 1]) => c <= b))

LowerBound(t, id) ==
    LowerBoundOf(t, WalkToKey(t, id, FALSE, <<>>), id,
                 Turns(t, WalkToKey(t, id, FALSE, <<>>), Before, id))

-----------------------------------------------------------------------------
(* Compare, DeepEqual and FindDifference.  Two trees are compared along    *)
(* the paths they share, so an entry of the code's stack is one path.      *)

\* walkBranch: the keys below p in the order its stack visits them, without
\* the item of the other map that stands against the whole branch; that item
\* comes last when nothing below matched it.
WalkBranch(t, p, other) ==
    LET keys == Reverse(InOrder(t, p))
        leafOf(k) == t[CHOOSE q \in Below(t, p) : IsLeaf(t[q]) /\ t[q].key = k]
    IN IF other = None THEN keys
       ELSE SelectSeq(keys, LAMBDA k : k # other.key \/ leafOf(k).data # other.data)
                \o (IF \E i \in DOMAIN keys : keys[i] = other.key THEN <<>> ELSE <<other.key>>)

HandleLeafComparison(ours, theirs) ==
    IF ours.key # theirs.key THEN <<ours.key, theirs.key>>
    ELSE IF ours.data # theirs.data THEN <<ours.key>>
    ELSE <<>>

\* The branches of handleInnerComparison that only one side has ...
OneSided(t1, t2, p) ==
    FoldLeft(LAMBDA s, b :
                CASE b \in Children(t1, p) \ Children(t2, p) -> s \o WalkBranch(t1, Append(p, b), None)
                  [] b \in Children(t2, p) \ Children(t1, p) -> s \o WalkBranch(t2, Append(p, b), None)
                  [] OTHER -> s,
             <<>>, [i \in Branches |-> i])

\* ... and the ones it has to look into.
Unequal(t1, t2, p) ==
    SelectSeq([i \in Branches |-> Append(p, i)],
              LAMBDA q : /\ q \in DOMAIN t1 /\ q \in DOMAIN t2
                         /\ HashOf(t1[q]) # HashOf(t2[q]))

Differing(t1, t2, p) ==
    CASE IsLeaf(t1[p]) /\ IsLeaf(t2[p])   -> HandleLeafComparison(t1[p], t2[p])
      [] ~IsLeaf(t1[p]) /\ IsLeaf(t2[p])  -> WalkBranch(t1, p, t2[p])
      [] IsLeaf(t1[p]) /\ ~IsLeaf(t2[p])  -> WalkBranch(t2, p, t1[p])
      [] ~IsLeaf(t1[p]) /\ ~IsLeaf(t2[p]) -> OneSided(t1, t2, p)

\* One turn of compareUnsafe.  A turn over two inner nodes that share no
\* unequal branch returns a nil slice, which the caller takes for the limit
\* having been reached: it stops there, and says it is incomplete.
RECURSIVE CompareFrom(_, _, _, _, _)
CompareFrom(t1, t2, stack, found, max) ==
    IF stack = <<>> THEN [keys |-> found, complete |-> TRUE]
    ELSE LET p == Last(stack)
             all == found \o Differing(t1, t2, p)
             inner == ~IsLeaf(t1[p]) /\ ~IsLeaf(t2[p])
         IN IF max > 0 /\ Len(all) >= max
            THEN [keys |-> SubSeq(all, 1, max), complete |-> FALSE]
            ELSE IF inner /\ Unequal(t1, t2, p) = <<>>
            THEN [keys |-> all, complete |-> FALSE]
            ELSE CompareFrom(t1, t2,
                             Front(stack) \o (IF inner THEN Unequal(t1, t2, p) ELSE <<>>), all, max)

Compare(t1, t2, max) ==
    IF t1[<<>>].hash = t2[<<>>].hash THEN [keys |-> <<>>, complete |-> TRUE]
    ELSE CompareFrom(t1, t2, <<<<>>>>, <<>>, max)

DeepEqual(t1, t2) == Compare(t1, t2, 1).keys = <<>>

\* FindDifference looks at loaded children only, and counts a leaf that
\* stands against an inner node as different whatever is below it.
KeysBelow(t, p) == {t[q].key : q \in {q \in Below(t, p) : IsLeaf(t[q])}}

RECURSIVE FindDifferenceAt(_, _, _)
FindDifferenceAt(t1, t2, p) ==
    CASE p \notin DOMAIN t1 -> KeysBelow(t2, p)
      [] p \notin DOMAIN t2 -> KeysBelow(t1, p)
      [] p \in DOMAIN t1 /\ p \in DOMAIN t2 /\ HashOf(t1[p]) = HashOf(t2[p]) -> {}
      [] OTHER ->
            IF IsLeaf(t1[p]) \/ IsLeaf(t2[p]) THEN KeysBelow(t1, p) \union KeysBelow(t2, p)
            ELSE UNION {FindDifferenceAt(t1, t2, Append(p, b)) :
                            b \in Children(t1, p) \union Children(t2, p)}

FindDifference(t1, t2) == FindDifferenceAt(t1, t2, <<>>)

-----------------------------------------------------------------------------
(* Proofs                                                                  *)

\* GetProofPath: the serialized nodes from the leaf to the root.
ProofOf(t, w, key) ==
    IF ~Found(w, key) THEN <<>>
    ELSE [i \in 1 .. Len(w.path) + 1 |-> Serialize(t[Upto(w.path, Len(w.path) + 1 - i)])]

GetProofPath(t, key) == ProofOf(t, WalkToKey(t, key, FALSE, <<>>), key)

\* VerifyProofPath: from the root's blob to the leaf's, every blob hashes
\* to what the previous one has on the branch towards the key.
VerifyStep(v, node, key, last) ==
    IF v.ok /\ HashOf(node) = v.hash
    THEN IF IsLeaf(node) THEN [v EXCEPT !.ok = last /\ node.key = key, !.leaf = TRUE]
         ELSE [ok |-> node.hashes[key[v.depth + 1]] # Zero, leaf |-> FALSE,
               depth |-> v.depth + 1, hash |-> node.hashes[key[v.depth + 1]]]
    ELSE [v EXCEPT !.ok = FALSE]

Verified(v) == v.ok /\ v.leaf

VerifyProofPath(rootHash, key, path) ==
    /\ path # <<>>
    /\ Verified(FoldLeft(LAMBDA v, i : VerifyStep(v, Deserialize(path[i]), key, i = 1),
                         [ok |-> TRUE, leaf |-> FALSE, depth |-> 0, hash |-> rootHash],
                         [i \in 1 .. Len(path) |-> Len(path) + 1 - i]))

-----------------------------------------------------------------------------
CONSTANTS
    Slots,      \* variables holding a *SHAMap
    Callers,    \* goroutines that call Snapshot
    UsedKeys,   \* the keys items are put under
    MapType     \* "state" or "tx"

VARIABLES
    maps,       \* slot -> the map it holds
    store,      \* the Family: hash -> serialized node
    snapping,   \* caller -> its Snapshot call in progress
    refused,    \* some StoreBatch has returned an error
    entered     \* slot -> what its map must hold (no code reads it)

mapVars == <<maps, store, snapping, refused, entered>>

NoMap == [state |-> "none"]
Idle == [stage |-> "idle"]

Modifying(m) == maps[m].state = "modifying"
Live(m) == maps[m].state # "none"

LeafType == IF MapType = "tx" THEN "tx+meta" ELSE "account_state"

\* New and NewBacked.
MapsInit(backed) ==
    /\ maps = [m \in Slots |->
                IF m = CHOOSE s \in Slots : TRUE
                THEN [state |-> "modifying", backed |-> backed, tree |-> <<>> :> NewInner]
                ELSE NoMap]
    /\ store = <<>>
    /\ snapping = [c \in Callers |-> Idle]
    /\ refused = FALSE
    /\ entered = [m \in Slots |-> <<>>]

Tree(m) == maps[m].tree

Walk(m, key) == WalkToKey(Tree(m), key, maps[m].backed, store)

\* Put stores with the map's own leaf type; the transaction maps of ledgers
\* and transaction sets are filled with PutWithNodeType.
PutTree(m, key, data) ==
    IF MapType = "tx"
    THEN PutItemWithNodeType(Tree(m), LeafType, key, data, maps[m].backed, store)
    ELSE PutItem(Tree(m), LeafType, key, data, maps[m].backed, store)

Put(m, key, data) ==
    /\ Modifying(m)
    /\ maps' = [maps EXCEPT ![m].tree = PutTree(m, key, data)]
    /\ entered' = IF Walk(m, key).end = "error" THEN entered
                ELSE [entered EXCEPT ![m] = (key :> data) @@ @]
    /\ UNCHANGED <<store, snapping, refused>>

Delete(m, key) ==
    /\ Modifying(m)
    /\ Found(Walk(m, key), key)
    /\ maps' = [maps EXCEPT ![m].tree = DeleteItem(@, LeafType, key, maps[m].backed, store)]
    /\ entered' = IF DeleteLeaf(Walk(m, key), LeafType, maps[m].backed, store).failed THEN entered
                ELSE [entered EXCEPT ![m] = Without(@, {key})]
    /\ UNCHANGED <<store, snapping, refused>>

\* Get, Has: the nodes fetched on the way stay attached to the tree.
Get(m, key) ==
    /\ Live(m)
    /\ Walk(m, key).tree # Tree(m)
    /\ maps' = [maps EXCEPT ![m].tree = Walk(m, key).tree]
    /\ UNCHANGED <<store, snapping, refused, entered>>

SetImmutable(m) ==
    /\ Live(m)
    /\ maps' = [maps EXCEPT ![m].state = "immutable"]
    /\ UNCHANGED <<store, snapping, refused, entered>>

\* SetFamily on a map that was created without one.
SetFamily(m) ==
    /\ Live(m) /\ ~maps[m].backed
    /\ maps' = [maps EXCEPT ![m].backed = TRUE]
    /\ UNCHANGED <<store, snapping, refused, entered>>

StateFor(mutable) == IF mutable THEN "modifying" ELSE "immutable"

\* Snapshot of a map without a store: a deep copy.
SnapshotClone(m, to, mutable) ==
    /\ Live(m) /\ ~maps[m].backed /\ to # m
    /\ maps' = [maps EXCEPT ![to] =
                  [state |-> StateFor(mutable), backed |-> FALSE, tree |-> CloneNodeTree(Tree(m))]]
    /\ entered' = [entered EXCEPT ![to] = entered[m]]
    /\ UNCHANGED <<store, snapping, refused>>

\* snapshotBacked, first part: FlushDirty under the map's lock marks the
\* nodes clean before anything has been stored.
SnapshotFlush(c, m) ==
    /\ Live(m) /\ maps[m].backed /\ snapping[c] = Idle
    /\ CanFlush(Tree(m))
    /\ maps' = [maps EXCEPT ![m].tree = Flushed(@, FALSE)]
    /\ snapping' = [snapping EXCEPT ![c] = [stage |-> "flushed", map |-> m, batch |-> Batch(Tree(m))]]
    /\ UNCHANGED <<store, refused, entered>>

\* Second part, without the lock: the batch is stored, or Snapshot fails.
SnapshotStore(c) ==
    /\ snapping[c].stage = "flushed"
    /\ \/ /\ store' = snapping[c].batch @@ store
          /\ snapping' = [snapping EXCEPT ![c] = [stage |-> "stored", map |-> snapping[c].map]]
          /\ UNCHANGED refused
       \/ /\ snapping[c].batch # <<>>
          /\ snapping' = [snapping EXCEPT ![c] = Idle]
          /\ refused' = TRUE
          /\ UNCHANGED store
    /\ UNCHANGED <<maps, entered>>

\* Third part, under the lock again: the root is read back by its hash.
SnapshotOpen(c, to, mutable) ==
    /\ snapping[c].stage = "stored"
    /\ LET m == snapping[c].map  h == Tree(m)[<<>>].hash IN
       /\ to # m
       /\ IF h \in DOMAIN store
          THEN /\ maps' = [maps EXCEPT ![to] =
                            [state |-> StateFor(mutable), backed |-> TRUE, tree |-> FromRootHash(h, store)]]
               /\ entered' = [entered EXCEPT ![to] = entered[m]]
          ELSE UNCHANGED <<maps, entered>>
    /\ snapping' = [snapping EXCEPT ![c] = Idle]
    /\ UNCHANGED <<store, refused>>

\* A caller that flushes and stores on its own account and releases the
\* memory (FlushDirty with releaseChildren).
FlushAndRelease(m) ==
    /\ Live(m) /\ maps[m].backed /\ CanFlush(Tree(m)) /\ Tree(m)[<<>>].dirty
    /\ store' = Batch(Tree(m)) @@ store
    /\ maps' = [maps EXCEPT ![m].tree = Flushed(@, TRUE)]
    /\ UNCHANGED <<snapping, refused, entered>>

Writing == \E m \in Slots, key \in UsedKeys :
              \/ \E data \in Data : Put(m, key, data)
              \/ Delete(m, key)
              \/ Get(m, key)

Snapshotting ==
    \/ \E m, to \in Slots, mutable \in BOOLEAN : SnapshotClone(m, to, mutable)
    \/ \E c \in Callers, m \in Slots : SnapshotFlush(c, m)
    \/ \E c \in Callers : SnapshotStore(c)
    \/ \E c \in Callers, to \in Slots, mutable \in BOOLEAN : SnapshotOpen(c, to, mutable)

MapsNext ==
    \/ Writing
    \/ Snapshotting
    \/ \E m \in Slots : SetImmutable(m) \/ SetFamily(m) \/ FlushAndRelease(m)

-----------------------------------------------------------------------------
(* Properties                                                              *)

\* The hash README.md defines for a set of items: zero for none, the leaf's
\* for one, and otherwise the hash of the sixteen hashes one branch further.
RECURSIVE MerkleHash(_, _, _)
MerkleHash(held, p, type) ==
    LET keys == {k \in DOMAIN held : IsPrefix(p, k)}  k == CHOOSE k \in keys : TRUE IN
    IF keys = {} THEN Zero
    ELSE IF p # <<>> /\ Cardinality(keys) = 1 THEN <<type, k, held[k]>>
    ELSE <<[b \in Branches |-> MerkleHash(held, Append(p, b), type)]>>

\* "SHAMap is deterministic: same inputs always produce the same root hash"
\* (shamap/README.md): whatever the order of puts, deletes, snapshots and
\* reloads, a map's root hash is the one its items define.
HashIsContents == \A m \in Slots : Live(m) => Tree(m)[<<>>].hash = MerkleHash(entered[m], <<>>, LeafType)

\* As long as the store has refused nothing and no flushed batch is still on
\* its way, every map can be read to its last node: nothing a flush marked
\* clean, and nothing a snapshot shares with the map it came from, is lost.
NothingLost ==
    ~refused /\ (\A c \in Callers : snapping[c].stage # "flushed")
        => \A m \in {m \in Slots : Live(m)} : MissingNodes(FetchAll(Tree(m), maps[m].backed, store)) = {}

\* Reference definitions for the queries.
LeastKey(keys) == CHOOSE k \in keys : \A l \in keys : k = l \/ Less(k, l)
Greatest(keys) == CHOOSE k \in keys : \A l \in keys : k = l \/ Less(l, k)

DifferentKeys(f, g) ==
    {k \in DOMAIN f \union DOMAIN g : ~(k \in DOMAIN f /\ k \in DOMAIN g /\ f[k] = g[k])}

OrderAgrees(t, held) ==
    /\ ToSet(InOrder(t, <<>>)) = DOMAIN held
    /\ \A i, j \in DOMAIN InOrder(t, <<>>) : i < j => Less(InOrder(t, <<>>)[i], InOrder(t, <<>>)[j])
    /\ \A id \in ItemKeys :
        LET above == {k \in DOMAIN held : Less(id, k)}  below == {k \in DOMAIN held : Less(k, id)} IN
        /\ UpperBound(t, id) = IF above = {} THEN None ELSE LeastKey(above)
        /\ LowerBound(t, id) = IF below = {} THEN None ELSE Greatest(below)

\* The places where a comparison without a limit ends too early: the two maps
\* have an inner node at the same path, and differ below it only in branches
\* that one of them has and the other has not.
Stoppers(t, u) ==
    {p \in DOMAIN t \intersect DOMAIN u :
        /\ ~IsLeaf(t[p]) /\ ~IsLeaf(u[p])
        /\ Children(t, p) # Children(u, p)
        /\ \A b \in Children(t, p) \intersect Children(u, p) :
              HashOf(t[Append(p, b)]) = HashOf(u[Append(p, b)])}

CompareAgrees(t, u, differ) ==
    LET all == Compare(t, u, 0) IN
    /\ ToSet(all.keys) \subseteq differ
    /\ all.complete <=> Stoppers(t, u) = {}
    /\ all.complete => ToSet(all.keys) = differ
    /\ DeepEqual(t, u) <=> differ = {}

ProofsAgree(t, u, held) ==
    \A k, l \in ItemKeys :
        /\ (GetProofPath(t, k) # <<>>) <=> k \in DOMAIN held
        /\ VerifyProofPath(u[<<>>].hash, l, GetProofPath(t, k))
              <=> k \in DOMAIN held /\ l = k /\ t[<<>>].hash = u[<<>>].hash

Complete(m) == Live(m) /\ MissingNodes(FetchAll(Tree(m), maps[m].backed, store)) = {}

Whole(m) == FetchAll(Tree(m), maps[m].backed, store)

\* What is read from whole maps agrees with their items: iteration visits
\* them in key order, UpperBound and LowerBound give the next item on either
\* side of any key, Compare without a limit reports no key that does not
\* differ and all that do, unless it meets two inner nodes that differ only in
\* branches one of them lacks: there it stops, and says it is incomplete.
\* DeepEqual is equality, FindDifference misses nothing, and a proof verifies for the item it was made for against
\* the root of every map with the same items, and for nothing else.
QueriesAgree ==
    \A m, n \in {m \in Slots : Complete(m)} :
        /\ OrderAgrees(Whole(m), entered[m])
        /\ CompareAgrees(Whole(m), Whole(n), DifferentKeys(entered[m], entered[n]))
        /\ DifferentKeys(entered[m], entered[n]) \subseteq FindDifference(Whole(m), Whole(n))
        /\ ProofsAgree(Whole(m), Whole(n), entered[m])

\* "maxCount limits the number of differences to find (0 = no limit).  Returns
\* complete=true if all differences found, false if truncated"
\* (shamap/compare.go:15-16): a Compare without a limit truncates nothing, so
\* it finds every key that differs between two whole maps and is complete.
CompareFindsAll ==
    \A m, n \in {m \in Slots : Complete(m)} :
        LET all == Compare(Whole(m), Whole(n), 0) IN
        all.complete /\ ToSet(all.keys) = DifferentKeys(entered[m], entered[n])

=============================================================================
