------------------------------- MODULE SHAMap -------------------------------
(***************************************************************************)
(* The SHAMap (shamap/): the Merkle radix tree that holds a ledger's state *)
(* entries or its transactions.  A tree is a function from paths to nodes: *)
(* the path of a node is the sequence of branches that leads to it from    *)
(* the root <<>>, and a child that is referenced by its hash but has not   *)
(* been fetched (a nil pointer beside a stored hash) is simply absent from *)
(* the function's domain.  A hash is collision free: it is the structure   *)
(* it is computed from.  Every inner node keeps the hash it computed when  *)
(* it was last changed (BaseNode.hash), beside the hashes of its children. *)
(***************************************************************************)
EXTENDS Integers, FiniteSets, SequencesExt, TLC

CONSTANTS
    BranchFactor,   \* 16 in the code
    MaxDepth,       \* 64 in the code: the length of a key in branches
    Data            \* the payloads an item may carry

ASSUME SHAMapAssumption ==
    /\ BranchFactor \in Nat \ {0, 1}
    /\ MaxDepth \in Nat \ {0}

Branches == 1 .. BranchFactor
ItemKeys == [1 .. MaxDepth -> Branches]

Zero == <<>>

Upto(key, n) == SubSeq(key, 1, n)

Ancestors(p) == {Upto(p, n) : n \in 0 .. Len(p)}

Minimum(S) == CHOOSE x \in S : \A y \in S : x <= y

-----------------------------------------------------------------------------
(* Nodes.  A leaf's hash is always the hash of what it holds; an inner     *)
(* node's is a field that only UpdateHash rewrites.                        *)

NewLeaf(type, key, data) ==
    [kind |-> "leaf", type |-> type, key |-> key, data |-> data, dirty |-> TRUE]

NewInner ==
    [kind |-> "inner", bits |-> {}, hashes |-> [b \in Branches |-> Zero],
     hash |-> Zero, dirty |-> TRUE]

IsLeaf(n) == n.kind = "leaf"

HashOf(n) == IF IsLeaf(n) THEN <<n.type, n.key, n.data>> ELSE n.hash

\* updateHashUnsafe: a loaded child is asked for its hash, an unloaded one
\* is represented by the stored hash.
ChildHash(t, p, node, b) ==
    IF b \notin node.bits THEN Zero
    ELSE IF Append(p, b) \in DOMAIN t THEN HashOf(t[Append(p, b)])
    ELSE node.hashes[b]

UpdateHash(t, p, node) ==
    [node EXCEPT !.hash = IF node.bits = {} THEN Zero
                          ELSE <<[b \in Branches |-> ChildHash(t, p, node, b)]>>]

\* SetChild(branch, child): the child is the node already at Append(p, b);
\* its absence is SetChild(branch, nil).
SetChild(t, p, b) ==
    LET present == Append(p, b) \in DOMAIN t IN
    (p :> UpdateHash(t, p,
            [t[p] EXCEPT !.bits = IF present THEN @ \union {b} ELSE @ \ {b},
                         !.hashes[b] = IF present THEN HashOf(t[Append(p, b)]) ELSE Zero,
                         !.dirty = TRUE]))
        @@ t

Without(t, paths) == [p \in DOMAIN t \ paths |-> t[p]]

Below(t, p) == {q \in DOMAIN t : IsPrefix(p, q)}

\* What SerializeWithPrefix (or SerializeForWire) writes, and what a reader
\* of those bytes gets back: the children of an inner node stay unloaded.
Serialize(n) ==
    IF IsLeaf(n) THEN [kind |-> "leaf", type |-> n.type, key |-> n.key, data |-> n.data]
    ELSE [kind |-> "inner", hashes |-> [b \in Branches |-> IF b \in n.bits THEN n.hashes[b] ELSE Zero]]

Deserialize(bytes) ==
    IF bytes.kind = "leaf"
    THEN [NewLeaf(bytes.type, bytes.key, bytes.data) EXCEPT !.dirty = FALSE]
    ELSE LET set == {b \in Branches : bytes.hashes[b] # Zero} IN
         [kind |-> "inner", bits |-> set, hashes |-> bytes.hashes,
          hash |-> IF set = {} THEN Zero ELSE <<bytes.hashes>>, dirty |-> FALSE]

-----------------------------------------------------------------------------
(* Walking to a key, fetching the nodes that are not loaded on the way     *)
(* (descend).  The walk ends at a leaf, at an empty slot, or with an error *)
(* when the store lacks a node.                                            *)

Descend(t, p, b, backed, store) ==
    LET q == Append(p, b)  h == t[p].hashes[b] IN
    IF q \in DOMAIN t THEN [tree |-> t, got |-> "node"]
    ELSE IF ~backed \/ h = Zero THEN [tree |-> t, got |-> "nothing"]
    ELSE IF h \notin DOMAIN store THEN [tree |-> t, got |-> "error"]
    ELSE [tree |-> (q :> Deserialize(store[h])) @@ t, got |-> "node"]

WalkStep(w, b, backed, store) ==
    IF w.end # "walking" THEN w
    ELSE IF b \notin w.tree[w.path].bits THEN [w EXCEPT !.end = "empty"]
    ELSE LET d == Descend(w.tree, w.path, b, backed, store)
             q == Append(w.path, b)
         IN CASE d.got = "nothing" -> [w EXCEPT !.end = "empty"]
              [] d.got = "error"   -> [w EXCEPT !.end = "error"]
              [] d.got = "node"    ->
                    [tree |-> d.tree, path |-> q,
                     end |-> IF IsLeaf(d.tree[q]) THEN "leaf" ELSE "walking"]

WalkToKey(t, key, backed, store) ==
    FoldLeft(LAMBDA w, b : WalkStep(w, b, backed, store),
             [tree |-> t, path |-> <<>>, end |-> "walking"], key)

Found(w, key) == w.end = "leaf" /\ w.tree[w.path].key = key

\* dirtyUp: from the node at path p to the root, every ancestor takes its
\* child's hash and recomputes its own.
DirtyUp(t, p) ==
    FoldLeft(LAMBDA s, n : SetChild(s, Upto(p, n), p[n + 1]),
             t, [i \in 1 .. Len(p) |-> Len(p) - i])

FindSplitDepth(key1, key2, from) ==
    Minimum({d \in from .. MaxDepth - 1 : key1[d + 1] # key2[d + 1]})

-----------------------------------------------------------------------------
(* PutItem                                                                 *)

\* The tree in which the leaf at path p has made room for an empty chain of
\* inner nodes down to depth d, and the two leaves hang below the last one.
Split(t, p, leaf, d) ==
    [q \in {Upto(leaf.key, n) : n \in Len(p) .. d} |-> NewInner]
        @@ (Upto(leaf.key, d + 1) :> leaf)
        @@ (Upto(t[p].key, d + 1) :> t[p])
        @@ t

Attach(t, leaf, existing, d) ==
    SetChild(SetChild(t, Upto(leaf.key, d), leaf.key[d + 1]), Upto(leaf.key, d), existing[d + 1])

\* The split as putItemWithNodeTypeUnsafe performs it: the chain is
\* linked from the top down while its nodes are still empty, and only the
\* last of them is given the two leaves.
LinkDown(t, key, from, d) ==
    FoldLeft(LAMBDA s, n :
                (Upto(key, n) :> [NewInner EXCEPT !.bits = {key[n + 1]},
                                                  !.hash = <<[b \in Branches |-> Zero]>>]) @@ s,
             t, [i \in 1 .. d - from |-> from + i - 1])

SplitDownward(t, p, leaf) ==
    LET d == FindSplitDepth(leaf.key, t[p].key, Len(p)) IN
    DirtyUp(Attach(LinkDown(Split(t, p, leaf, d), leaf.key, Len(p), d), leaf, t[p].key, d), p)

\* Mutant: PutItem splits the way PutWithNodeType does.
CreateSplitDownward(t, p, leaf) == SplitDownward(t, p, leaf)

\* createSplitStructure, for PutItem, works from the split upwards.
CreateSplitStructure(t, p, leaf) ==
    LET d == FindSplitDepth(leaf.key, t[p].key, Len(p)) IN
    DirtyUp(Attach(Split(t, p, leaf, d), leaf, t[p].key, d), Upto(leaf.key, d))

PutLeaf(w, leaf, split(_, _, _)) ==
    CASE w.end = "error" -> w.tree
      [] w.end = "empty" ->
            LET q == Append(w.path, leaf.key[Len(w.path) + 1]) IN DirtyUp((q :> leaf) @@ w.tree, q)
      [] Found(w, leaf.key) -> DirtyUp((w.path :> leaf) @@ w.tree, w.path)
      [] OTHER -> split(w.tree, w.path, leaf)

PutItem(t, type, key, data, backed, store) ==
    PutLeaf(WalkToKey(t, key, backed, store), NewLeaf(type, key, data), CreateSplitStructure)

PutItemWithNodeType(t, type, key, data, backed, store) ==
    PutLeaf(WalkToKey(t, key, backed, store), NewLeaf(type, key, data), SplitDownward)

-----------------------------------------------------------------------------
(* Delete.  Every inner node on the way up is replaced by a clone, and a   *)
(* clone copies everything below it as new, unflushed nodes.               *)

AllDirty(t) == [p \in DOMAIN t |-> [t[p] EXCEPT !.dirty = TRUE]]

RECURSIVE OnlyBelow(_, _, _, _)
OnlyBelow(t, p, backed, store) ==
    IF IsLeaf(t[p]) THEN [end |-> "item", leaf |-> t[p]]
    ELSE LET tried == [b \in Branches |-> Descend(t, p, b, backed, store)]
             kids == {b \in Branches : tried[b].got = "node"}
         IN CASE \E b \in Branches : tried[b].got = "error" -> [end |-> "error"]
              [] Cardinality(kids) # 1 -> [end |-> "many"]
              [] OTHER -> LET b == CHOOSE b \in kids : TRUE
                          IN OnlyBelow(tried[b].tree, Append(p, b), backed, store)

\* One turn of consolidateAfterDelete: the node at path p has lost, or has
\* had replaced, its child on branch b.
Consolidate(s, p, b, type, backed, store) ==
    LET t == SetChild(s.tree, p, b) IN
    IF s.failed THEN s
    ELSE IF p = <<>> \/ Cardinality(t[p].bits) > 1 THEN [s EXCEPT !.tree = t]
    ELSE IF t[p].bits = {} THEN [s EXCEPT !.tree = Without(t, {p})]
    ELSE LET only == OnlyBelow(t, p, backed, store) IN
         CASE only.end = "error" -> [s EXCEPT !.failed = TRUE]
           [] only.end = "many"  -> [s EXCEPT !.tree = t]
           [] only.end = "item"  ->
                [s EXCEPT !.tree = (p :> NewLeaf(type, only.leaf.key, only.leaf.data))
                                        @@ Without(t, Below(t, p))]

DeleteLeaf(w, type, backed, store) ==
    FoldLeft(LAMBDA s, n : Consolidate(s, Upto(w.path, n), w.path[n + 1], type, backed, store),
             [tree |-> AllDirty(Without(w.tree, {w.path})), failed |-> FALSE],
             [i \in 1 .. Len(w.path) |-> Len(w.path) - i])

\* The tree after Delete(key): the walk's own tree when the item is absent
\* or a node could not be fetched.
Deleted(w, key, type, backed, store) ==
    IF ~Found(w, key) THEN w.tree
    ELSE LET s == DeleteLeaf(w, type, backed, store) IN
         IF s.failed THEN w.tree ELSE s.tree

DeleteItem(t, type, key, backed, store) ==
    Deleted(WalkToKey(t, key, backed, store), key, type, backed, store)

-----------------------------------------------------------------------------
(* FlushDirty and the two kinds of snapshot                                *)

\* Mutant: the flush stops below the root's children.
DirtyRoot(t) == {p \in DOMAIN t : Len(p) <= 1 /\ \A q \in Ancestors(p) : t[q].dirty}

\* The dirty nodes FlushDirty reaches: it does not look below a clean one.
DirtyNodes(t) == {p \in DOMAIN t : \A q \in Ancestors(p) : t[q].dirty}

\* An empty inner node cannot be serialized (ErrEmptyNonRoot).
CanFlush(t) == \A p \in DirtyNodes(t) : ~IsLeaf(t[p]) => t[p].bits # {}

Batch(t) ==
    [h \in {HashOf(t[p]) : p \in DirtyNodes(t)} |->
        Serialize(t[CHOOSE p \in DirtyNodes(t) : HashOf(t[p]) = h])]

Flushed(t, release) ==
    LET clean == [p \in DOMAIN t |-> IF p \in DirtyNodes(t) THEN [t[p] EXCEPT !.dirty = FALSE] ELSE t[p]] IN
    IF release /\ t[<<>>].dirty THEN Without(clean, DOMAIN t \ {<<>>}) ELSE clean

\* cloneNodeTree: a copy of what is loaded, with every hash computed again
\* from the leaves up.
CloneInner(t, p) ==
    FoldLeft(LAMBDA s, b : IF Append(p, b) \in DOMAIN s THEN SetChild(s, p, b) ELSE s,
             t, [i \in Branches |-> i])

CloneLevel(t, n) ==
    FoldLeft(CloneInner, t, SetToSeq({p \in DOMAIN t : Len(p) = n /\ ~IsLeaf(t[p])}))

CloneNodeTree(t) ==
    FoldLeft(CloneLevel, AllDirty(t), [i \in 1 .. MaxDepth + 1 |-> MaxDepth + 1 - i])

\* getMissingNodesUnsafe: the children that are referenced and not loaded.
MissingNodes(t) ==
    {q \in {Append(p, b) : p \in {p \in DOMAIN t : ~IsLeaf(t[p])}, b \in Branches} :
        Last(q) \in t[Front(q)].bits /\ q \notin DOMAIN t}

\* NewFromRootHash: the root alone, everything else still to be fetched.
FromRootHash(h, store) == <<>> :> Deserialize(store[h])

=============================================================================
