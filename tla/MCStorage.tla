----------------------------- MODULE MCStorage ------------------------------
(***************************************************************************)
(* What holds a ledger's state, on small instances, one part at a time:    *)
(*   "table"   the table a transactor works on, over the entries below it; *)
(*   "bytes"   the bytes of one ledger entry, and its metadata;            *)
(*   "memory"  maps that live in memory, as the node's ledgers do: puts,   *)
(*             deletes and snapshots in every order, to exhaustion;        *)
(*   "backed"  maps over a store of nodes, every history of Steps calls    *)
(*             with two goroutines inside Snapshot;                        *)
(*   "nodes"   the node store and its caches, to exhaustion.               *)
(* Only one item has a second value of its data, and only in memory.       *)
(***************************************************************************)
EXTENDS LedgerMaps, NodeStore, ApplyStateTable, LedgerEntries

CONSTANTS
    Parts,  \* the parts to explore
    Steps,  \* bound: calls on backed maps
    MaxTx,  \* bound: transactions in a row on one table
    v1, v2  \* values of entries

VARIABLES
    part,   \* the part this behaviour is about
    steps   \* calls still to be made on backed maps

vars == <<mapVars, storeVars, tableVars, entryVars, part, steps>>

\* Key 1 is an account root, key 2 an object it owns, key 3 a directory.
MCOwners == [k \in Keys |-> IF k = 2 THEN {1} ELSE {}]

MCKinds == DOMAIN Kinds

\* Four keys on three levels: two share two branches, three share one.
MemoryKeys == {<<1, 1, 1>>, <<1, 1, 2>>, <<1, 2, 1>>, <<2, 1, 1>>}

BackedKey(key) == key # <<1, 2, 1>>
BackedData == CHOOSE d \in Data : TRUE

\* One item is enough to see a change of data.
DataFor(key) == IF key = <<1, 1, 1>> THEN Data ELSE {BackedData}

Init ==
    /\ part \in Parts
    /\ steps = IF part = "backed" THEN Steps ELSE 0
    /\ MapsInit(part = "backed")
    /\ NodeStoreInit
    /\ TableInit /\ (part # "table" => \A k \in Keys : base[k] = Absent)
    /\ EntryInit /\ (part # "bytes" => kind = "AccountRoot")

MemoryNext ==
    /\ part = "memory"
    /\ \/ \E m \in Slots, key \in UsedKeys : (\E data \in DataFor(key) : Put(m, key, data)) \/ Delete(m, key)
       \/ \E m, to \in Slots : SnapshotClone(m, to, TRUE)
    /\ UNCHANGED <<storeVars, tableVars, entryVars, part, steps>>

BackedNext ==
    /\ part = "backed" /\ steps > 0
    /\ steps' = steps - 1
    /\ \/ \E m \in Slots, key \in {k \in UsedKeys : BackedKey(k)} :
             Put(m, key, BackedData) \/ Delete(m, key) \/ Get(m, key)
       \/ Snapshotting
       \/ \E m \in Slots : SetImmutable(m) \/ SetFamily(m) \/ FlushAndRelease(m)
    /\ UNCHANGED <<storeVars, tableVars, entryVars, part>>

NodesNext ==
    /\ part = "nodes"
    /\ NodeStoreNext
    /\ UNCHANGED <<mapVars, tableVars, entryVars, part, steps>>

PartTableNext ==
    /\ part = "table"
    /\ TableNext /\ tx' <= MaxTx
    /\ UNCHANGED <<mapVars, storeVars, entryVars, part, steps>>

PartBytesNext ==
    /\ part = "bytes"
    /\ EntryNext
    /\ UNCHANGED <<mapVars, storeVars, tableVars, part, steps>>

Next == MemoryNext \/ BackedNext \/ NodesNext \/ PartTableNext \/ PartBytesNext

Spec == Init /\ [][Next]_vars

(* Whatever was put, deleted, shared and loaded, a map answers as its       *)
(* contents do: its root hash is their Merkle hash, and a map in memory     *)
(* (a backed one is fetched before it is queried, and then is such a map)   *)
(* is walked, compared and proved in as they say.                           *)
MapsAgree == HashIsContents /\ (part = "memory" => QueriesAgree)

\* Once everything is excused the node store has nothing more to show.
Owing == excused # Nodes

Interchangeable == Permutations(Nodes) \union Permutations(Threads) \union Permutations(Values)

=============================================================================
