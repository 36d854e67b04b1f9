-------------------------- MODULE ApplyStateTable --------------------------
(***************************************************************************)
(* src/internal/tx/apply_state_table.go and threading.go: the table that   *)
(* stands between a transactor and the ledger.  It tracks what was read,   *)
(* inserted, updated and erased, threads the entries it touched, and       *)
(* writes them to the base view when the transaction is applied.           *)
(*                                                                         *)
(* An entry is what the transactor wrote (val) and the transaction that    *)
(* last affected it (prev, the PreviousTxnID field); an item is a          *)
(* TrackedEntry.  Owners gives the account roots an entry belongs to.      *)
(***************************************************************************)
EXTENDS Integers, FiniteSetsExt

CONSTANTS Keys, Values, Absent,
          Untracked,            \* no TrackedEntry for a key
          Owners,               \* getOwnerAccounts: account root keys, by key
          NonThreaded           \* keys of types without PreviousTxnID

NoKey == 0

Entry == [val : Values, prev : Nat]

Item == [action : {"Cache", "Insert", "Modify", "Erase"},
         orig : Entry \cup {Absent}, cur : Entry \cup {Absent}]

ASSUME TableConstants ==
  /\ Keys \subseteq Nat \ {NoKey} /\ IsFiniteSet(Keys)
  /\ Absent \notin Values \cup Entry
  /\ Untracked \notin Item
  /\ Owners \in [Keys -> SUBSET Keys]
  /\ \A k \in Keys : \A o \in Owners[k] : Owners[o] = {} /\ o \notin NonThreaded
  /\ NonThreaded \subseteq Keys

VARIABLES base,    \* the view below: the entry of each key, or Absent
          items,   \* t.items: the TrackedEntry of each key, or Untracked
          tx,      \* t.txHash
          chain    \* a history variable: the last transaction whose metadata
                   \* listed the entry

tableVars == <<base, items, tx, chain>>

TableInit ==
  /\ base \in [Keys -> [val : Values, prev : {0}] \cup {Absent}]
  /\ items = [k \in Keys |-> Untracked]
  /\ tx = 1
  /\ chain = [k \in Keys |-> 0]

-----------------------------------------------------------------------------
Tracked(t, k) == t[k] # Untracked

Track(action, orig, cur) == [action |-> action, orig |-> orig, cur |-> cur]

(* ApplyStateTable.Read: what a read returns, and the item it leaves.      *)
Seen(b, t, k) ==
  IF ~Tracked(t, k) THEN b[k] ELSE IF t[k].action = "Erase" THEN Absent ELSE t[k].cur

Read(k) ==
  /\ ~Tracked(items, k) /\ base[k] # Absent
  /\ items' = [items EXCEPT ![k] = Track("Cache", base[k], base[k])]
  /\ UNCHANGED <<base, tx, chain>>

(* The bytes a transactor builds for an entry carry the PreviousTxnID it   *)
(* read, or none: the serializers do one or the other.                     *)
Built(k, x) == {[val |-> x, prev |-> p] :
                  p \in {0} \cup (IF Seen(base, items, k) = Absent
                                    THEN {} ELSE {Seen(base, items, k).prev})}

(* A mutant: an entry erased and inserted again is a new entry.            *)
InsertForgetsErase(k, e) ==
  /\ Seen(base, items, k) = Absent
  /\ items' = [items EXCEPT ![k] = Track("Insert", Absent, e)]
  /\ UNCHANGED <<base, tx, chain>>

Insert(k, e) ==
  /\ Seen(base, items, k) = Absent
  /\ items' = [items EXCEPT ![k] = IF Tracked(items, k)
                                     THEN Track("Modify", items[k].orig, e)
                                     ELSE Track("Insert", Absent, e)]
  /\ UNCHANGED <<base, tx, chain>>

(* A mutant: an entry read before it is updated stays cached.              *)
UpdateKeepsCache(k, e) ==
  /\ Tracked(items, k) => items[k].action # "Erase"
  /\ items' = [items EXCEPT ![k] =
        IF Tracked(items, k) THEN Track(items[k].action, items[k].orig, e)
        ELSE Track(IF base[k] = Absent THEN "Insert" ELSE "Modify", base[k], e)]
  /\ UNCHANGED <<base, tx, chain>>

Update(k, e) ==
  /\ Tracked(items, k) => items[k].action # "Erase"
  /\ items' = [items EXCEPT ![k] =
        IF Tracked(items, k)
          THEN Track(IF items[k].action = "Cache" THEN "Modify" ELSE items[k].action,
                     items[k].orig, e)
          ELSE Track(IF base[k] = Absent THEN "Insert" ELSE "Modify", base[k], e)]
  /\ UNCHANGED <<base, tx, chain>>

(* ApplyStateTable.Erase; every caller has read the entry it erases.       *)
Erase(k) ==
  /\ Seen(base, items, k) # Absent
  /\ items' = [items EXCEPT ![k] =
        IF ~Tracked(items, k) THEN Track("Erase", base[k], base[k])
        ELSE IF items[k].action = "Insert" THEN Untracked
        ELSE Track("Erase", items[k].orig, items[k].cur)]
  /\ UNCHANGED <<base, tx, chain>>

(* Succ: the least key above k among the items that are not erased and the *)
(* keys of the base view, past the ones erased in the table.               *)
Least(S) == IF S = {} THEN NoKey ELSE Min(S)

IsErased(t, k) == Tracked(t, k) /\ t[k].action = "Erase"

BaseSucc(b, k) == Least({i \in Keys : i > k /\ b[i] # Absent})

(* A mutant: the first key of the base view is taken, erased or not.       *)
NextInBaseOnce(k) ==
  LET j == BaseSucc(base, k)
  IN  IF j # NoKey /\ IsErased(items, j) THEN NoKey ELSE j

(* One turn of the search: a key erased in the table is the new place to   *)
(* search from.  No search takes more turns than there are keys.           *)
PastErased(v, n, j) ==
  IF j # NoKey /\ IsErased(v.items, j) THEN BaseSucc(v.base, j) ELSE j

Search == INSTANCE Loops WITH Step <- PastErased

NextInBase(k) ==
  Search!Loop([base |-> base, items |-> items], BaseSucc(base, k), Cardinality(Keys))

Succ(k) ==
  Least({i \in Keys : i > k /\ Tracked(items, i) /\ ~IsErased(items, i)}
          \cup ({NextInBase(k)} \ {NoKey}))

-----------------------------------------------------------------------------
(* A mutant: only an entry that has no PreviousTxnID is threaded.          *)
ThreadOnce(e) == IF e = Absent THEN e ELSE [e EXCEPT !.prev = IF @ = 0 THEN tx ELSE @]

(* threadItem.                                                             *)
Thread(e) == IF e = Absent THEN e ELSE [e EXCEPT !.prev = tx]

(* threadOwners is called for the entries inserted and erased.             *)
ThreadedOwners(t) ==
  UNION {Owners[k] : k \in {j \in Keys : Tracked(t, j) /\ t[j].action \in {"Insert", "Erase"}}}

(* applyThreading: the entries inserted or modified and the owners of the  *)
(* ones inserted or erased; an owner nobody tracks is read from the base.  *)
ThreadOne(t, k) ==
  IF Tracked(t, k)
    THEN CASE t[k].action \in {"Insert", "Modify"} ->
                [t[k] EXCEPT !.cur = IF k \in NonThreaded THEN @ ELSE Thread(@)]
           [] t[k].action = "Cache" /\ k \in ThreadedOwners(t) ->
                Track("Modify", t[k].orig, Thread(t[k].cur))
           [] OTHER -> t[k]
    ELSE IF k \in ThreadedOwners(t) /\ base[k] # Absent
      THEN Track("Modify", base[k], Thread(base[k]))
      ELSE t[k]

Threaded(t) == [k \in Keys |-> ThreadOne(t, k)]

(* applyImpl: one affected node per item that is not cached; an item that  *)
(* was modified without a change is skipped.                               *)
Affects(i) == i # Untracked /\ i.action # "Cache" /\ ~(i.action = "Modify" /\ i.orig = i.cur)

AffectedNodes(t) == {k \in Keys : Affects(t[k])}

(* What applyImpl passes to the base view, item by item.                   *)
Written(t, b) ==
  [k \in Keys |-> IF ~Affects(t[k]) THEN b[k]
                  ELSE IF t[k].action = "Erase" THEN Absent ELSE t[k].cur]

(* The base view returns no error: Insert wants the key absent, Update and *)
(* Erase want it present.                                                  *)
BaseAccepts(t, b) ==
  \A k \in AffectedNodes(t) : (t[k].action = "Insert") <=> (b[k] = Absent)

(* Apply: the table is applied once, and the next transaction has a table  *)
(* of its own.                                                             *)
Apply ==
  /\ LET t == Threaded(items)
     IN  /\ base' = Written(t, base)
         /\ chain' = [k \in Keys |-> IF k \in AffectedNodes(t) THEN tx ELSE chain[k]]
  /\ items' = [k \in Keys |-> Untracked]
  /\ tx' = tx + 1

(* ApplyDryRun threads and builds the metadata, and writes nothing; its    *)
(* callers throw the table away, as they do when the transaction fails.    *)
Discard ==
  /\ items' = [k \in Keys |-> Untracked]
  /\ tx' = tx + 1
  /\ UNCHANGED <<base, chain>>

TableNext ==
  \/ \E k \in Keys : Read(k) \/ Erase(k)
  \/ \E k \in Keys, x \in Values : \E e \in Built(k, x) : Insert(k, e) \/ Update(k, e)
  \/ Apply
  \/ Discard

TableSpec == TableInit /\ [][TableNext]_tableVars

-----------------------------------------------------------------------------
(* TYPE INVARIANT of the table.                                            *)
TableTypeOK ==
  /\ base \in [Keys -> Entry \cup {Absent}]
  /\ items \in [Keys -> Item \cup {Untracked}]
  /\ tx \in Nat \ {0}
  /\ chain \in [Keys -> Nat]

(* Applying a transaction never stops half way: whatever a transactor did  *)
(* to the table (erase and re-insert, insert and erase, update what is not *)
(* there), every Insert, Update and Erase that applyImpl passes to the     *)
(* base view, the threaded owners included, finds the key as the base view *)
(* demands.  An error there would leave the items written so far in the    *)
(* ledger.                                                                 *)
ApplyNeverFails == BaseAccepts(Threaded(items), base)

(* The chain of transactions an entry's history can be walked along is     *)
(* unbroken: PreviousTxnID, which the metadata of the next transaction     *)
(* that affects the entry quotes, names the last transaction whose         *)
(* metadata listed it, although the serializers drop the field and owners  *)
(* are threaded without being written.                                     *)
PreviousTxnIDIsLast ==
  \A k \in Keys \ NonThreaded : base[k] # Absent => base[k].prev = chain[k]

(* Walking the table by Succ, as the order books are, meets exactly the    *)
(* entries that reading key by key finds, inserted, modified and cached    *)
(* ones included and erased ones left out, and never skips one because the *)
(* keys before it were erased.                                             *)
SuccIsNextVisible ==
  \A k \in {NoKey} \cup Keys :
     Succ(k) = Least({i \in Keys : i > k /\ Seen(base, items, i) # Absent})

(* The values a view holds.                                                *)
Vals(b) == [k \in Keys |-> IF b[k] = Absent THEN Absent ELSE b[k].val]

(* The entries a transactor sees.                                          *)
Shown == [k \in Keys |-> Seen(base, items, k)]

View == INSTANCE LedgerView WITH
          committed <- Vals(base),
          working <- Vals(Shown)

(* The table implements LedgerView: what a transactor reads is what it     *)
(* wrote last, over what the ledger had; nothing reaches the ledger before *)
(* Apply, all of it does then; threading changes no value.                 *)
ImplementsLedgerView == View!ViewSpec

=============================================================================
