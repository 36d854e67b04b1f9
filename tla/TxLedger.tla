------------------------------ MODULE TxLedger ------------------------------
(***************************************************************************)
(* What every transactor of src/internal/tx works on: the ledger view, the *)
(* sender's account root held in memory beside it, reserves and owner      *)
(* counts.                                                                 *)
(*                                                                         *)
(* A view is a record                                                      *)
(*   acct   the account roots that exist, by account                       *)
(*   obj    the other ledger entries that exist, by key; a key is a tuple  *)
(*          that starts with the entry type                                *)
(*   dir    the owner directory of each account (see below)                *)
(*   time   the parent close time, lseq the ledger sequence                *)
(*   burned the drops destroyed by fees                                    *)
(*                                                                         *)
(* A context is what ApplyContext holds: the view v, the sender id, and a, *)
(* the sender's account root.  v has its own copy of that root; whatever a *)
(* transactor writes there is overwritten by a when the transaction ends.  *)
(*                                                                         *)
(* First the directories: the doubly linked list of pages in which an      *)
(* account keeps the keys of the objects it owns                           *)
(* (src/internal/ledger/state/directory.go).                               *)
(*                                                                         *)
(* A directory is a function from the numbers of its existing pages to     *)
(* page records; page 0 is the root.  root.prev is the last page and       *)
(* page.next = 0 marks it.  NoDirectory, with no page at all, is a         *)
(* directory that does not exist.                                          *)
(***************************************************************************)
EXTENDS Integers, FiniteSets, SequencesExt, TLC

CONSTANTS dirNodeMaxEntries,    \* keys a page holds (32 in the code)
          DirNodeMaxPages       \* pages a directory may have (262144)

ASSUME DirectoryConstants ==
  /\ dirNodeMaxEntries \in Nat \ {0}
  /\ DirNodeMaxPages \in Nat \ {0}

EmptyNode == [idx |-> <<>>, next |-> 0, prev |-> 0]

NoDirectory == [p \in {} |-> EmptyNode]

(* ParseDirectoryNode(view.Read(page)): a page that does not exist parses  *)
(* to an empty node and not to an error.                                   *)
ReadPage(dir, p) == IF p \in DOMAIN dir THEN dir[p] ELSE EmptyNode

(* view.Update of a page, which creates a page that is not there.          *)
WritePage(dir, p, node) == [q \in DOMAIN dir \cup {p} |-> IF q = p THEN node ELSE dir[q]]

ErasePage(dir, p) == [q \in DOMAIN dir \ {p} |-> dir[q]]

-----------------------------------------------------------------------------
(* The page is full: chain a new last page behind it.  The node and the    *)
(* root are written before the insertion of the new page is tried, which   *)
(* fails if a page of that number exists.                                  *)
AppendPage(dir, page, key) ==
  LET new     == page + 1
      chained == WritePage(dir, page, [ReadPage(dir, page) EXCEPT !.next = new])
      rooted  == WritePage(chained, 0, [ReadPage(chained, 0) EXCEPT !.prev = new])
      node    == [idx |-> <<key>>, next |-> 0, prev |-> IF new = 1 THEN 0 ELSE page]
  IN  IF new >= DirNodeMaxPages
        THEN [dir |-> dir, page |-> 0, err |-> "ErrDirFull"]
      ELSE IF new \in DOMAIN dir
        THEN [dir |-> rooted, page |-> 0, err |-> "exists"]
      ELSE [dir |-> WritePage(rooted, new, node), page |-> new, err |-> "none"]

DirInsert(dir, key) ==
  LET page == ReadPage(dir, 0).prev
      node == ReadPage(dir, page)
  IN  IF 0 \notin DOMAIN dir
        THEN [dir |-> WritePage(dir, 0, [EmptyNode EXCEPT !.idx = <<key>>]),
              page |-> 0, err |-> "none"]
      ELSE IF Len(node.idx) < dirNodeMaxEntries
        THEN [dir |-> WritePage(dir, page, [node EXCEPT !.idx = Append(@, key)]),
              page |-> page, err |-> "none"]
      ELSE AppendPage(dir, page, key)

-----------------------------------------------------------------------------
(* The emptied page is the root: two consistency checks, then the clean-up *)
(* of an empty last page, then the root is kept or erased.                 *)
RemoveRootPage(dir, node, keepRoot) ==
  LET legacy  == node.next = node.prev /\ node.next # 0
                   /\ Len(ReadPage(dir, node.next).idx) = 0
      cleaned == IF legacy THEN ErasePage(dir, node.next) ELSE dir
      root    == IF legacy THEN EmptyNode ELSE node
  IN  IF (node.next = 0) # (node.prev = 0)
        THEN [dir |-> dir, err |-> "link broken"]
      ELSE IF ~keepRoot /\ root.next = 0 /\ root.prev = 0
        THEN [dir |-> ErasePage(cleaned, 0), err |-> "none"]
      ELSE [dir |-> WritePage(cleaned, 0, root), err |-> "none"]

(* The neighbours of a page are linked to each other.  prev and next are   *)
(* parsed into two nodes even when they are one page, and then only prev   *)
(* is written.                                                             *)
Bridge(dir, node) ==
  [q \in DOMAIN dir \cup {node.prev, node.next} |->
     IF q = node.prev THEN [ReadPage(dir, q) EXCEPT !.next = node.next]
     ELSE IF q = node.next THEN [ReadPage(dir, q) EXCEPT !.prev = node.prev]
     ELSE dir[q]]

(* The page behind the emptied one is the last and is empty too.           *)
Trailing(dir, node) ==
  LET next == ReadPage(dir, node.next)
  IN  node.next # 0 /\ next.next = 0 /\ Len(next.idx) = 0

PruneLast(dir, node) ==
  [q \in (DOMAIN dir \ {node.next}) \cup {node.prev, 0} |->
     [ReadPage(dir, q) EXCEPT !.next = IF q = node.prev THEN 0 ELSE @,
                              !.prev = IF q = 0 THEN node.prev ELSE @]]

(* The emptied page is not the root: unlink it and erase it.               *)
UnlinkPage(dir, page, node, keepRoot) ==
  LET erased == ErasePage(Bridge(dir, node), page)
      pruned == IF Trailing(dir, node) THEN PruneLast(erased, node) ELSE erased
      alone  == node.prev = 0 /\ (node.next = 0 \/ Trailing(dir, node))
  IN  IF node.next = page \/ node.prev = page
        THEN [dir |-> dir, err |-> "link broken"]
      ELSE IF ~keepRoot /\ alone /\ Len(ReadPage(dir, node.prev).idx) = 0
        THEN [dir |-> ErasePage(pruned, node.prev), err |-> "none"]
      ELSE [dir |-> pruned, err |-> "none"]

(* A key that is not on the page it is said to be on is left where it is,  *)
(* without an error.                                                       *)
DirRemove(dir, page, key, keepRoot) ==
  LET node == ReadPage(dir, page)
      left == [node EXCEPT !.idx = SelectSeq(@, LAMBDA k : k # key)]
  IN  IF key \notin Range(node.idx)
        THEN [dir |-> dir, err |-> "none"]
      ELSE IF Len(left.idx) > 0
        THEN [dir |-> WritePage(dir, page, left), err |-> "none"]
      ELSE IF page = 0
        THEN RemoveRootPage(dir, left, keepRoot)
      ELSE UnlinkPage(dir, page, left, keepRoot)

-----------------------------------------------------------------------------
(* The pages DirForEach visits, in order: the root, then along IndexNext   *)
(* until 0 or a page that does not exist.                                  *)
Visited(dir) ==
  LET after[n \in 0 .. Cardinality(DOMAIN dir)] ==
        IF n = 0 THEN 0 ELSE ReadPage(dir, after[n - 1]).next
      stops(n) == after[n] = 0 \/ after[n] \notin DOMAIN dir
      last     == CHOOSE n \in DOMAIN after :
                    /\ \A k \in 1 .. n : ~stops(k)
                    /\ n + 1 \in DOMAIN after => stops(n + 1)
  IN  IF 0 \notin DOMAIN dir THEN <<>> ELSE [i \in 1 .. last + 1 |-> after[i - 1]]

(* The keys DirForEach hands to its callback, in order.                    *)
DirForEach(dir) ==
  FlattenSeq([i \in DOMAIN Visited(dir) |-> dir[Visited(dir)[i]].idx])

(* Every key stored on some page, visited or not.                          *)
Stored(dir) == UNION {Range(dir[p].idx) : p \in DOMAIN dir}

(* The directory lost its one page behind the root (the root then still    *)
(* names that page as the last), or AccountDelete erased the root and left *)
(* the pages behind it.                                                    *)
Severed(dir) ==
  /\ dir # NoDirectory
  /\ (ReadPage(dir, 0).next = 0) /\ (ReadPage(dir, 0).prev # 0 \/ 0 \notin DOMAIN dir)

-----------------------------------------------------------------------------
CONSTANTS Accounts,             \* account ids
          None,                 \* an absent optional field
          BaseFee,              \* Config.BaseFee
          ReserveBase,          \* Config.ReserveBase
          ReserveIncrement,     \* Config.ReserveIncrement
          qualityOne            \* the transfer rate that charges nothing

ASSUME TxLedgerConstants ==
  /\ None \notin Accounts
  /\ BaseFee \in Nat /\ ReserveBase \in Nat /\ ReserveIncrement \in Nat
  /\ qualityOne \in Nat \ {0}

-----------------------------------------------------------------------------
(* View.Exists, View.Read, View.Insert, View.Update and View.Erase.        *)
Exists(v, k) == k \in DOMAIN v.obj

Read(v, k) == v.obj[k]

Write(v, k, e) == [v EXCEPT !.obj = (k :> e) @@ @]

Erase(v, k) == [v EXCEPT !.obj = [j \in DOMAIN @ \ {k} |-> @[j]]]

HasAccount(v, id) == id \in DOMAIN v.acct

UpdateAccountRoot(v, id, root) == [v EXCEPT !.acct = (id :> root) @@ @]

EraseAccount(v, id) == [v EXCEPT !.acct = [j \in DOMAIN @ \ {id} |-> @[j]]]

(* state.DirInsert into an owner directory; the page it chose.             *)
Link(v, id, k) == [v EXCEPT !.dir[id] = DirInsert(@, k).dir]

LinkPage(v, id, k) == DirInsert(v.dir[id], k).page

LinkFails(v, id, k) == DirInsert(v.dir[id], k).err # "none"

(* state.DirRemove from an owner directory.                                *)
Unlink(v, id, page, k, keepRoot) ==
  [v EXCEPT !.dir[id] = DirRemove(@, page, k, keepRoot).dir]

UnlinkFails(v, id, page, k, keepRoot) == DirRemove(v.dir[id], page, k, keepRoot).err # "none"

-----------------------------------------------------------------------------
(* ApplyContext.AccountReserve.                                            *)
AccountReserve(n) == ReserveBase + n * ReserveIncrement

(* ReserveForNewObject: the first two objects of an account are free.      *)
ReserveForNewObject(n) == IF n < 2 THEN 0 ELSE AccountReserve(n + 1)

(* The balance before the fee was taken, the way the transactors           *)
(* reconstruct it: with the configured base fee.                           *)
PriorBalance(c) == c.a.bal + BaseFee

(* n - d, not below zero, as every owner count decrement is written.       *)
Less(n, d) == IF n >= d THEN n - d ELSE 0

(* AdjustOwnerCount: an account root in the view; an absent account is     *)
(* left alone.                                                             *)
AdjustOwnerCount(v, id, d) ==
  IF HasAccount(v, id)
    THEN [v EXCEPT !.acct[id].own = IF d < 0 THEN Less(@, -d) ELSE @ + d]
    ELSE v

(* A mutant: the sender's count is changed in the view's copy.             *)
AddOwnerInView(c, id, d) == [c EXCEPT !.v = AdjustOwnerCount(@, id, d)]

(* The idiom "if it is the sender use ctx.Account, else update the view".  *)
AddOwner(c, id, d) ==
  IF id = c.id
    THEN [c EXCEPT !.a.own = IF d < 0 THEN Less(@, -d) ELSE @ + d]
    ELSE [c EXCEPT !.v = AdjustOwnerCount(@, id, d)]

(* A new entry of the sender: inserted, linked into its owner directory    *)
(* and counted.                                                            *)
Own(c, k, e) == [c EXCEPT !.v = Write(Link(@, c.id, k), k, e), !.a.own = @ + 1]

(* An entry of the sender, taken out of a page of its directory, erased    *)
(* and no longer counted.                                                  *)
Disown(c, k, page, keepRoot) ==
  [c EXCEPT !.v = Erase(Unlink(@, c.id, page, k, keepRoot), k), !.a.own = Less(@, 1)]

Credit(c, id, drops) ==
  IF id = c.id
    THEN [c EXCEPT !.a.bal = @ + drops]
    ELSE [c EXCEPT !.v.acct[id].bal = @ + drops]

Debit(c, id, drops) ==
  IF id = c.id
    THEN [c EXCEPT !.a.bal = @ - drops]
    ELSE [c EXCEPT !.v.acct[id].bal = @ - drops]

(* A destination that asks for a tag, and no tag given.                    *)
TagMissing(v, id, tag) == "RequireDestTag" \in v.acct[id].flags /\ ~tag

-----------------------------------------------------------------------------
(* The outcome of a transactor: its result code and the context it leaves. *)
Ok(c) == [ter |-> "tesSUCCESS", c |-> c]

Fail(c, ter) == [ter |-> ter, c |-> c]

(* Result.IsTec for the codes the transactors return.                      *)
IsTec(ter) == ter \in
  {"tecCLAIM", "tecDIR_FULL", "tecINSUFFICIENT_RESERVE", "tecNO_DST", "tecNO_DST_INSUF_XRP",
   "tecDST_TAG_NEEDED", "tecNO_PERMISSION", "tecHAS_OBLIGATIONS", "tecTOO_SOON",
   "tecEXPIRED", "tecNO_ENTRY", "tecNO_TARGET", "tecUNFUNDED", "tecUNFUNDED_PAYMENT",
   "tecNO_ALTERNATIVE_KEY", "tecNEED_MASTER_KEY", "tecOWNERS", "tecDUPLICATE",
   "tecNO_ISSUER", "tecBAD_CREDENTIALS", "tecCRYPTOCONDITION_ERROR", "tecEMPTY_DID",
   "tecNO_DELEGATE_PERMISSION", "tecOBJECT_NOT_FOUND", "tecNO_AUTH", "tecLOCKED",
   "tecPATH_PARTIAL", "tecINSUFFICIENT_FUNDS", "tecARRAY_EMPTY", "tecARRAY_TOO_LARGE",
   "tecINVALID_UPDATE_TIME", "tecTOKEN_PAIR_NOT_FOUND", "tecINVARIANT_FAILED",
   "tecNO_LINE", "tecNO_LINE_INSUF_RESERVE", "tecINSUF_RESERVE_LINE", "tecFROZEN",
   "tecUNFUNDED_OFFER", "tecINSUFFICIENT_PAYMENT", "tecNO_SUITABLE_NFTOKEN_PAGE",
   "tecNFTOKEN_BUY_SELL_MISMATCH", "tecNFTOKEN_OFFER_TYPE_MISMATCH",
   "tecCANT_ACCEPT_OWN_NFTOKEN_OFFER", "tecINTERNAL"}

=============================================================================
