--------------------------- MODULE PaymentSandbox ---------------------------
(***************************************************************************)
(* The overlay of src/internal/tx/payment/sandbox.go: a root sandbox over  *)
(* the view of the transaction, and the child in which a strand is tried.  *)
(* A sandbox holds what it modified, inserted and deleted, and the last    *)
(* state of what it modified and then deleted.  What the payment engine    *)
(* does with it is modelled, not all that the type allows: only a child    *)
(* inserts entries and it changes what it likes; between two children the  *)
(* root deletes offers and updates entries of the view; an entry is not    *)
(* inserted after it was deleted.  (Module Offers has what happens when a  *)
(* trust line is.)                                                         *)
(***************************************************************************)
EXTENDS Integers, Sequences, FiniteSetsExt

CONSTANTS SandboxKeys,           \* numbers, in key order
          SandboxValues

VARIABLES view,                  \* the entry of each key of the LedgerView, or Gone
          boxes,                 \* innermost first; the last is the root
          plain,                 \* a history variable: what each should show
          gone                   \* a history variable: keys deleted so far

sandboxVars == <<view, boxes, plain, gone>>

Gone == "gone"
ASSUME SandboxConstants == Gone \notin SandboxValues

With(f, k, v) == [j \in DOMAIN f \union {k} |-> IF j = k THEN v ELSE f[j]]
Without(f, K) == [j \in DOMAIN f \ K |-> f[j]]
Over(f, g) == [j \in DOMAIN f \union DOMAIN g |-> IF j \in DOMAIN g THEN g[j] ELSE f[j]]
Blank == [mods |-> [k \in {} |-> Gone], ins |-> [k \in {} |-> Gone], del |-> {},
          fin |-> [k \in {} |-> Gone]]

(* Reads go through the chain of sandboxes down to the view; here each     *)
(* sandbox, from the last to the first, answers over what is below it.     *)
ReadLocal(s, k, below) ==
  IF k \in s.del THEN Gone
  ELSE IF k \in DOMAIN s.mods THEN s.mods[k]
  ELSE IF k \in DOMAIN s.ins THEN s.ins[k] ELSE below
ReadThrough(p, i, below) == ReadLocal(p.boxes[Len(p.boxes) + 1 - i], p.key, below)
Reading == INSTANCE Loops WITH Step <- ReadThrough
Read(bs, k) == Reading!Loop([boxes |-> bs, key |-> k], view[k], Len(bs))

(* Succ: the least of the keys above k among the sandbox's own and the     *)
(* ones below, past those deleted here.                                    *)
Own(s) == (DOMAIN s.ins \union DOMAIN s.mods) \ s.del
LeastAbove(S, k) == Min({i \in S : i > k} \union {Cardinality(SandboxKeys) + 1})
SuccLocal(s, below, k) == LeastAbove(Own(s) \union (below \ s.del), k)
Visible(s, below) == Own(s) \union (below \ s.del)
SeeThrough(bs, i, below) == Visible(bs[Len(bs) + 1 - i], below)
Seeing == INSTANCE Loops WITH Step <- SeeThrough
BelowSet(bs) == Seeing!Loop(bs, {k \in SandboxKeys : view[k] # Gone}, Len(bs))
Succ(bs, k) == SuccLocal(Head(bs), BelowSet(Tail(bs)), k)

(* The changes a sandbox records. *)
InsertIn(s, k, x, orig) ==
  IF k \in s.del /\ orig # Gone
  THEN [s EXCEPT !.del = s.del \ {k}, !.mods = With(s.mods, k, x)]
  ELSE [s EXCEPT !.del = s.del \ {k}, !.ins = With(s.ins, k, x)]
UpdateInserting(s, k, x) == [s EXCEPT !.ins = With(@, k, x)]      \* a mutant
UpdateIn(s, k, x) ==
  IF k \in DOMAIN s.ins THEN [s EXCEPT !.ins = With(@, k, x)] ELSE [s EXCEPT !.mods = With(@, k, x)]
EraseIn(s, k) ==
  [fin |-> IF k \in DOMAIN s.mods THEN With(s.fin, k, s.mods[k]) ELSE s.fin,
   mods |-> Without(s.mods, {k}), ins |-> Without(s.ins, {k}), del |-> s.del \union {k}]

(* Apply: deletions first, then insertions, then what was modified unless  *)
(* it is deleted.                                                          *)
Finals(s, to) ==
  [k \in DOMAIN to.fin \union DOMAIN s.fin \union (s.del \intersect DOMAIN to.mods) |->
     IF k \in s.del /\ k \in DOMAIN s.fin THEN s.fin[k]
     ELSE IF k \in s.del /\ k \in DOMAIN to.mods THEN to.mods[k]
     ELSE IF k \in DOMAIN to.fin THEN to.fin[k] ELSE s.fin[k]]
WithDeletions(s, to) ==
  [fin |-> Finals(s, to), del |-> to.del \union s.del,
   mods |-> Without(to.mods, s.del), ins |-> Without(to.ins, s.del)]
WithInsertions(t, new) ==
  [fin |-> t.fin, del |-> t.del \ DOMAIN new,
   mods |-> [k \in DOMAIN t.mods |-> IF k \in DOMAIN new THEN new[k] ELSE t.mods[k]],
   ins |-> Over(t.ins, Without(new, DOMAIN t.mods))]
WithModifications(t, new) ==
  [fin |-> t.fin, del |-> t.del, mods |-> Over(t.mods, Without(new, t.del)), ins |-> t.ins]
Apply(s, to) == WithModifications(WithInsertions(WithDeletions(s, to), s.ins), s.mods)

(* ApplyToView: each deletion is an update to the last state and an erase, *)
(* which the view refuses for an entry it does not have; then insertions,  *)
(* refused for an entry it has, and updates.                               *)
ViewRefuses(s) ==
  \/ \E k \in s.del : view[k] = Gone /\ k \notin DOMAIN s.fin
  \/ \E k \in DOMAIN s.ins : view[k] # Gone
ApplyToView(s) ==
  [k \in SandboxKeys |->
     IF k \in DOMAIN s.mods THEN s.mods[k]
     ELSE IF k \in DOMAIN s.ins THEN s.ins[k]
     ELSE IF k \in s.del THEN Gone ELSE view[k]]

-----------------------------------------------------------------------------
SandboxInit ==
  /\ view \in [SandboxKeys -> SandboxValues \union {Gone}]
  /\ boxes = <<Blank>> /\ plain = <<view>> /\ gone = {}

InChild == Len(boxes) = 2
OnTop(box, k, x) ==
  /\ boxes' = <<box>> \o Tail(boxes)
  /\ plain' = <<[plain[1] EXCEPT ![k] = x]>> \o Tail(plain)
  /\ UNCHANGED view

NewChildSandbox ==
  /\ Len(boxes) = 1
  /\ boxes' = <<Blank>> \o boxes /\ plain' = <<plain[1]>> \o plain
  /\ UNCHANGED <<view, gone>>
Insert(k, x) ==
  /\ InChild /\ plain[1][k] = Gone /\ k \notin gone
  /\ OnTop(InsertIn(boxes[1], k, x, Read(Tail(boxes), k)), k, x)
  /\ UNCHANGED gone
Update(k, x) ==
  /\ plain[1][k] # Gone /\ (InChild \/ view[k] # Gone)
  /\ OnTop(UpdateIn(boxes[1], k, x), k, x)
  /\ UNCHANGED gone
Erase(k) ==
  /\ plain[1][k] # Gone /\ view[k] # Gone
  /\ OnTop(EraseIn(boxes[1], k), k, Gone)
  /\ gone' = gone \union {k}
ApplyChild ==
  /\ InChild
  /\ boxes' = <<Apply(boxes[1], boxes[2])>> /\ plain' = <<plain[1]>>
  /\ UNCHANGED <<view, gone>>
DiscardChild ==
  /\ InChild
  /\ boxes' = Tail(boxes) /\ plain' = Tail(plain)
  /\ gone' = {k \in SandboxKeys : plain[2][k] = Gone /\ view[k] # Gone}
  /\ UNCHANGED view
ApplyRoot ==
  /\ Len(boxes) = 1 /\ boxes # <<Blank>>
  /\ view' = ApplyToView(boxes[1])
  /\ boxes' = <<Blank>> /\ plain' = <<view'>> /\ gone' = {}

SandboxNext ==
  \/ NewChildSandbox \/ ApplyChild \/ DiscardChild \/ ApplyRoot
  \/ \E k \in SandboxKeys : Erase(k) \/ \E x \in SandboxValues : Insert(k, x) \/ Update(k, x)

SandboxSpec == SandboxInit /\ [][SandboxNext]_sandboxVars

-----------------------------------------------------------------------------
\* The keys a plain map has.
Shown(p) == {k \in SandboxKeys : p[k] # Gone}

(* Whatever mixture of insertions, updates and deletions went through      *)
(* children, applied or discarded, each sandbox reads as the plain map it  *)
(* stands for, its Succ walks that map's keys in order, and the root can   *)
(* be applied to the view and makes it that map.                           *)
SandboxIsMap ==
  /\ \A i \in DOMAIN boxes : \A k \in SandboxKeys :
       /\ Read(SubSeq(boxes, i, Len(boxes)), k) = plain[i][k]
       /\ Succ(SubSeq(boxes, i, Len(boxes)), k) = LeastAbove(Shown(plain[i]), k)
  /\ Len(boxes) = 1 => ~ViewRefuses(boxes[1]) /\ ApplyToView(boxes[1]) = plain[1]
=============================================================================
