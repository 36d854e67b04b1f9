------------------------ MODULE PaymentSandboxProofs ------------------------
(***************************************************************************)
(* Proofs about PaymentSandbox, for any keys and values and any history of *)
(* children applied and discarded.                                         *)
(***************************************************************************)
EXTENDS PaymentSandbox, SequenceTheorems, TLAPS

Map == [SandboxKeys -> SandboxValues \union {Gone}]

(* What a sandbox records: entries of keys, nothing both deleted and kept. *)
Entries(f) == DOMAIN f \subseteq SandboxKeys /\ \A k \in DOMAIN f : f[k] \in SandboxValues

IsBox(s) ==
  /\ s = [mods |-> s.mods, ins |-> s.ins, del |-> s.del, fin |-> s.fin]
  /\ Entries(s.mods) /\ Entries(s.ins) /\ s.del \subseteq SandboxKeys
  /\ \A k \in s.del : k \notin DOMAIN s.mods /\ k \notin DOMAIN s.ins

(* A sandbox over the map b stands for the map p.                          *)
StandsFor(s, b, p) == p \in Map /\ \A k \in SandboxKeys : ReadLocal(s, k, b[k]) = p[k]

(* What the root records agrees with the view v below it, so that it can be *)
(* applied; what it deleted is among the keys g.                           *)
RootBox(s, v, g, p) ==
  /\ IsBox(s) /\ StandsFor(s, v, p)
  /\ \A k \in s.del : v[k] # Gone /\ k \in g
  /\ \A k \in DOMAIN s.ins : v[k] = Gone
  /\ \A k \in DOMAIN s.mods : k \in DOMAIN s.ins \/ v[k] # Gone

(* What a child records agrees with the map q that the root stands for.    *)
ChildBox(s, v, g, q, p) ==
  /\ IsBox(s) /\ StandsFor(s, q, p)
  /\ \A k \in s.del : v[k] # Gone /\ k \in g
  /\ \A k \in DOMAIN s.ins : v[k] = Gone /\ q[k] = Gone /\ k \notin DOMAIN s.mods
  /\ \A k \in DOMAIN s.mods : q[k] # Gone

OnRoot == /\ boxes = <<boxes[1]>> /\ plain = <<plain[1]>>
          /\ RootBox(boxes[1], view, gone, plain[1])

OnChild == /\ boxes = <<boxes[1], boxes[2]>> /\ plain = <<plain[1], plain[2]>>
           /\ RootBox(boxes[2], view, gone, plain[2]) 
           /\ ChildBox(boxes[1], view, gone, plain[2], plain[1])

PInv == view \in Map /\ gone \subseteq SandboxKeys /\ (OnRoot \/ OnChild)

-----------------------------------------------------------------------------
(* The operations on one sandbox.                                          *)
LEMMA BlankIs ==
  ASSUME NEW p \in Map
  PROVE  /\ IsBox(Blank) /\ StandsFor(Blank, p, p)
         /\ Blank.del = {} /\ DOMAIN Blank.ins = {} /\ DOMAIN Blank.mods = {}
PROOF BY DEF Blank, IsBox, Entries, StandsFor, ReadLocal

(* An update is recorded where the entry is, as an insertion if the sandbox *)
(* inserted it; nothing else changes.                                      *)
LEMMA UpdateInIs ==
  ASSUME NEW s, IsBox(s), NEW k \in SandboxKeys \ s.del, NEW x \in SandboxValues
  PROVE  /\ IsBox(UpdateIn(s, k, x)) /\ UpdateIn(s, k, x).del = s.del
         /\ k \in DOMAIN s.ins => /\ UpdateIn(s, k, x).mods = s.mods
                                  /\ UpdateIn(s, k, x).ins = With(s.ins, k, x)
         /\ k \notin DOMAIN s.ins => /\ UpdateIn(s, k, x).ins = s.ins
                                     /\ UpdateIn(s, k, x).mods = With(s.mods, k, x)
<1> DEFINE t == UpdateIn(s, k, x)
<1>1. CASE k \in DOMAIN s.ins
  <2>1. t = [mods |-> s.mods, ins |-> With(s.ins, k, x), del |-> s.del, fin |-> s.fin]
    BY <1>1 DEF UpdateIn, IsBox
  <2>2. QED
    BY <1>1, <2>1 DEF IsBox, Entries, With
<1>2. CASE k \notin DOMAIN s.ins
  <2>1. t = [mods |-> With(s.mods, k, x), ins |-> s.ins, del |-> s.del, fin |-> s.fin]
    BY <1>2 DEF UpdateIn, IsBox
  <2>2. QED
    BY <1>2, <2>1 DEF IsBox, Entries, With
<1>3. QED
  BY <1>1, <1>2

LEMMA EraseInIs ==
  ASSUME NEW s, IsBox(s), NEW k \in SandboxKeys
  PROVE  /\ IsBox(EraseIn(s, k)) /\ EraseIn(s, k).del = s.del \union {k}
         /\ EraseIn(s, k).mods = Without(s.mods, {k})
         /\ EraseIn(s, k).ins = Without(s.ins, {k})
<1> DEFINE f == IF k \in DOMAIN s.mods THEN With(s.fin, k, s.mods[k]) ELSE s.fin
<1>1. EraseIn(s, k) = [mods |-> Without(s.mods, {k}), ins |-> Without(s.ins, {k}),
                       del |-> s.del \union {k}, fin |-> f]
  BY Zenon DEF EraseIn, IsBox
<1> HIDE DEF f
<1>2. QED
  BY <1>1 DEF IsBox, Entries, Without

(* An entry is inserted where there was none and none has been deleted.    *)
LEMMA InsertInIs ==
  ASSUME NEW s, IsBox(s), NEW k \in SandboxKeys \ s.del, NEW x \in SandboxValues, NEW orig
  PROVE  /\ IsBox(InsertIn(s, k, x, orig)) /\ InsertIn(s, k, x, orig).del = s.del
         /\ InsertIn(s, k, x, orig).mods = s.mods
         /\ InsertIn(s, k, x, orig).ins = With(s.ins, k, x)
<1>1. InsertIn(s, k, x, orig) = [mods |-> s.mods, ins |-> With(s.ins, k, x),
                                 del |-> s.del \ {k}, fin |-> s.fin]
  BY DEF InsertIn, IsBox
<1>2. s.del \ {k} = s.del
  OBVIOUS
<1>3. QED
  BY <1>1, <1>2 DEF IsBox, Entries, With

(* Apply, key by key: what the child deleted, inserted and modified, over  *)
(* what its parent had recorded.                                           *)
Merged(s, r, t) ==
  /\ t = [mods |-> t.mods, ins |-> t.ins, del |-> t.del, fin |-> t.fin]
  /\ t.del = (r.del \union s.del) \ DOMAIN s.ins
  /\ DOMAIN t.mods = (DOMAIN r.mods \ s.del) \union (DOMAIN s.mods \ t.del)
  /\ DOMAIN t.ins = (DOMAIN r.ins \ s.del) \union (DOMAIN s.ins \ (DOMAIN r.mods \ s.del))
  /\ \A k \in DOMAIN s.mods \ t.del : t.mods[k] = s.mods[k]
  /\ \A k \in (DOMAIN r.mods \ s.del) \ (DOMAIN s.mods \ t.del) :
       t.mods[k] = IF k \in DOMAIN s.ins THEN s.ins[k] ELSE r.mods[k]
  /\ \A k \in DOMAIN s.ins \ (DOMAIN r.mods \ s.del) : t.ins[k] = s.ins[k]
  /\ \A k \in (DOMAIN r.ins \ s.del) \ (DOMAIN s.ins \ (DOMAIN r.mods \ s.del)) :
       t.ins[k] = r.ins[k]

LEMMA ApplyIs ==
  ASSUME NEW s, IsBox(s), NEW r, IsBox(r)
  PROVE  Merged(s, r, Apply(s, r))
<1> DEFINE t0 == WithDeletions(s, r)
           t1 == WithInsertions(t0, s.ins)
           t2 == WithModifications(t1, s.mods)
<1>1. /\ t0.del = r.del \union s.del
      /\ t0.mods = Without(r.mods, s.del) /\ t0.ins = Without(r.ins, s.del)
  BY DEF WithDeletions
<1> HIDE DEF t0
<1>2. /\ t1.del = t0.del \ DOMAIN s.ins
      /\ t1.mods = [k \in DOMAIN t0.mods |-> IF k \in DOMAIN s.ins THEN s.ins[k] ELSE t0.mods[k]]
      /\ t1.ins = Over(t0.ins, Without(s.ins, DOMAIN t0.mods))
  BY DEF WithInsertions
<1> HIDE DEF t1
<1>3. /\ t2.del = t1.del /\ t2.ins = t1.ins
      /\ t2.mods = Over(t1.mods, Without(s.mods, t1.del))
      /\ t2 = [mods |-> t2.mods, ins |-> t2.ins, del |-> t2.del, fin |-> t2.fin]
  BY DEF WithModifications
<1>4. Apply(s, r) = t2
  BY DEF Apply, t0, t1
<1> HIDE DEF t2
<1>5. /\ DOMAIN t0.mods = DOMAIN r.mods \ s.del
      /\ \A k \in DOMAIN r.mods \ s.del : t0.mods[k] = r.mods[k]
  BY <1>1 DEF Without
<1>6. /\ DOMAIN t0.ins = DOMAIN r.ins \ s.del
      /\ \A k \in DOMAIN r.ins \ s.del : t0.ins[k] = r.ins[k]
  BY <1>1 DEF Without
<1>7. /\ DOMAIN t1.ins = DOMAIN t0.ins \union (DOMAIN s.ins \ DOMAIN t0.mods)
      /\ \A k \in DOMAIN s.ins \ DOMAIN t0.mods : t1.ins[k] = s.ins[k]
      /\ \A k \in DOMAIN t0.ins \ (DOMAIN s.ins \ DOMAIN t0.mods) : t1.ins[k] = t0.ins[k]
  BY <1>2 DEF Without, Over
<1>8. /\ DOMAIN t2.mods = DOMAIN t1.mods \union (DOMAIN s.mods \ t1.del)
      /\ \A k \in DOMAIN s.mods \ t1.del : t2.mods[k] = s.mods[k]
      /\ \A k \in DOMAIN t1.mods \ (DOMAIN s.mods \ t1.del) : t2.mods[k] = t1.mods[k]
  BY <1>3 DEF Without, Over
<1>9. /\ DOMAIN t1.mods = DOMAIN t0.mods
      /\ \A k \in DOMAIN t0.mods : t1.mods[k] = IF k \in DOMAIN s.ins THEN s.ins[k] ELSE t0.mods[k]
  BY <1>2
<1>10. /\ t2 = [mods |-> t2.mods, ins |-> t2.ins, del |-> t2.del, fin |-> t2.fin]
       /\ t2.del = (r.del \union s.del) \ DOMAIN s.ins /\ t2.del = t1.del
  BY <1>1, <1>2, <1>3
<1>11. /\ DOMAIN t2.mods = (DOMAIN r.mods \ s.del) \union (DOMAIN s.mods \ t2.del)
       /\ \A k \in DOMAIN s.mods \ t2.del : t2.mods[k] = s.mods[k]
       /\ \A k \in (DOMAIN r.mods \ s.del) \ (DOMAIN s.mods \ t2.del) :
              t2.mods[k] = IF k \in DOMAIN s.ins THEN s.ins[k] ELSE r.mods[k]
  BY <1>5, <1>8, <1>9, <1>10
<1>12. t2.ins = t1.ins
  BY <1>3
<1>13. /\ DOMAIN t2.ins = (DOMAIN r.ins \ s.del) \union (DOMAIN s.ins \ (DOMAIN r.mods \ s.del))
       /\ \A k \in DOMAIN s.ins \ (DOMAIN r.mods \ s.del) : t2.ins[k] = s.ins[k]
       /\ \A k \in (DOMAIN r.ins \ s.del) \ (DOMAIN s.ins \ (DOMAIN r.mods \ s.del)) :
              t2.ins[k] = r.ins[k]
  BY <1>5, <1>6, <1>7, <1>12
<1>14. Merged(s, r, t2)
  BY <1>10, <1>11, <1>13, Zenon DEF Merged
<1>15. QED
  BY <1>4, <1>14


-----------------------------------------------------------------------------
(* One map, changed at one key.                                            *)
LEMMA ChangedMap ==
  ASSUME NEW p \in Map, NEW k \in SandboxKeys, NEW x \in SandboxValues \union {Gone}
  PROVE  /\ [p EXCEPT ![k] = x] \in Map
         /\ \A j \in SandboxKeys : [p EXCEPT ![k] = x][j] = IF j = k THEN x ELSE p[j]
PROOF BY DEF Map

(* Reading an update gives the value and leaves every other key as it was. *)
LEMMA UpdateReads ==
  ASSUME NEW s, IsBox(s), NEW b, NEW p, StandsFor(s, b, p),
         NEW k \in SandboxKeys \ s.del, NEW x \in SandboxValues,
         k \in DOMAIN s.ins => k \notin DOMAIN s.mods
  PROVE  StandsFor(UpdateIn(s, k, x), b, [p EXCEPT ![k] = x])
<1> DEFINE t == UpdateIn(s, k, x)
<1>1. /\ t.del = s.del
      /\ k \in DOMAIN s.ins => t.mods = s.mods /\ t.ins = With(s.ins, k, x)
      /\ k \notin DOMAIN s.ins => t.ins = s.ins /\ t.mods = With(s.mods, k, x)
  BY UpdateInIs
<1> HIDE DEF t
<1>2. \A j \in SandboxKeys : ReadLocal(t, j, b[j]) = IF j = k THEN x ELSE ReadLocal(s, j, b[j])
  <2>1. CASE k \in DOMAIN s.ins
    BY <1>1, <2>1 DEF ReadLocal, With
  <2>2. CASE k \notin DOMAIN s.ins
    BY <1>1, <2>2 DEF ReadLocal, With
  <2>3. QED
    BY <2>1, <2>2
<1>3. p \in Map
  BY DEF StandsFor
<1>4. \A j \in SandboxKeys : ReadLocal(t, j, b[j]) = [p EXCEPT ![k] = x][j]
  BY <1>2, <1>3 DEF StandsFor, Map
<1>5. [p EXCEPT ![k] = x] \in Map
  BY <1>3, ChangedMap
<1>6. QED
  BY <1>4, <1>5 DEF StandsFor, t

LEMMA EraseReads ==
  ASSUME NEW s, IsBox(s), NEW b, NEW p, StandsFor(s, b, p), NEW k \in SandboxKeys
  PROVE  StandsFor(EraseIn(s, k), b, [p EXCEPT ![k] = Gone])
<1> DEFINE t == EraseIn(s, k)
<1>1. /\ t.del = s.del \union {k}
      /\ t.mods = Without(s.mods, {k}) /\ t.ins = Without(s.ins, {k})
  BY EraseInIs
<1> HIDE DEF t
<1>2. \A j \in SandboxKeys : ReadLocal(t, j, b[j]) = IF j = k THEN Gone ELSE ReadLocal(s, j, b[j])
  BY <1>1 DEF ReadLocal, Without
<1>3. p \in Map
  BY DEF StandsFor
<1>4. \A j \in SandboxKeys : ReadLocal(t, j, b[j]) = [p EXCEPT ![k] = Gone][j]
  BY <1>2, <1>3 DEF StandsFor, Map
<1>5. [p EXCEPT ![k] = Gone] \in Map
  BY <1>3, ChangedMap
<1>6. QED
  BY <1>4, <1>5 DEF StandsFor, t

LEMMA InsertReads ==
  ASSUME NEW s, IsBox(s), NEW b, NEW p, StandsFor(s, b, p), NEW orig,
         NEW k \in SandboxKeys \ s.del, NEW x \in SandboxValues, k \notin DOMAIN s.mods
  PROVE  StandsFor(InsertIn(s, k, x, orig), b, [p EXCEPT ![k] = x])
<1> DEFINE t == InsertIn(s, k, x, orig)
<1>1. t.del = s.del /\ t.mods = s.mods /\ t.ins = With(s.ins, k, x)
  BY InsertInIs
<1> HIDE DEF t
<1>2. \A j \in SandboxKeys : ReadLocal(t, j, b[j]) = IF j = k THEN x ELSE ReadLocal(s, j, b[j])
  BY <1>1 DEF ReadLocal, With
<1>3. p \in Map
  BY DEF StandsFor
<1>4. \A j \in SandboxKeys : ReadLocal(t, j, b[j]) = [p EXCEPT ![k] = x][j]
  BY <1>2, <1>3 DEF StandsFor, Map
<1>5. [p EXCEPT ![k] = x] \in Map
  BY <1>3, ChangedMap
<1>6. QED
  BY <1>4, <1>5 DEF StandsFor, t


(* What a child shows is what its parent shows once the child is applied,  *)
(* and the parent can still be applied to the view.                        *)
LEMMA AppliedIsRoot ==
  ASSUME NEW s, NEW r, NEW v, NEW g, NEW q, NEW p,
         RootBox(r, v, g, q), ChildBox(s, v, g, q, p)
  PROVE  RootBox(Apply(s, r), v, g, p)
<1> DEFINE t == Apply(s, r)
<1>0. IsBox(s) /\ IsBox(r) /\ p \in Map
  BY DEF RootBox, ChildBox, StandsFor
<1>1. Merged(s, r, t)
  BY <1>0, ApplyIs
<1> HIDE DEF t
<1>2. /\ s.del \subseteq SandboxKeys /\ r.del \subseteq SandboxKeys
      /\ DOMAIN s.mods \subseteq SandboxKeys /\ DOMAIN r.mods \subseteq SandboxKeys
      /\ DOMAIN s.ins \subseteq SandboxKeys /\ DOMAIN r.ins \subseteq SandboxKeys
  BY <1>0 DEF IsBox, Entries
<1>3. /\ \A k \in DOMAIN s.mods : s.mods[k] \in SandboxValues
      /\ \A k \in DOMAIN r.mods : r.mods[k] \in SandboxValues
      /\ \A k \in DOMAIN s.ins : s.ins[k] \in SandboxValues
      /\ \A k \in DOMAIN r.ins : r.ins[k] \in SandboxValues
  BY <1>0 DEF IsBox, Entries
<1>4. /\ \A k \in s.del : k \notin DOMAIN s.mods /\ k \notin DOMAIN s.ins
      /\ \A k \in r.del : k \notin DOMAIN r.mods /\ k \notin DOMAIN r.ins
  BY <1>0 DEF IsBox
<1>5. /\ \A k \in SandboxKeys : ReadLocal(r, k, v[k]) = q[k]
      /\ \A k \in r.del : v[k] # Gone /\ k \in g
      /\ \A k \in DOMAIN r.ins : v[k] = Gone
      /\ \A k \in DOMAIN r.mods : k \in DOMAIN r.ins \/ v[k] # Gone
  BY DEF RootBox, StandsFor
<1>6. /\ \A k \in SandboxKeys : ReadLocal(s, k, q[k]) = p[k]
      /\ \A k \in s.del : v[k] # Gone /\ k \in g
      /\ \A k \in DOMAIN s.ins : v[k] = Gone /\ q[k] = Gone /\ k \notin DOMAIN s.mods
      /\ \A k \in DOMAIN s.mods : q[k] # Gone
  BY DEF ChildBox, StandsFor
<1>7. \A k \in t.del : k \notin DOMAIN t.mods /\ k \notin DOMAIN t.ins
  BY <1>1, <1>4 DEF Merged
<1>8. Entries(t.mods)
  BY <1>1, <1>2, <1>3 DEF Entries, Merged
<1>9. Entries(t.ins)
  BY <1>1, <1>2, <1>3 DEF Entries, Merged
<1>10. IsBox(t)
  BY <1>1, <1>2, <1>7, <1>8, <1>9 DEF IsBox, Merged
<1>11. ASSUME NEW k \in SandboxKeys
       PROVE  ReadLocal(t, k, v[k]) = p[k]
  <2>1. /\ ReadLocal(r, k, v[k]) = q[k] /\ ReadLocal(s, k, q[k]) = p[k]
    BY <1>5, <1>6
  <2>2. CASE k \in s.del
    BY <2>1, <2>2, <1>1, <1>4 DEF ReadLocal, Merged
  <2>3. CASE k \in DOMAIN s.ins
    <3>1. k \notin r.del /\ k \notin s.del /\ k \notin DOMAIN s.mods /\ v[k] = Gone /\ q[k] = Gone
      BY <2>3, <1>4, <1>5, <1>6
    <3>2. k \notin DOMAIN r.mods
      BY <2>1, <3>1, <1>3, SandboxConstants DEF ReadLocal
    <3>3. k \notin DOMAIN t.mods /\ k \in DOMAIN t.ins /\ k \notin t.del /\ t.ins[k] = s.ins[k]
      BY <2>3, <3>1, <3>2, <1>1 DEF Merged
    <3>4. QED
      BY <2>1, <2>3, <3>1, <3>3 DEF ReadLocal
  <2>4. CASE k \notin s.del /\ k \notin DOMAIN s.ins /\ k \in DOMAIN s.mods
    <3>1. k \notin r.del
      BY <2>1, <2>4, <1>6 DEF ReadLocal
    <3>2. k \notin t.del /\ k \in DOMAIN t.mods /\ t.mods[k] = s.mods[k]
      BY <2>4, <3>1, <1>1 DEF Merged
    <3>3. QED
      BY <2>1, <2>4, <3>2 DEF ReadLocal
  <2>5. CASE k \notin s.del /\ k \notin DOMAIN s.ins /\ k \notin DOMAIN s.mods
    <3>1. /\ k \in t.del <=> k \in r.del
          /\ k \in DOMAIN t.mods <=> k \in DOMAIN r.mods
          /\ k \in DOMAIN t.ins <=> k \in DOMAIN r.ins
      BY <2>5, <1>1 DEF Merged
    <3>2. /\ k \in DOMAIN r.mods => t.mods[k] = r.mods[k]
          /\ k \in DOMAIN r.ins => t.ins[k] = r.ins[k]
      BY <2>5, <1>1 DEF Merged
    <3>3. QED
      BY <2>1, <2>5, <3>1, <3>2 DEF ReadLocal
  <2>6. QED
    BY <2>2, <2>3, <2>4, <2>5
<1>12. \A k \in t.del : v[k] # Gone /\ k \in g
  BY <1>1, <1>5, <1>6 DEF Merged
<1>13. \A k \in DOMAIN t.ins : v[k] = Gone
  BY <1>1, <1>5, <1>6 DEF Merged
<1>14. ASSUME NEW k \in DOMAIN t.mods
       PROVE  k \in DOMAIN t.ins \/ v[k] # Gone
  <2>1. CASE k \in DOMAIN r.mods \ s.del
    BY <2>1, <1>1, <1>5 DEF Merged
  <2>2. CASE k \in DOMAIN s.mods
    <3>1. k \notin s.del /\ q[k] # Gone /\ ReadLocal(r, k, v[k]) = q[k] /\ k \in SandboxKeys
      BY <2>2, <1>2, <1>4, <1>5, <1>6
    <3>2. k \in DOMAIN r.ins \/ v[k] # Gone
      BY <3>1, <1>5 DEF ReadLocal
    <3>3. QED
      BY <3>1, <3>2, <1>1 DEF Merged
  <2>3. QED
    BY <2>1, <2>2, <1>1 DEF Merged
<1>15. StandsFor(t, v, p)
  BY <1>0, <1>11 DEF StandsFor
<1>16. RootBox(t, v, g, p)
  BY <1>10, <1>12, <1>13, <1>14, <1>15 DEF RootBox
<1>17. QED
  BY <1>16 DEF t


-----------------------------------------------------------------------------
(* Reads and walks through a chain of one or two sandboxes.                *)
LEMMA Suffixes ==
  ASSUME NEW s, NEW r
  PROVE  /\ DOMAIN <<s>> = {1} /\ Len(<<s>>) = 1 /\ SubSeq(<<s>>, 1, 1) = <<s>>
         /\ DOMAIN <<s, r>> = {1, 2} /\ Len(<<s, r>>) = 2
         /\ SubSeq(<<s, r>>, 1, 2) = <<s, r>> /\ SubSeq(<<s, r>>, 2, 2) = <<r>>
<1>1. <<s>> \in Seq({s, r}) /\ Len(<<s>>) = 1
  OBVIOUS
<1>2. <<s, r>> \in Seq({s, r}) /\ Len(<<s, r>>) = 2 /\ Tail(<<s, r>>) = <<r>> /\ <<s, r>> # << >>
  OBVIOUS
<1>3. SubSeq(<<s>>, 1, Len(<<s>>)) = <<s>> /\ SubSeq(<<s, r>>, 1, Len(<<s, r>>)) = <<s, r>>
  BY <1>1, <1>2, SubSeqFull
<1>4. SubSeq(<<s, r>>, 2, Len(<<s, r>>)) = Tail(<<s, r>>)
  BY <1>2, TailIsSubSeq
<1>5. DOMAIN <<s>> = {1} /\ DOMAIN <<s, r>> = {1, 2}
  OBVIOUS
<1>6. QED
  BY <1>1, <1>2, <1>3, <1>4, <1>5

LEMMA ReadOne ==
  ASSUME NEW s, NEW k
  PROVE  Read(<<s>>, k) = ReadLocal(s, k, view[k])
<1> DEFINE c == [boxes |-> <<s>>, key |-> k]
<1>1. Reading!Loop(c, view[k], 1) = ReadThrough(c, 1, Reading!Loop(c, view[k], 0))
  BY Reading!LoopTurns
<1>2. Reading!Loop(c, view[k], 0) = view[k]
  BY Reading!LoopTurns
<1>3. Len(<<s>>) = 1 /\ c.boxes = <<s>> /\ c.key = k
  OBVIOUS
<1>4. QED
  BY <1>1, <1>2, <1>3 DEF Read, ReadThrough

LEMMA ReadTwo ==
  ASSUME NEW s, NEW r, NEW k
  PROVE  Read(<<s, r>>, k) = ReadLocal(s, k, ReadLocal(r, k, view[k]))
<1> DEFINE c == [boxes |-> <<s, r>>, key |-> k]
<1>1. Len(<<s, r>>) = 2 /\ c.boxes = <<s, r>> /\ c.key = k
  OBVIOUS
<1>2. Len(c.boxes) + 1 - 1 = 2 /\ Len(c.boxes) + 1 - 2 = 1 /\ c.boxes[1] = s /\ c.boxes[2] = r
  BY <1>1
<1>3. ReadThrough(c, 1, view[k]) = ReadLocal(r, k, view[k])
  BY <1>1, <1>2 DEF ReadThrough
<1>4. \A x : ReadThrough(c, 2, x) = ReadLocal(s, k, x)
  BY <1>1, <1>2 DEF ReadThrough
<1>5. Read(<<s, r>>, k) = Reading!Loop(c, view[k], 2)
  BY <1>1 DEF Read
<1> HIDE DEF c
<1>6. /\ Reading!Loop(c, view[k], 0) = view[k]
      /\ \A n \in Nat : Reading!Loop(c, view[k], n + 1) = ReadThrough(c, n + 1, Reading!Loop(c, view[k], n))
  BY Reading!LoopTurns
<1>7. Reading!Loop(c, view[k], 1) = ReadThrough(c, 1, view[k])
  BY <1>6
<1>8. Reading!Loop(c, view[k], 2) = ReadThrough(c, 2, Reading!Loop(c, view[k], 1))
  BY <1>6
<1>9. QED
  BY <1>3, <1>4, <1>5, <1>7, <1>8

LEMMA BelowNone == BelowSet(<<>>) = Shown(view)
<1>1. Seeing!Loop(<<>>, Shown(view), 0) = Shown(view)
  BY Seeing!LoopTurns
<1>2. QED
  BY <1>1 DEF BelowSet, Shown

LEMMA BelowOne ==
  ASSUME NEW s
  PROVE  BelowSet(<<s>>) = Visible(s, Shown(view))
<1>1. Seeing!Loop(<<s>>, Shown(view), 1) = SeeThrough(<<s>>, 1, Seeing!Loop(<<s>>, Shown(view), 0))
  BY Seeing!LoopTurns
<1>2. Seeing!Loop(<<s>>, Shown(view), 0) = Shown(view)
  BY Seeing!LoopTurns
<1>3. Len(<<s>>) = 1 /\ <<s>>[1] = s
  OBVIOUS
<1>4. QED
  BY <1>1, <1>2, <1>3 DEF BelowSet, Shown, SeeThrough

(* The keys a sandbox shows are those of the map it stands for.            *)
LEMMA VisibleIsShown ==
  ASSUME NEW s, NEW b, NEW p, IsBox(s), StandsFor(s, b, p)
  PROVE  Visible(s, Shown(b)) = Shown(p)
<1>1. ASSUME NEW k \in SandboxKeys
      PROVE  k \in Visible(s, Shown(b)) <=> k \in Shown(p)
  <2>1. ReadLocal(s, k, b[k]) = p[k]
    BY DEF StandsFor
  <2>2. /\ k \in DOMAIN s.mods => s.mods[k] # Gone
        /\ k \in DOMAIN s.ins => s.ins[k] # Gone
    BY SandboxConstants DEF IsBox, Entries
  <2>3. QED
    BY <2>1, <2>2 DEF Visible, Own, Shown, ReadLocal
<1>2. Visible(s, Shown(b)) \subseteq SandboxKeys
  BY DEF Visible, Own, Shown, IsBox, Entries
<1>3. Shown(p) \subseteq SandboxKeys
  BY DEF Shown
<1>4. QED
  BY <1>1, <1>2, <1>3

LEMMA SuccIsNext ==
  ASSUME NEW s, NEW b, NEW p, IsBox(s), StandsFor(s, b, p), NEW k
  PROVE  SuccLocal(s, Shown(b), k) = LeastAbove(Shown(p), k)
PROOF BY VisibleIsShown DEF SuccLocal, Visible

(* What the invariant says of what can be seen from outside.               *)
LEMMA PInvShows == PInv => SandboxIsMap
<1> SUFFICES ASSUME PInv PROVE SandboxIsMap
  OBVIOUS
<1>1. CASE OnRoot
  <2> DEFINE s == boxes[1]
             p == plain[1]
  <2>1. IsBox(s) /\ StandsFor(s, view, p) /\ boxes = <<s>>
    BY <1>1 DEF OnRoot, RootBox
  <2>3. Head(<<s>>) = s /\ Tail(<<s>>) = << >>
    OBVIOUS
  <2>4. RootBox(s, view, gone, p)
    BY <1>1 DEF OnRoot
  <2> HIDE DEF s, p
  <2>2. DOMAIN <<s>> = {1} /\ Len(<<s>>) = 1 /\ SubSeq(<<s>>, 1, 1) = <<s>>
    BY Suffixes
  <2>5. ASSUME NEW k \in SandboxKeys
        PROVE  Read(<<s>>, k) = p[k] /\ Succ(<<s>>, k) = LeastAbove(Shown(p), k)
    <3>1. Read(<<s>>, k) = p[k]
      BY <2>1, ReadOne DEF StandsFor
    <3>2. Succ(<<s>>, k) = SuccLocal(s, Shown(view), k)
      BY <2>3, BelowNone DEF Succ
    <3>3. QED
      BY <2>1, <3>1, <3>2, SuccIsNext
  <2>6. ~ViewRefuses(s)
    BY <2>4 DEF RootBox, ViewRefuses
  <2>7. ApplyToView(s) = p
    <3>1. \A k \in SandboxKeys : ApplyToView(s)[k] = ReadLocal(s, k, view[k])
      BY <2>1 DEF ApplyToView, ReadLocal, IsBox
    <3>2. p \in Map /\ \A k \in SandboxKeys : ApplyToView(s)[k] = p[k]
      BY <2>1, <3>1 DEF StandsFor
    <3>3. QED
      BY <3>2 DEF ApplyToView, Map
  <2>8. boxes[1] = s /\ plain[1] = p
    BY DEF s, p
  <2>9. \A i \in DOMAIN boxes : \A k \in SandboxKeys :
          /\ Read(SubSeq(boxes, i, Len(boxes)), k) = plain[i][k]
          /\ Succ(SubSeq(boxes, i, Len(boxes)), k) = LeastAbove(Shown(plain[i]), k)
    <3> SUFFICES ASSUME NEW i \in DOMAIN boxes, NEW k \in SandboxKeys
                 PROVE  /\ Read(SubSeq(boxes, i, Len(boxes)), k) = plain[i][k]
                        /\ Succ(SubSeq(boxes, i, Len(boxes)), k) = LeastAbove(Shown(plain[i]), k)
      OBVIOUS
    <3>1. i = 1 /\ SubSeq(boxes, i, Len(boxes)) = <<s>> /\ plain[i] = p
      BY <2>1, <2>2, <2>8
    <3>2. QED
      BY <3>1, <2>5
  <2>10. QED
    BY <2>6, <2>7, <2>8, <2>9 DEF SandboxIsMap
<1>2. CASE OnChild
  <2> DEFINE s == boxes[1]
             r == boxes[2]
             p == plain[1]
             q == plain[2]
  <2>1. /\ IsBox(s) /\ StandsFor(s, q, p) /\ IsBox(r) /\ StandsFor(r, view, q)
        /\ boxes = <<s, r>>
    BY <1>2 DEF OnChild, RootBox, ChildBox
  <2>3. /\ Head(<<s, r>>) = s /\ Tail(<<s, r>>) = <<r>>
        /\ Head(<<r>>) = r /\ Tail(<<r>>) = << >>
    OBVIOUS
  <2> HIDE DEF s, r, p, q
  <2>2. /\ DOMAIN <<s, r>> = {1, 2} /\ Len(<<s, r>>) = 2
        /\ SubSeq(<<s, r>>, 1, 2) = <<s, r>> /\ SubSeq(<<s, r>>, 2, 2) = <<r>>
    BY Suffixes
  <2>4. ASSUME NEW k \in SandboxKeys
        PROVE  Read(<<r>>, k) = q[k] /\ Succ(<<r>>, k) = LeastAbove(Shown(q), k)
    <3>1. Read(<<r>>, k) = q[k]
      BY <2>1, ReadOne DEF StandsFor
    <3>2. Succ(<<r>>, k) = SuccLocal(r, Shown(view), k)
      BY <2>3, BelowNone DEF Succ
    <3>3. QED
      BY <2>1, <3>1, <3>2, SuccIsNext
  <2>5. ASSUME NEW k \in SandboxKeys
        PROVE  Read(<<s, r>>, k) = p[k] /\ Succ(<<s, r>>, k) = LeastAbove(Shown(p), k)
    <3>1. Read(<<s, r>>, k) = p[k]
      BY <2>1, ReadTwo DEF StandsFor
    <3>2. BelowSet(<<r>>) = Shown(q)
      BY <2>1, BelowOne, VisibleIsShown
    <3>3. Succ(<<s, r>>, k) = SuccLocal(s, Shown(q), k)
      BY <2>3, <3>2 DEF Succ
    <3>4. QED
      BY <2>1, <3>1, <3>3, SuccIsNext
  <2>6. plain[1] = p /\ plain[2] = q
    BY DEF p, q
  <2>7. \A i \in DOMAIN boxes : \A k \in SandboxKeys :
          /\ Read(SubSeq(boxes, i, Len(boxes)), k) = plain[i][k]
          /\ Succ(SubSeq(boxes, i, Len(boxes)), k) = LeastAbove(Shown(plain[i]), k)
    <3> SUFFICES ASSUME NEW i \in DOMAIN boxes, NEW k \in SandboxKeys
                 PROVE  /\ Read(SubSeq(boxes, i, Len(boxes)), k) = plain[i][k]
                        /\ Succ(SubSeq(boxes, i, Len(boxes)), k) = LeastAbove(Shown(plain[i]), k)
      OBVIOUS
    <3>1. \/ i = 1 /\ SubSeq(boxes, i, Len(boxes)) = <<s, r>> /\ plain[i] = p
          \/ i = 2 /\ SubSeq(boxes, i, Len(boxes)) = <<r>> /\ plain[i] = q
      BY <2>1, <2>2, <2>6
    <3>2. QED
      BY <3>1, <2>4, <2>5
  <2>8. Len(boxes) # 1
    BY <2>1, <2>2
  <2>9. QED
    BY <2>7, <2>8 DEF SandboxIsMap
<1>3. QED
  BY <1>1, <1>2 DEF PInv


-----------------------------------------------------------------------------
(* Each operation leaves a sandbox that the invariant allows.              *)
LEMMA RootUpdated ==
  ASSUME NEW s, NEW v, NEW g, NEW p, RootBox(s, v, g, p),
         NEW k \in SandboxKeys, p[k] # Gone, v[k] # Gone, NEW x \in SandboxValues
  PROVE  RootBox(UpdateIn(s, k, x), v, g, [p EXCEPT ![k] = x])
<1> DEFINE t == UpdateIn(s, k, x)
<1>1. IsBox(s) /\ StandsFor(s, v, p) /\ k \notin s.del /\ k \notin DOMAIN s.ins
  BY DEF RootBox, StandsFor, ReadLocal
<1>2. IsBox(t) /\ t.del = s.del /\ t.ins = s.ins /\ t.mods = With(s.mods, k, x)
  BY <1>1, UpdateInIs
<1>3. StandsFor(t, v, [p EXCEPT ![k] = x])
  BY <1>1, UpdateReads
<1> HIDE DEF t
<1>4. /\ \A j \in t.del : v[j] # Gone /\ j \in g
      /\ \A j \in DOMAIN t.ins : v[j] = Gone
  BY <1>2 DEF RootBox
<1>5. \A j \in DOMAIN t.mods : j \in DOMAIN t.ins \/ v[j] # Gone
  BY <1>2 DEF RootBox, With
<1>6. RootBox(t, v, g, [p EXCEPT ![k] = x])
  BY <1>2, <1>3, <1>4, <1>5 DEF RootBox
<1>7. QED
  BY <1>6 DEF t

LEMMA ChildUpdated ==
  ASSUME NEW s, NEW v, NEW g, NEW q, NEW p, ChildBox(s, v, g, q, p),
         NEW k \in SandboxKeys, p[k] # Gone, NEW x \in SandboxValues
  PROVE  ChildBox(UpdateIn(s, k, x), v, g, q, [p EXCEPT ![k] = x])
<1> DEFINE t == UpdateIn(s, k, x)
<1>1. IsBox(s) /\ StandsFor(s, q, p) /\ k \notin s.del
  BY DEF ChildBox, StandsFor, ReadLocal
<1>2. /\ \A j \in s.del : v[j] # Gone /\ j \in g
      /\ \A j \in DOMAIN s.ins : v[j] = Gone /\ q[j] = Gone /\ j \notin DOMAIN s.mods
      /\ \A j \in DOMAIN s.mods : q[j] # Gone
  BY DEF ChildBox
<1>3. /\ IsBox(t) /\ t.del = s.del
      /\ k \in DOMAIN s.ins => t.mods = s.mods /\ t.ins = With(s.ins, k, x)
      /\ k \notin DOMAIN s.ins => t.ins = s.ins /\ t.mods = With(s.mods, k, x)
  BY <1>1, UpdateInIs
<1>4. StandsFor(t, q, [p EXCEPT ![k] = x])
  BY <1>1, <1>2, UpdateReads
<1> HIDE DEF t
<1>5. /\ \A j \in DOMAIN t.ins : v[j] = Gone /\ q[j] = Gone /\ j \notin DOMAIN t.mods
      /\ \A j \in DOMAIN t.mods : q[j] # Gone
  <2>1. CASE k \in DOMAIN s.ins
    BY <1>2, <1>3, <2>1 DEF With
  <2>2. CASE k \notin DOMAIN s.ins
    <3>1. k \in DOMAIN s.mods \/ q[k] = p[k]
      BY <1>1, <2>2 DEF StandsFor, ReadLocal
    <3>2. q[k] # Gone
      BY <1>2, <3>1
    <3>3. QED
      BY <1>2, <1>3, <2>2, <3>2 DEF With
  <2>3. QED
    BY <2>1, <2>2
<1>6. ChildBox(t, v, g, q, [p EXCEPT ![k] = x])
  BY <1>2, <1>3, <1>4, <1>5 DEF ChildBox
<1>7. QED
  BY <1>6 DEF t

LEMMA RootErased ==
  ASSUME NEW s, NEW v, NEW g, NEW p, RootBox(s, v, g, p), NEW k \in SandboxKeys, v[k] # Gone
  PROVE  RootBox(EraseIn(s, k), v, g \union {k}, [p EXCEPT ![k] = Gone])
<1> DEFINE t == EraseIn(s, k)
<1>1. IsBox(s) /\ StandsFor(s, v, p)
  BY DEF RootBox
<1>2. /\ IsBox(t) /\ t.del = s.del \union {k}
      /\ t.mods = Without(s.mods, {k}) /\ t.ins = Without(s.ins, {k})
  BY <1>1, EraseInIs
<1>3. StandsFor(t, v, [p EXCEPT ![k] = Gone])
  BY <1>1, EraseReads
<1> HIDE DEF t
<1>4. /\ \A j \in t.del : v[j] # Gone /\ j \in g \union {k}
      /\ \A j \in DOMAIN t.ins : v[j] = Gone
      /\ \A j \in DOMAIN t.mods : j \in DOMAIN t.ins \/ v[j] # Gone
  BY <1>2 DEF RootBox, Without
<1>5. RootBox(t, v, g \union {k}, [p EXCEPT ![k] = Gone])
  BY <1>2, <1>3, <1>4 DEF RootBox
<1>6. QED
  BY <1>5 DEF t

LEMMA ChildErased ==
  ASSUME NEW s, NEW v, NEW g, NEW q, NEW p, ChildBox(s, v, g, q, p),
         NEW k \in SandboxKeys, v[k] # Gone
  PROVE  ChildBox(EraseIn(s, k), v, g \union {k}, q, [p EXCEPT ![k] = Gone])
<1> DEFINE t == EraseIn(s, k)
<1>1. IsBox(s) /\ StandsFor(s, q, p)
  BY DEF ChildBox
<1>2. /\ IsBox(t) /\ t.del = s.del \union {k}
      /\ t.mods = Without(s.mods, {k}) /\ t.ins = Without(s.ins, {k})
  BY <1>1, EraseInIs
<1>3. StandsFor(t, q, [p EXCEPT ![k] = Gone])
  BY <1>1, EraseReads
<1> HIDE DEF t
<1>4. /\ \A j \in t.del : v[j] # Gone /\ j \in g \union {k}
      /\ \A j \in DOMAIN t.ins : v[j] = Gone /\ q[j] = Gone /\ j \notin DOMAIN t.mods
      /\ \A j \in DOMAIN t.mods : q[j] # Gone
  BY <1>2 DEF ChildBox, Without
<1>5. ChildBox(t, v, g \union {k}, q, [p EXCEPT ![k] = Gone])
  BY <1>2, <1>3, <1>4 DEF ChildBox
<1>6. QED
  BY <1>5 DEF t

(* What a child may insert, its parent does not show because the view does *)
(* not have it: it has not been deleted.                                   *)
LEMMA ChildInserted ==
  ASSUME NEW s, NEW r, NEW v, NEW g, NEW q, NEW p,
         RootBox(r, v, g, q), ChildBox(s, v, g, q, p),
         NEW k \in SandboxKeys \ g, p[k] = Gone, NEW x \in SandboxValues, NEW orig
  PROVE  ChildBox(InsertIn(s, k, x, orig), v, g, q, [p EXCEPT ![k] = x])
<1> DEFINE t == InsertIn(s, k, x, orig)
<1>1. IsBox(s) /\ StandsFor(s, q, p) /\ k \notin s.del /\ IsBox(r) /\ StandsFor(r, v, q) /\ k \notin r.del
  BY DEF ChildBox, RootBox
<1>2. /\ \A j \in DOMAIN s.mods : s.mods[j] # Gone
      /\ \A j \in DOMAIN s.ins : s.ins[j] # Gone
      /\ \A j \in DOMAIN r.mods : r.mods[j] # Gone
      /\ \A j \in DOMAIN r.ins : r.ins[j] # Gone
  BY <1>1, SandboxConstants DEF IsBox, Entries
<1>3. q[k] = Gone /\ k \notin DOMAIN s.mods
  BY <1>1, <1>2 DEF StandsFor, ReadLocal
<1>4. v[k] = Gone
  BY <1>1, <1>2, <1>3 DEF StandsFor, ReadLocal
<1>5. IsBox(t) /\ t.del = s.del /\ t.mods = s.mods /\ t.ins = With(s.ins, k, x)
  BY <1>1, InsertInIs
<1>6. StandsFor(t, q, [p EXCEPT ![k] = x])
  BY <1>1, <1>3, InsertReads
<1> HIDE DEF t
<1>7. /\ \A j \in t.del : v[j] # Gone /\ j \in g
      /\ \A j \in DOMAIN t.ins : v[j] = Gone /\ q[j] = Gone /\ j \notin DOMAIN t.mods
      /\ \A j \in DOMAIN t.mods : q[j] # Gone
  BY <1>3, <1>4, <1>5 DEF ChildBox, With
<1>8. ChildBox(t, v, g, q, [p EXCEPT ![k] = x])
  BY <1>5, <1>6, <1>7 DEF ChildBox
<1>9. QED
  BY <1>8 DEF t

(* Discarding a child leaves the keys that the root deleted.               *)
LEMMA RootDiscarded ==
  ASSUME NEW r, NEW v, NEW g, NEW q, RootBox(r, v, g, q)
  PROVE  RootBox(r, v, {k \in SandboxKeys : q[k] = Gone /\ v[k] # Gone}, q)
<1>1. ASSUME NEW k \in r.del PROVE k \in SandboxKeys /\ q[k] = Gone /\ v[k] # Gone
  BY DEF RootBox, StandsFor, ReadLocal, IsBox
<1>2. QED
  BY <1>1 DEF RootBox

LEMMA BlankRoot ==
  ASSUME NEW v \in Map
  PROVE  RootBox(Blank, v, {}, v)
PROOF BY BlankIs DEF RootBox

LEMMA BlankChild ==
  ASSUME NEW v, NEW g, NEW q \in Map
  PROVE  ChildBox(Blank, v, g, q, q)
PROOF BY BlankIs DEF ChildBox


-----------------------------------------------------------------------------
(* The invariant holds at the start and every operation keeps it.          *)
LEMMA OnTopOf ==
  ASSUME NEW a, NEW b
  PROVE  <<a>> \o <<b>> = <<a, b>>
<1> DEFINE c == <<a>> \o <<b>>
<1>1. <<a>> \in Seq({a, b}) /\ <<b>> \in Seq({a, b}) /\ Len(<<a>>) = 1 /\ Len(<<b>>) = 1
  OBVIOUS
<1>2. c \in Seq({a, b}) /\ Len(c) = 2 /\ c[1] = a /\ c[2] = b
  BY <1>1
<1> HIDE DEF c
<1>3. c = <<a, b>>
  BY <1>2
<1>4. QED
  BY <1>3 DEF c

LEMMA RootState ==
  ASSUME view' \in Map, gone' \subseteq SandboxKeys, NEW s, NEW p,
         boxes' = <<s>>, plain' = <<p>>, RootBox(s, view', gone', p)
  PROVE  PInv'
<1>1. boxes'[1] = s /\ plain'[1] = p
  OBVIOUS
<1>2. OnRoot'
  BY <1>1 DEF OnRoot
<1>3. QED
  BY <1>2 DEF PInv

LEMMA ChildState ==
  ASSUME view' \in Map, gone' \subseteq SandboxKeys, NEW s, NEW r, NEW p, NEW q,
         boxes' = <<s, r>>, plain' = <<p, q>>,
         RootBox(r, view', gone', q), ChildBox(s, view', gone', q, p)
  PROVE  PInv'
<1>1. boxes'[1] = s /\ plain'[1] = p /\ boxes'[2] = r /\ plain'[2] = q
  OBVIOUS
<1>2. OnChild'
  BY <1>1 DEF OnChild
<1>3. QED
  BY <1>2 DEF PInv

LEMMA PInvInit == SandboxInit => PInv
<1> SUFFICES ASSUME SandboxInit PROVE PInv
  OBVIOUS
<1>1. view \in Map /\ gone = {}
  BY DEF SandboxInit, Map
<1>2. boxes[1] = Blank /\ plain[1] = view /\ boxes = <<boxes[1]>> /\ plain = <<plain[1]>>
  BY DEF SandboxInit
<1>3. OnRoot
  BY <1>1, <1>2, BlankRoot DEF OnRoot
<1>4. QED
  BY <1>1, <1>3 DEF PInv

LEMMA RootStep ==
  ASSUME view \in Map, gone \subseteq SandboxKeys, NEW s, NEW p,
         boxes = <<s>>, plain = <<p>>, RootBox(s, view, gone, p), SandboxNext
  PROVE  PInv'
<1>1. /\ Len(boxes) = 1 /\ Tail(boxes) = << >> /\ Tail(plain) = << >>
      /\ boxes[1] = s /\ plain[1] = p /\ ~InChild
  BY DEF InChild
<1>2. IsBox(s) /\ p \in Map
  BY DEF RootBox, StandsFor
<1>3. ASSUME NEW t, NEW k, NEW x, OnTop(t, k, x)
      PROVE  boxes' = <<t>> /\ plain' = <<[p EXCEPT ![k] = x]>> /\ view' = view
  <2>1. boxes' = <<t>> \o << >> /\ plain' = <<[p EXCEPT ![k] = x]>> \o << >> /\ view' = view
    BY <1>1, <1>3 DEF OnTop
  <2>2. <<t>> \o << >> = <<t>> /\ <<[p EXCEPT ![k] = x]>> \o << >> = <<[p EXCEPT ![k] = x]>>
    OBVIOUS
  <2>3. QED
    BY <2>1, <2>2
<1>4. CASE NewChildSandbox
  <2>1. boxes' = <<Blank>> \o <<s>> /\ plain' = <<p>> \o <<p>> /\ UNCHANGED <<view, gone>>
    BY <1>4, <1>1 DEF NewChildSandbox
  <2>2. boxes' = <<Blank, s>> /\ plain' = <<p, p>> /\ view' = view /\ gone' = gone
    BY <2>1, OnTopOf
  <2>3. QED
    BY <2>2, <1>2, BlankChild, ChildState
<1>5. CASE ApplyRoot
  <2>1. view' = ApplyToView(s) /\ boxes' = <<Blank>> /\ plain' = <<view'>> /\ gone' = {}
    BY <1>5, <1>1 DEF ApplyRoot
  <2>2. view' \in Map
    <3>1. view' = [k \in SandboxKeys |->
                     IF k \in DOMAIN s.mods THEN s.mods[k]
                     ELSE IF k \in DOMAIN s.ins THEN s.ins[k]
                     ELSE IF k \in s.del THEN Gone ELSE view[k]]
      BY <2>1 DEF ApplyToView
    <3>2. QED
      BY <3>1, <1>2 DEF Map, IsBox, Entries
  <2>3. QED
    BY <2>1, <2>2, BlankRoot, RootState
<1>6. CASE ApplyChild \/ DiscardChild
  BY <1>6, <1>1 DEF ApplyChild, DiscardChild
<1>7. ASSUME NEW k \in SandboxKeys, Erase(k)
      PROVE  PInv'
  <2>1. view[k] # Gone /\ OnTop(EraseIn(s, k), k, Gone) /\ gone' = gone \union {k}
    BY <1>7, <1>1 DEF Erase
  <2>2. boxes' = <<EraseIn(s, k)>> /\ plain' = <<[p EXCEPT ![k] = Gone]>> /\ view' = view
    BY <2>1, <1>3
  <2>3. RootBox(EraseIn(s, k), view', gone', [p EXCEPT ![k] = Gone])
    BY <2>1, <2>2, RootErased
  <2>4. view' \in Map /\ gone' \subseteq SandboxKeys
    BY <2>1, <2>2
  <2>5. QED
    BY <2>2, <2>3, <2>4, RootState
<1>8. ASSUME NEW k \in SandboxKeys, NEW x \in SandboxValues, Insert(k, x)
      PROVE  PInv'
  BY <1>8, <1>1 DEF Insert
<1>9. ASSUME NEW k \in SandboxKeys, NEW x \in SandboxValues, Update(k, x)
      PROVE  PInv'
  <2>1. p[k] # Gone /\ view[k] # Gone /\ OnTop(UpdateIn(s, k, x), k, x) /\ gone' = gone
    BY <1>9, <1>1 DEF Update
  <2>2. boxes' = <<UpdateIn(s, k, x)>> /\ plain' = <<[p EXCEPT ![k] = x]>> /\ view' = view
    BY <2>1, <1>3
  <2>3. RootBox(UpdateIn(s, k, x), view', gone', [p EXCEPT ![k] = x])
    BY <2>1, <2>2, RootUpdated
  <2>4. view' \in Map /\ gone' \subseteq SandboxKeys
    BY <2>1, <2>2
  <2>5. QED
    BY <2>2, <2>3, <2>4, RootState
<1>10. QED
  BY <1>4, <1>5, <1>6, <1>7, <1>8, <1>9 DEF SandboxNext

LEMMA ChildStep ==
  ASSUME view \in Map, gone \subseteq SandboxKeys, NEW s, NEW r, NEW p, NEW q,
         boxes = <<s, r>>, plain = <<p, q>>, RootBox(r, view, gone, q),
         ChildBox(s, view, gone, q, p), SandboxNext
  PROVE  PInv'
<1>1. /\ Len(boxes) = 2 /\ Tail(boxes) = <<r>> /\ Tail(plain) = <<q>>
      /\ boxes[1] = s /\ plain[1] = p /\ boxes[2] = r /\ plain[2] = q
  OBVIOUS
<1>2. ASSUME NEW t, NEW k, NEW x, OnTop(t, k, x)
      PROVE  boxes' = <<t, r>> /\ plain' = <<[p EXCEPT ![k] = x], q>> /\ view' = view
  <2>1. boxes' = <<t>> \o <<r>> /\ plain' = <<[p EXCEPT ![k] = x]>> \o <<q>> /\ view' = view
    BY <1>1, <1>2 DEF OnTop
  <2>2. <<t>> \o <<r>> = <<t, r>> /\ <<[p EXCEPT ![k] = x]>> \o <<q>> = <<[p EXCEPT ![k] = x], q>>
    BY OnTopOf
  <2>3. QED
    BY <2>1, <2>2
<1>3. CASE NewChildSandbox \/ ApplyRoot
  BY <1>3, <1>1 DEF NewChildSandbox, ApplyRoot
<1>4. CASE ApplyChild
  <2>1. boxes' = <<Apply(s, r)>> /\ plain' = <<p>> /\ view' = view /\ gone' = gone
    BY <1>4, <1>1 DEF ApplyChild
  <2>2. RootBox(Apply(s, r), view, gone, p)
    BY AppliedIsRoot
  <2>3. QED
    BY <2>1, <2>2, RootState
<1>5. CASE DiscardChild
  <2> DEFINE g == {k \in SandboxKeys : q[k] = Gone /\ view[k] # Gone}
  <2>1. boxes' = <<r>> /\ plain' = <<q>> /\ view' = view /\ gone' = g
    BY <1>5, <1>1 DEF DiscardChild
  <2>2. RootBox(r, view, g, q) /\ g \subseteq SandboxKeys
    BY RootDiscarded
  <2> HIDE DEF g
  <2>3. QED
    BY <2>1, <2>2, RootState
<1>6. ASSUME NEW k \in SandboxKeys, Erase(k)
      PROVE  PInv'
  <2>1. view[k] # Gone /\ OnTop(EraseIn(s, k), k, Gone) /\ gone' = gone \union {k}
    BY <1>6, <1>1 DEF Erase
  <2>2. boxes' = <<EraseIn(s, k), r>> /\ plain' = <<[p EXCEPT ![k] = Gone], q>> /\ view' = view
    BY <2>1, <1>2
  <2>3. ChildBox(EraseIn(s, k), view', gone', q, [p EXCEPT ![k] = Gone])
    BY <2>1, <2>2, ChildErased
  <2>4. RootBox(r, view', gone', q)
    BY <2>1, <2>2 DEF RootBox
  <2>5. view' \in Map /\ gone' \subseteq SandboxKeys
    BY <2>1, <2>2
  <2>6. QED
    BY <2>2, <2>3, <2>4, <2>5, ChildState
<1>7. ASSUME NEW k \in SandboxKeys, NEW x \in SandboxValues, Insert(k, x)
      PROVE  PInv'
  <2> DEFINE orig == Read(<<r>>, k)
  <2>1. p[k] = Gone /\ k \notin gone /\ OnTop(InsertIn(s, k, x, orig), k, x) /\ gone' = gone
    BY <1>7, <1>1 DEF Insert
  <2> HIDE DEF orig
  <2>2. boxes' = <<InsertIn(s, k, x, orig), r>> /\ plain' = <<[p EXCEPT ![k] = x], q>> /\ view' = view
    BY <2>1, <1>2
  <2>3. ChildBox(InsertIn(s, k, x, orig), view', gone', q, [p EXCEPT ![k] = x])
    BY <2>1, <2>2, ChildInserted
  <2>4. QED
    BY <2>1, <2>2, <2>3, ChildState
<1>8. ASSUME NEW k \in SandboxKeys, NEW x \in SandboxValues, Update(k, x)
      PROVE  PInv'
  <2>1. p[k] # Gone /\ OnTop(UpdateIn(s, k, x), k, x) /\ gone' = gone
    BY <1>8, <1>1 DEF Update
  <2>2. boxes' = <<UpdateIn(s, k, x), r>> /\ plain' = <<[p EXCEPT ![k] = x], q>> /\ view' = view
    BY <2>1, <1>2
  <2>3. ChildBox(UpdateIn(s, k, x), view', gone', q, [p EXCEPT ![k] = x])
    BY <2>1, <2>2, ChildUpdated
  <2>4. QED
    BY <2>1, <2>2, <2>3, ChildState
<1>9. QED
  BY <1>3, <1>4, <1>5, <1>6, <1>7, <1>8 DEF SandboxNext

(* sandbox.go: whatever the payment engine did in children, applied or     *)
(* discarded, a sandbox reads and walks as the plain map it stands for and *)
(* the root can be applied to the view and makes it that map, for any keys *)
(* and values.                                                             *)
THEOREM SandboxIsMapHolds == SandboxSpec => []SandboxIsMap
<1>1. PInv /\ [SandboxNext]_sandboxVars => PInv'
  <2> SUFFICES ASSUME PInv, [SandboxNext]_sandboxVars PROVE PInv'
    OBVIOUS
  <2>1. CASE UNCHANGED sandboxVars
    BY <2>1 DEF sandboxVars, PInv, OnRoot, OnChild
  <2>2. CASE SandboxNext /\ OnRoot
    BY <2>2, RootStep DEF PInv, OnRoot
  <2>3. CASE SandboxNext /\ OnChild
    BY <2>3, ChildStep DEF PInv, OnChild
  <2>4. QED
    BY <2>1, <2>2, <2>3 DEF PInv
<1>2. QED
  BY <1>1, PInvInit, PInvShows, PTL DEF SandboxSpec
=============================================================================
