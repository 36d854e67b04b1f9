------------------------------- MODULE Loops --------------------------------
(***************************************************************************)
(* A counted loop of the code, and induction over its turns.  A module     *)
(* that models such a loop instantiates this one with the loop's body:     *)
(* Step(p, i, x) is what turn i makes of the value x, where p is whatever  *)
(* else the body reads.  Loop(p, x, n) is the value after n turns.         *)
(***************************************************************************)
EXTENDS Integers, WellFoundedInduction, TLAPS

CONSTANT Step(_, _, _)

Loop(p, x, n) ==
    LET after[i \in Nat] == IF i = 0 THEN x ELSE Step(p, i, after[i - 1])
    IN after[n]

-----------------------------------------------------------------------------
(* Induction over the natural numbers, for the set of those that have a     *)
(* property: the loops of the code that this is used for all count upwards. *)
LEMMA TurnByTurn ==
    ASSUME NEW S, S \subseteq Nat, 0 \in S, \A n \in S : n + 1 \in S
    PROVE  S = Nat
<1> SUFFICES ASSUME S # Nat PROVE FALSE
    OBVIOUS
<1> DEFINE T == Nat \ S
<1>1. T # {} /\ T \subseteq Nat
    OBVIOUS
<1>2. PICK x \in T : \A y \in T : <<y, x>> \notin OpToRel(<, Nat)
    BY <1>1, NatLessThanWellFounded, WFMin
<1>3. \A y \in T : ~(y < x)
    BY <1>1, <1>2 DEF OpToRel
<1>4. x # 0 /\ x - 1 \in Nat /\ x - 1 < x
    BY <1>1
<1> QED
    BY <1>1, <1>3, <1>4

(* h is the record of the first n turns of the loop.                        *)
Records(p, x, h, n) ==
    h = [i \in 0 .. n |-> IF i = 0 THEN x ELSE Step(p, i, h[i - 1])]

(* Any number of turns can be taken.                                        *)
LEMMA SomeRecord ==
    ASSUME NEW p, NEW x
    PROVE  \A n \in Nat : \E h : Records(p, x, h, n)
<1> DEFINE S == {n \in Nat : \E h : Records(p, x, h, n)}
<1>1. 0 \in S
  <2> DEFINE h == [i \in 0 .. 0 |-> x]
  <2>1. h = [i \in 0 .. 0 |-> IF i = 0 THEN x ELSE Step(p, i, h[i - 1])]
      BY SMT
  <2> QED
      BY <2>1 DEF Records
<1>2. ASSUME NEW n \in S
      PROVE  n + 1 \in S
  <2>1. PICK h : Records(p, x, h, n)
      OBVIOUS
  <2> DEFINE k == [i \in 0 .. n + 1 |-> IF i = n + 1 THEN Step(p, n + 1, h[n]) ELSE h[i]]
  <2>2. ASSUME NEW i \in 0 .. n + 1
        PROVE  k[i] = IF i = 0 THEN x ELSE Step(p, i, k[i - 1])
    <3>1. CASE i = n + 1
        BY <3>1, <2>1 DEF Records
    <3>2. CASE i # n + 1 /\ i # 0
      <4>1. i \in 0 .. n /\ i - 1 \in 0 .. n /\ i - 1 # n + 1
          BY <3>2
      <4>2. h[i] = Step(p, i, h[i - 1])
          BY <3>2, <4>1, <2>1 DEF Records
      <4> QED
          BY <4>1, <4>2, <3>2
    <3>3. CASE i = 0
        BY <3>3, <2>1 DEF Records
    <3> QED
        BY <3>1, <3>2, <3>3
  <2>3. Records(p, x, k, n + 1)
      BY <2>2 DEF Records
  <2> QED
      BY <2>3
<1> HIDE DEF S
<1>3. S \subseteq Nat
    BY DEF S
<1>4. S = Nat
    BY <1>1, <1>2, <1>3, TurnByTurn
<1> QED
    BY <1>4 DEF S

(* Two records agree as far as both go.                                     *)
LEMMA OneRecord ==
    ASSUME NEW p, NEW x, NEW n \in Nat, NEW m \in Nat, NEW g, NEW h,
           Records(p, x, g, n), Records(p, x, h, m)
    PROVE  \A i \in Nat : i <= n /\ i <= m => g[i] = h[i]
<1> DEFINE S == {i \in Nat : i <= n /\ i <= m => g[i] = h[i]}
<1>1. 0 \in S
    BY DEF Records
<1>2. ASSUME NEW i \in S
      PROVE  i + 1 \in S
  <2> SUFFICES ASSUME i + 1 <= n, i + 1 <= m
               PROVE  g[i + 1] = h[i + 1]
      OBVIOUS
  <2>1. g[i] = h[i]
      OBVIOUS
  <2>2. i + 1 \in 0 .. n /\ i + 1 \in 0 .. m /\ i + 1 # 0 /\ (i + 1) - 1 = i
      OBVIOUS
  <2>3. g[i + 1] = Step(p, i + 1, g[i]) /\ h[i + 1] = Step(p, i + 1, h[i])
      BY <2>2 DEF Records
  <2> QED
      BY <2>1, <2>3
<1> HIDE DEF S
<1>3. S \subseteq Nat
    BY DEF S
<1>4. S = Nat
    BY <1>1, <1>2, <1>3, TurnByTurn
<1> QED
    BY <1>4 DEF S

(* The loop's recursive function is well defined.                           *)
LEMMA SomeLoop ==
    ASSUME NEW p, NEW x
    PROVE  \E g : g = [i \in Nat |-> IF i = 0 THEN x ELSE Step(p, i, g[i - 1])]
<1> DEFINE c(n) == CHOOSE h : Records(p, x, h, n)
           g == [n \in Nat |-> c(n)[n]]
<1>1. \A n \in Nat : Records(p, x, c(n), n)
    BY SomeRecord
<1> HIDE DEF c
<1>2. ASSUME NEW n \in Nat
      PROVE  g[n] = IF n = 0 THEN x ELSE Step(p, n, g[n - 1])
  <2>1. CASE n = 0
      BY <2>1, <1>1 DEF Records
  <2>2. CASE n # 0
    <3>1. n - 1 \in Nat /\ n - 1 <= n
        BY <2>2
    <3>2. g[n] = Step(p, n, c(n)[n - 1])
        BY <1>1, <2>2 DEF Records
    <3>3. c(n)[n - 1] = c(n - 1)[n - 1]
        BY <1>1, <3>1, OneRecord
    <3> QED
        BY <3>1, <3>2, <3>3, <2>2
  <2> QED
      BY <2>1, <2>2
<1>3. g = [n \in Nat |-> IF n = 0 THEN x ELSE Step(p, n, g[n - 1])]
    BY <1>2
<1> QED
    BY <1>3

(* A loop of no turns changes nothing; one more turn is one more Step.      *)
THEOREM LoopTurns ==
    ASSUME NEW p, NEW x
    PROVE  /\ Loop(p, x, 0) = x
           /\ \A n \in Nat : Loop(p, x, n + 1) = Step(p, n + 1, Loop(p, x, n))
<1> DEFINE f == CHOOSE g : g = [i \in Nat |-> IF i = 0 THEN x ELSE Step(p, i, g[i - 1])]
<1>1. f = [i \in Nat |-> IF i = 0 THEN x ELSE Step(p, i, f[i - 1])]
    BY SomeLoop
<1>2. \A n : Loop(p, x, n) = f[n]
    BY DEF Loop
<1> HIDE DEF f
<1>3. f[0] = x
    BY <1>1
<1>4. ASSUME NEW n \in Nat
      PROVE  f[n + 1] = Step(p, n + 1, f[n])
  <2>1. n + 1 \in Nat /\ n + 1 # 0 /\ (n + 1) - 1 = n
      OBVIOUS
  <2>2. f[n + 1] = Step(p, n + 1, f[(n + 1) - 1])
      BY <1>1, <2>1
  <2> QED
      BY <2>1, <2>2
<1> QED
    BY <1>2, <1>3, <1>4
=============================================================================
