--------------------------- MODULE RecursionLemmas ---------------------------
(***************************************************************************)
(* Induction over the natural numbers and functions that are defined by      *)
(* recursion over an interval, as the modules of this project write loops     *)
(* over the elements of a list: m[i \in 0 .. n] is what the loop has made of   *)
(* the first i elements.  The induction is stated for a set, not for an        *)
(* operator, and rests on the well-foundedness of < on Nat.                    *)
(***************************************************************************)
EXTENDS Integers, WellFoundedInduction, TLAPS

\* Induction: a set with 0 and the successor of each of its numbers has them all.
LEMMA Induction ==
    ASSUME NEW S, 0 \in S, \A n \in Nat : n \in S => n + 1 \in S
    PROVE  Nat \subseteq S
<1> DEFINE T == {n \in Nat : n \notin S}
<1>1. SUFFICES ASSUME T # {} PROVE FALSE
  OBVIOUS
<1>2. \E x \in T : \A y \in T : <<y, x>> \notin OpToRel(<, Nat)
  <2>1. T \subseteq Nat
    OBVIOUS
  <2> HIDE DEF T
  <2> QED BY <1>1, <2>1, NatLessThanWellFounded, WFMin, Zenon
<1>3. PICK x \in T : \A y \in T : ~(y < x)
  <2>1. PICK x \in T : \A y \in T : <<y, x>> \notin OpToRel(<, Nat)
    BY <1>2
  <2>2. \A y \in T : ~(y < x)
    BY <2>1, Zenon DEF OpToRel
  <2> QED BY <2>2
<1>4. x # 0 /\ x - 1 \in Nat
  OBVIOUS
<1>5. x - 1 \notin T
  BY <1>3, <1>4
<1> QED BY <1>3, <1>4, <1>5

\* A loop of n steps from base, step i being g[i].
IsLoop(f, n, base, g) == f = [i \in 0 .. n |-> IF i = 0 THEN base ELSE g[i][f[i - 1]]]

\* It exists as a function, if step i takes the values in W[i - 1] to values in W[i].
LEMMA LoopExists ==
    ASSUME NEW n \in Nat, NEW W, NEW g, NEW base, base \in W[0],
           \A i \in 1 .. n : \A v \in W[i - 1] : g[i][v] \in W[i]
    PROVE  \E f : IsLoop(f, n, base, g) /\ \A i \in 0 .. n : f[i] \in W[i]
<1> DEFINE Loop(k, f) == /\ f = [i \in 0 .. k |-> IF i = 0 THEN base ELSE g[i][f[i - 1]]]
                         /\ \A i \in 0 .. k : f[i] \in W[i]
           S == {k \in Nat : k <= n => \E f : Loop(k, f)}
<1>1. 0 \in S
  <2> DEFINE f == [i \in 0 .. 0 |-> base]
  <2>1. f = [i \in 0 .. 0 |-> IF i = 0 THEN base ELSE g[i][f[i - 1]]]
    OBVIOUS
  <2>2. \A i \in 0 .. 0 : f[i] \in W[i]
    OBVIOUS
  <2> QED BY <2>1, <2>2
<1>2. ASSUME NEW k \in Nat, k \in S PROVE k + 1 \in S
  <2> SUFFICES ASSUME k + 1 <= n PROVE \E f : Loop(k + 1, f)
    OBVIOUS
  <2>1. PICK f : Loop(k, f)
    BY <1>2
  <2> DEFINE h == [i \in 0 .. k + 1 |-> IF i = k + 1 THEN g[k + 1][f[k]] ELSE f[i]]
  <2>2. \A i \in 0 .. k : h[i] = f[i]
    OBVIOUS
  <2>3. h[k + 1] = g[k + 1][f[k]] /\ h[k + 1] \in W[k + 1]
    BY <2>1
  <2>4. \A i \in 0 .. k + 1 : h[i] = IF i = 0 THEN base ELSE g[i][h[i - 1]]
    <3> SUFFICES ASSUME NEW i \in 0 .. k + 1 PROVE h[i] = IF i = 0 THEN base ELSE g[i][h[i - 1]]
      OBVIOUS
    <3> HIDE DEF h
    <3>1. CASE i = k + 1
      BY <2>2, <2>3, <3>1
    <3>2. CASE i \in 0 .. k
      <4>1. f[i] = IF i = 0 THEN base ELSE g[i][f[i - 1]]
        BY <2>1, <3>2
      <4>2. i # 0 => i - 1 \in 0 .. k
        BY <3>2
      <4> QED BY <2>2, <3>2, <4>1, <4>2
    <3> QED BY <3>1, <3>2
  <2>5. h = [i \in 0 .. k + 1 |-> IF i = 0 THEN base ELSE g[i][h[i - 1]]]
    <3>1. h = [i \in 0 .. k + 1 |-> h[i]]
      OBVIOUS
    <3> HIDE DEF h
    <3> QED BY <2>4, <3>1
  <2>6. \A i \in 0 .. k + 1 : h[i] \in W[i]
    <3> SUFFICES ASSUME NEW i \in 0 .. k + 1 PROVE h[i] \in W[i]
      OBVIOUS
    <3> HIDE DEF h
    <3>1. CASE i = k + 1
      BY <2>3, <3>1
    <3>2. CASE i \in 0 .. k
      BY <2>1, <2>2, <3>2
    <3> QED BY <3>1, <3>2
  <2> HIDE DEF h
  <2> QED BY <2>5, <2>6
<1>3. n \in S
  <2> HIDE DEF S
  <2> QED BY <1>1, <1>2, Induction
<1> QED BY <1>3 DEF IsLoop

\* What is so of the value before the first step, and of the value after each
\* step if it was before it, is so of all values of a loop.
LEMMA LoopInvariant ==
    ASSUME NEW n \in Nat, NEW W, NEW f, f[0] \in W[0],
           \A i \in 1 .. n : f[i - 1] \in W[i - 1] => f[i] \in W[i]
    PROVE  \A i \in 0 .. n : f[i] \in W[i]
<1> DEFINE S == {k \in Nat : k <= n => f[k] \in W[k]}
<1>1. 0 \in S
  OBVIOUS
<1>2. ASSUME NEW k \in Nat, k \in S PROVE k + 1 \in S
  <2>1. k + 1 <= n => k + 1 \in 1 .. n /\ (k + 1) - 1 = k /\ f[k] \in W[k]
    BY <1>2
  <2> QED BY <2>1
<1>3. Nat \subseteq S
  <2> HIDE DEF S
  <2> QED BY <1>1, <1>2, Induction
<1> QED BY <1>3
=============================================================================
