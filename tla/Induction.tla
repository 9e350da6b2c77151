------------------------------- MODULE Induction -------------------------------
(***************************************************************************)
(* Induction over the natural numbers in forms that take sets and          *)
(* functions where the theorems of the library take operators, and the     *)
(* functions that are defined by a first value and a step.                 *)
(***************************************************************************)
EXTENDS WellFoundedInduction, TLAPS

\* A set of numbers that holds 0, and with each number the next, holds them all.
LEMMA SetInduction ==
  ASSUME NEW S \in SUBSET Nat, 0 \in S, \A n \in S : n + 1 \in S
  PROVE  S = Nat
<1> SUFFICES ASSUME S # Nat PROVE FALSE
  OBVIOUS
<1> DEFINE T == Nat \ S
           R == {ss \in Nat \X Nat : ss[1] < ss[2]}
<1>1. T \subseteq Nat /\ T # {}
  OBVIOUS
<1>2. \A a, b \in Nat : a < b => <<a, b>> \in R
  OBVIOUS
<1>3. IsWellFoundedOn(R, Nat)
  BY NatLessThanWellFounded, Zenon DEF OpToRel
<1> HIDE DEF T, R
<1>4. PICK x \in T : \A y \in T : ~ (<<y, x>> \in R)
  BY <1>1, <1>3, WFMin
<1>5. x \in Nat /\ x # 0
  BY <1>4 DEF T
<1>6. x - 1 \in Nat /\ x - 1 < x /\ (x - 1) + 1 = x
  BY <1>5
<1>7. x - 1 \notin T
  BY <1>2, <1>4, <1>5, <1>6
<1>8. x - 1 \in S
  BY <1>6, <1>7 DEF T
<1>9. x \in S
  BY <1>6, <1>8
<1> QED BY <1>4, <1>9 DEF T

\* The same for the numbers from 0 to m.
LEMMA UpTo ==
  ASSUME NEW m \in Nat, NEW S, 0 \in S, \A n \in 1 .. m : n - 1 \in S => n \in S
  PROVE  0 .. m \subseteq S
<1> DEFINE T == {n \in Nat : n <= m => n \in S}
<1>1. 0 \in T
  OBVIOUS
<1>2. ASSUME NEW n \in T PROVE n + 1 \in T
  <2>1. n \in Nat /\ (n + 1) - 1 = n /\ n + 1 \in Nat
    OBVIOUS
  <2>2. ASSUME n + 1 <= m PROVE n + 1 \in S
    <3>1. n + 1 \in 1 .. m /\ n <= m
      BY <2>1, <2>2
    <3> QED BY <2>1, <3>1
  <2> QED BY <2>1, <2>2
<1>3. T \in SUBSET Nat
  OBVIOUS
<1> HIDE DEF T
<1>4. T = Nat
  BY <1>1, <1>2, <1>3, SetInduction
<1> QED BY <1>4 DEF T

\* f begins with v0, and each value comes from the one before.
Steps(f, V, v0, step, m) ==
  /\ f \in [0 .. m -> V] /\ f[0] = v0
  /\ \A n \in 1 .. m : f[n] = step[n][f[n - 1]]

\* There is such a function.
LEMMA Recursion ==
  ASSUME NEW V, NEW v0 \in V, NEW m \in Nat, NEW step \in [1 .. m -> [V -> V]]
  PROVE  \E f : Steps(f, V, v0, step, m)
<1> DEFINE S == {k \in 0 .. m : \E f : Steps(f, V, v0, step, k)}
<1>1. 0 \in S
  <2>1. Steps([k \in 0 .. 0 |-> v0], V, v0, step, 0)
    BY DEF Steps
  <2> QED BY <2>1
<1>2. ASSUME NEW n \in 1 .. m, n - 1 \in S PROVE n \in S
  <2>1. PICK g : Steps(g, V, v0, step, n - 1)
    BY <1>2
  <2> DEFINE h == [j \in 0 .. n |-> IF j = n THEN step[n][g[n - 1]] ELSE g[j]]
  <2>2. g[n - 1] \in V /\ step[n] \in [V -> V]
    BY <2>1 DEF Steps
  <2>3. step[n][g[n - 1]] \in V
    BY <2>2
  <2>4. \A j \in 0 .. n : j # n => g[j] \in V
    BY <2>1 DEF Steps
  <2>5. h \in [0 .. n -> V]
    BY <2>3, <2>4
  <2>6. \A j \in 0 .. n - 1 : h[j] = g[j]
    OBVIOUS
  <2>7. h[n] = step[n][h[n - 1]]
    BY <2>6
  <2> HIDE DEF h
  <2>8. h[0] = v0
    BY <2>1, <2>6 DEF Steps
  <2>9. ASSUME NEW j \in 1 .. n PROVE h[j] = step[j][h[j - 1]]
    <3>1. CASE j = n
      BY <2>7, <3>1
    <3>2. CASE j # n
      <4>1. j \in 1 .. n - 1 /\ j \in 0 .. n - 1 /\ j - 1 \in 0 .. n - 1
        BY <3>2
      <4> QED BY <2>1, <2>6, <4>1 DEF Steps
    <3> QED BY <3>1, <3>2
  <2>10. Steps(h, V, v0, step, n)
    BY <2>5, <2>8, <2>9 DEF Steps
  <2> QED BY <2>10
<1> HIDE DEF S
<1>3. 0 .. m \subseteq S
  BY <1>1, <1>2, UpTo
<1> QED BY <1>3 DEF S

\* There is only one.
LEMMA StepsAgree ==
  ASSUME NEW V, NEW v0, NEW step, NEW m \in Nat, NEW n \in Nat, n <= m,
         NEW f, Steps(f, V, v0, step, m), NEW g, Steps(g, V, v0, step, n)
  PROVE  \A k \in 0 .. n : f[k] = g[k]
<1> DEFINE S == {k \in 0 .. n : f[k] = g[k]}
<1>1. 0 \in S
  BY DEF Steps
<1>2. ASSUME NEW k \in 1 .. n, k - 1 \in S PROVE k \in S
  <2>1. k \in 1 .. m /\ f[k - 1] = g[k - 1]
    BY <1>2
  <2> QED BY <2>1 DEF Steps
<1> HIDE DEF S
<1>3. 0 .. n \subseteq S
  BY <1>1, <1>2, UpTo
<1> QED BY <1>3 DEF S

\* And one for all numbers.
Recurs(f, V, v0, step) ==
  /\ f \in [Nat -> V] /\ f[0] = v0
  /\ \A n \in Nat \ {0} : f[n] = step[n][f[n - 1]]

\* A rule for the next value has a function on all numbers that obeys it.
LEMMA RecursionOnNat ==
  ASSUME NEW V, NEW v0 \in V, NEW step \in [Nat \ {0} -> [V -> V]]
  PROVE  \E f : Recurs(f, V, v0, step)
<1> DEFINE Some(n) == CHOOSE g : Steps(g, V, v0, step, n)
           f == [n \in Nat |-> Some(n)[n]]
<1>1. ASSUME NEW n \in Nat PROVE Steps(Some(n), V, v0, step, n)
  <2> DEFINE part == [k \in 1 .. n |-> step[k]]
  <2>1. part \in [1 .. n -> [V -> V]] /\ \A k \in 1 .. n : part[k] = step[k]
    OBVIOUS
  <2> HIDE DEF part
  <2>2. PICK g : Steps(g, V, v0, part, n)
    BY <2>1, Recursion
  <2>3. Steps(g, V, v0, step, n)
    BY <2>1, <2>2 DEF Steps
  <2> QED BY <2>3
<1> HIDE DEF Some
<1>2. \A n \in Nat : Some(n)[n] \in V
  BY <1>1 DEF Steps
<1>3. f \in [Nat -> V] /\ f[0] = v0
  <2>1. Some(0)[0] = v0
    BY <1>1 DEF Steps
  <2> QED BY <1>2, <2>1
<1>4. ASSUME NEW n \in Nat \ {0} PROVE f[n] = step[n][f[n - 1]]
  <2>1. n - 1 \in Nat /\ n - 1 <= n /\ n - 1 \in 0 .. n - 1 /\ n \in 1 .. n
    OBVIOUS
  <2>2. Some(n)[n - 1] = Some(n - 1)[n - 1]
    BY <1>1, <2>1, StepsAgree
  <2>3. Some(n)[n] = step[n][Some(n)[n - 1]]
    BY <1>1, <2>1 DEF Steps
  <2> QED BY <2>1, <2>2, <2>3
<1> QED BY <1>3, <1>4 DEF Recurs
================================================================================
