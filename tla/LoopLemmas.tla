---------------------------- MODULE LoopLemmas -----------------------------
(***************************************************************************)
(* What the proofs about loops rest on.  A loop of the code is a recursive *)
(* function in the model, whose value after round i is made of the value   *)
(* after round i - 1.  Such a function exists (LoopExists), and what is    *)
(* true after every round is shown by induction over the rounds, which is  *)
(* stated for the set of the numbers it is true of (SetInduction), or of   *)
(* the values that are allowed after each round (LoopInduction, and        *)
(* LoopKeeps for what every round preserves).                              *)
(***************************************************************************)
EXTENDS Integers, TLAPS, WellFoundedInduction

\* A set of naturals that is not empty has a least element.
LEMMA LeastElement ==
  ASSUME NEW T, T \subseteq Nat, T # {}
  PROVE  \E x \in T : \A y \in T : x <= y
<1> DEFINE R == OpToRel(<, Nat)
<1>1. IsWellFoundedOn(R, Nat)
  BY NatLessThanWellFounded
<1>2. \A x \in Nat, y \in Nat : x < y => <<x, y>> \in R
  BY Zenon DEF OpToRel
<1> HIDE DEF R
<1>3. PICK x \in T : \A y \in T : ~ (<<y, x>> \in R)
  BY <1>1, WFMin
<1>4. \A y \in T : ~ (y < x)
  BY <1>2, <1>3
<1> QED
  BY <1>4

\* Induction over the naturals, for a property given as the set of the
\* numbers that have it.
LEMMA SetInduction ==
  ASSUME NEW S, 0 \in S, \A n \in Nat : n \in S => n + 1 \in S
  PROVE  Nat \subseteq S
<1> SUFFICES ASSUME Nat \ S # {} PROVE FALSE
  OBVIOUS
<1>1. PICK x \in Nat \ S : \A y \in Nat \ S : x <= y
  BY LeastElement
<1>2. x # 0 /\ x - 1 \in Nat
  OBVIOUS
<1>3. x - 1 \in S
  BY <1>1, <1>2
<1>4. (x - 1) + 1 \in S
  BY <1>2, <1>3
<1>5. (x - 1) + 1 = x
  BY <1>2
<1> QED
  BY <1>4, <1>5

\* The values of g are those of a loop of N rounds.
Rounds(g, N, start, step) ==
  g[0] = start /\ \A i \in 1 .. N : g[i] = step[i][g[i - 1]]

\* A loop of N rounds that starts with a value of T, and round i of which
\* makes step[i][v] of the value v it finds, has a value after every round.
LEMMA LoopExists ==
  ASSUME NEW N \in Nat, NEW T, NEW start \in T, NEW step \in [1 .. N -> [T -> T]]
  PROVE  \E g \in [0 .. N -> T] : Rounds(g, N, start, step)
<1> DEFINE Upto(g, m) == \A i \in 1 .. N : i <= m => g[i] = step[i][g[i - 1]]
<1> DEFINE S == {m \in Nat : \E g \in [0 .. N -> T] : g[0] = start /\ Upto(g, m)}
<1>1. 0 \in S
  <2> DEFINE g == [i \in 0 .. N |-> start]
  <2>1. g \in [0 .. N -> T] /\ g[0] = start /\ Upto(g, 0)
    OBVIOUS
  <2> HIDE DEF g
  <2> QED
    BY <2>1
<1>2. \A m \in Nat : m \in S => m + 1 \in S
  <2> SUFFICES ASSUME NEW m \in Nat, m \in S PROVE m + 1 \in S
    OBVIOUS
  <2>1. PICK g \in [0 .. N -> T] : g[0] = start /\ Upto(g, m)
    OBVIOUS
  <2> DEFINE next == step[m + 1][g[m]]
             h == [g EXCEPT ![m + 1] = next]
  <2>2. CASE m + 1 <= N
    <3>1. next \in T
      BY <2>1, <2>2
    <3>2. h \in [0 .. N -> T] /\ h[m + 1] = next
      <4> HIDE DEF next
      <4> QED
        BY <3>1, <2>1, <2>2
    <3>3. \A i \in 0 .. N : i # m + 1 => h[i] = g[i]
      BY <2>1
    <3>4. h[0] = start
      BY <2>1, <3>3
    <3>5. Upto(h, m + 1)
      <4> SUFFICES ASSUME NEW i \in 1 .. N, i <= m + 1 PROVE h[i] = step[i][h[i - 1]]
        OBVIOUS
      <4> HIDE DEF h, next
      <4>1. h[i - 1] = g[i - 1]
        BY <3>3
      <4>2. CASE i = m + 1
        BY <4>1, <4>2, <3>2 DEF next
      <4>3. CASE i # m + 1
        BY <4>1, <4>3, <3>3, <2>1
      <4> QED
        BY <4>2, <4>3
    <3> HIDE DEF h
    <3> QED
      BY <3>2, <3>4, <3>5
  <2>3. CASE ~(m + 1 <= N)
    <3>1. Upto(g, m + 1)
      BY <2>1, <2>3
    <3> QED
      BY <2>1, <3>1
  <2> QED
    BY <2>2, <2>3
<1> HIDE DEF S
<1>3. N \in S
  BY <1>1, <1>2, SetInduction
<1> QED
  BY <1>3 DEF S, Rounds

\* What the rounds of a loop preserve is true after every round: J[i] has the
\* values that are allowed after round i.
LEMMA LoopInduction ==
  ASSUME NEW N \in Nat, NEW J, NEW f, f[0] \in J[0],
         \A i \in 1 .. N : f[i - 1] \in J[i - 1] => f[i] \in J[i]
  PROVE  \A i \in 0 .. N : f[i] \in J[i]
<1> DEFINE S == {i \in Nat : i <= N => f[i] \in J[i]}
<1>1. 0 \in S
  OBVIOUS
<1>2. \A n \in Nat : n \in S => n + 1 \in S
  <2> SUFFICES ASSUME NEW n \in Nat, n \in S, n + 1 <= N PROVE f[n + 1] \in J[n + 1]
    OBVIOUS
  <2>1. f[n] \in J[n] /\ n + 1 \in 1 .. N /\ (n + 1) - 1 = n
    OBVIOUS
  <2> QED
    BY <2>1
<1> HIDE DEF S
<1>3. Nat \subseteq S
  BY <1>1, <1>2, SetInduction
<1> QED
  BY <1>3 DEF S

\* g has the values of such a loop after its rounds.
LoopValues(g, N, T, J, start, turn) ==
  /\ g \in [0 .. N -> T] /\ g[0] = start
  /\ \A i \in 1 .. N : g[i] = turn[i][g[i - 1]]
  /\ \A i \in 0 .. N : g[i] \in J[i]

\* A loop that starts with a value of J[0], and round i of which makes
\* turn[i][v] of J[i] of a value v of J[i - 1], has a value after every round.
LEMMA LoopKeeps ==
  ASSUME NEW N \in Nat, NEW T, NEW J \in [0 .. N -> SUBSET T], NEW start \in J[0],
         NEW turn, \A i \in 1 .. N : \A v \in J[i - 1] : turn[i][v] \in J[i]
  PROVE  \E g : LoopValues(g, N, T, J, start, turn)
<1> DEFINE step == [i \in 1 .. N |-> [v \in T |-> IF v \in J[i - 1] THEN turn[i][v] ELSE v]]
<1>1. step \in [1 .. N -> [T -> T]]
  <2>1. \A i \in 1 .. N : \A v \in T : (IF v \in J[i - 1] THEN turn[i][v] ELSE v) \in T
    <3> SUFFICES ASSUME NEW i \in 1 .. N, NEW v \in T
                 PROVE  (IF v \in J[i - 1] THEN turn[i][v] ELSE v) \in T
      OBVIOUS
    <3>1. i \in 0 .. N /\ i - 1 \in 0 .. N
      OBVIOUS
    <3>2. J[i] \subseteq T
      BY <3>1
    <3> QED
      BY <3>2
  <2> QED
    BY <2>1
<1>2. start \in T
  <2>1. 0 \in 0 .. N
    OBVIOUS
  <2>2. J[0] \subseteq T
    BY <2>1
  <2> QED
    BY <2>2
<1>3. \A i \in 1 .. N : \A v \in T : v \in J[i - 1] => step[i][v] = turn[i][v]
  OBVIOUS
<1> HIDE DEF step
<1>4. PICK g \in [0 .. N -> T] : Rounds(g, N, start, step)
  BY <1>1, <1>2, LoopExists
<1>5. g[0] = start /\ \A i \in 1 .. N : g[i] = step[i][g[i - 1]]
  BY <1>4 DEF Rounds
<1>6. \A i \in 1 .. N : g[i - 1] \in T
  <2> SUFFICES ASSUME NEW i \in 1 .. N PROVE g[i - 1] \in T
    OBVIOUS
  <2>1. i - 1 \in 0 .. N
    OBVIOUS
  <2> QED
    BY <2>1
<1>7. \A i \in 1 .. N : g[i - 1] \in J[i - 1] => g[i] = turn[i][g[i - 1]] /\ g[i] \in J[i]
  BY <1>3, <1>5, <1>6
<1>8. \A i \in 0 .. N : g[i] \in J[i]
  BY <1>5, <1>7, LoopInduction
<1>9. \A i \in 1 .. N : i - 1 \in 0 .. N
  OBVIOUS
<1>10. \A i \in 1 .. N : g[i] = turn[i][g[i - 1]]
  BY <1>7, <1>8, <1>9
<1> QED
  BY <1>4, <1>5, <1>8, <1>10 DEF LoopValues
=============================================================================
