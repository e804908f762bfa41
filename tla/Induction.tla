------------------------------ MODULE Induction ------------------------------
(***************************************************************************)
(* Induction over the numbers of a range, and recursion over them, in the  *)
(* form the proofs of this project use them: a property of numbers is the  *)
(* set T of those that have it, and the step of a recursion is a function. *)
(* Both follow from the well-foundedness of < on Nat.                      *)
(***************************************************************************)
EXTENDS Integers, TLAPS, WellFoundedInduction

(* Every set of natural numbers that is not empty has a least element. *)
LEMMA LeastNumber ==
  ASSUME NEW T, T \subseteq Nat, T # {}
  PROVE  \E x \in T : \A y \in T : x <= y
<1> DEFINE R == OpToRel(<, Nat)
<1>1. IsWellFoundedOn(R, Nat)
  BY NatLessThanWellFounded
<1>2. \A x, y \in Nat : y < x => <<y, x>> \in R
  BY DEF OpToRel
<1> HIDE DEF R
<1>3. PICK x \in T : \A y \in T : ~ (<<y, x>> \in R)
  BY <1>1, WFMin
<1>4. ASSUME NEW y \in T PROVE x <= y
  <2>1. x \in Nat /\ y \in Nat
    OBVIOUS
  <2>2. ~ (y < x)
    BY <1>2, <1>3, <2>1
  <2> QED BY <2>1, <2>2
<1> QED BY <1>4

(* A property of m that each number of the range hands on to the next. *)
LEMMA RangeInduction ==
  ASSUME NEW m \in Int, NEW n \in Int, NEW T, m \in T,
         \A i \in m + 1..n : i - 1 \in T => i \in T
  PROVE  \A i \in m..n : i \in T
<1> SUFFICES ASSUME NEW j \in m..n, j \notin T PROVE FALSE
  OBVIOUS
<1> DEFINE B == {d \in Nat : m + d <= n /\ m + d \notin T}
<1>1. B \subseteq Nat /\ j - m \in B
  OBVIOUS
<1>2. PICK d \in B : \A e \in B : d <= e
  <2> HIDE DEF B
  <2> QED BY <1>1, LeastNumber
<1>3. d \in Nat /\ m + d <= n /\ m + d \notin T
  OBVIOUS
<1>4. d # 0
  BY <1>3
<1>5. d - 1 \notin B
  BY <1>2, <1>3
<1>6. m + (d - 1) \in T
  BY <1>3, <1>4, <1>5
<1>7. m + d - 1 \in T /\ m + d \in m + 1..n
  <2>1. m + (d - 1) = m + d - 1
    BY <1>3
  <2> QED BY <1>3, <1>4, <1>6, <2>1
<1> QED BY <1>3, <1>7

(* On 0..N, g begins with a and goes on by step. *)
Follows(g, N, a, step) ==
  \A i \in 0..N : g[i] = IF i = 0 THEN a ELSE step[<<i, g[i - 1]>>]

(* A function defined from its value at 0 and a step exists. *)
LEMMA RangeRecursion ==
  ASSUME NEW N \in Nat, NEW S, NEW a \in S, NEW step \in [(1..N) \X S -> S]
  PROVE  \E g \in [0..N -> S] : Follows(g, N, a, step)
<1> DEFINE Def(g, n) == \A i \in 0..n : g[i] = IF i = 0 THEN a ELSE step[<<i, g[i - 1]>>]
           T == {n \in 0..N : \E g \in [0..n -> S] : Def(g, n)}
<1>1. 0 \in T
  <2> DEFINE g == [i \in 0..0 |-> a]
  <2>1. g \in [0..0 -> S] /\ Def(g, 0)
    OBVIOUS
  <2> HIDE DEF g, Def
  <2>2. 0 \in 0..N /\ \E f \in [0..0 -> S] : Def(f, 0)
    BY <2>1
  <2> QED BY <2>2
<1>2. ASSUME NEW n \in 0 + 1..N, n - 1 \in T PROVE n \in T
  <2>1. n \in Nat /\ n >= 1 /\ n \in 0..N /\ n \in 1..N
    OBVIOUS
  <2>2. PICK g \in [0..n - 1 -> S] : Def(g, n - 1)
    BY <1>2
  <2> DEFINE h == [i \in 0..n |-> IF i = n THEN step[<<n, g[n - 1]>>] ELSE g[i]]
  <2>3. step[<<n, g[n - 1]>>] \in S
    BY <2>1
  <2>4. h \in [0..n -> S]
    BY <2>1, <2>3
  <2>5. ASSUME NEW i \in 0..n PROVE h[i] = IF i = 0 THEN a ELSE step[<<i, h[i - 1]>>]
    <3>1. CASE i = n
      <4>1. h[n - 1] = g[n - 1]
        BY <2>1
      <4> QED BY <2>1, <3>1, <4>1
    <3>2. CASE i # n /\ i # 0
      <4>1. i \in 0..n - 1 /\ i - 1 \in 0..n - 1 /\ i - 1 # n
        BY <2>1, <3>2
      <4>2. h[i] = g[i] /\ h[i - 1] = g[i - 1]
        BY <2>1, <3>2, <4>1
      <4> QED BY <2>2, <3>2, <4>1, <4>2
    <3>3. CASE i = 0 /\ i # n
      <4>1. i \in 0..n - 1
        BY <2>1, <3>3
      <4> QED BY <2>2, <3>3, <4>1
    <3> QED BY <3>1, <3>2, <3>3
  <2> HIDE DEF h
  <2> QED BY <2>1, <2>4, <2>5
<1> HIDE DEF T
<1>3. \A n \in 0..N : n \in T
  BY <1>1, <1>2, RangeInduction
<1>4. N \in T
  BY <1>3
<1> QED BY <1>4 DEF T, Follows
=============================================================================
