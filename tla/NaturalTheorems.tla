---------------------------- MODULE NaturalTheorems ----------------------------
(***************************************************************************)
(* What the proofs use of the natural numbers beyond the library: greatest *)
(* and least elements, as Max and Min of the community modules choose      *)
(* them, of sets that need not be finite as far as a proof knows; and      *)
(* induction and recursion.  The library states these for an operator,     *)
(* which no prover here can instantiate; stated for a set of numbers, or   *)
(* for a function of functions, they can be cited.                         *)
(***************************************************************************)
EXTENDS Integers, FiniteSetsExt, WellFoundedInduction, TLAPS

\* A bounded set of naturals that is not empty has a greatest element.
LEMMA GreatestOf ==
  ASSUME NEW S \in SUBSET Nat, NEW b \in Nat, S # {}, \A x \in S : x <= b
  PROVE  Max(S) \in S /\ \A y \in S : y <= Max(S)
<1> DEFINE R == {p \in Nat \X Nat : p[1] < p[2]}
           D == {b - x : x \in S}
<1>0. S \subseteq Nat
  OBVIOUS
<1>1. D \in SUBSET Nat /\ D # {}
  <2>1. \A x \in S : b - x \in Nat
    BY <1>0
  <2>2. PICK x \in S : TRUE
    OBVIOUS
  <2>3. b - x \in D
    OBVIOUS
  <2>4. QED
    BY <2>1, <2>3
<1>2. IsWellFoundedOn(R, Nat)
  BY NatLessThanWellFounded DEF OpToRel
<1>3. PICK d \in D : \A y \in D : ~ (<<y, d>> \in R)
  <2> HIDE DEF D, R
  <2>1. QED
    BY <1>1, <1>2, WFMin
<1>4. \A y \in D : ~(y < d)
  BY <1>1, <1>3
<1>5. PICK x \in S : d = b - x
  OBVIOUS
<1>6. ASSUME NEW y \in S PROVE x >= y
  <2>1. b - y \in D /\ y \in Nat /\ x \in Nat
    BY <1>0
  <2> HIDE DEF D
  <2>2. ~(b - y < b - x)
    BY <2>1, <1>4, <1>5
  <2>3. QED
    BY <2>1, <2>2
<1>7. QED
  <2>1. \E m \in S : \A y \in S : m >= y
    BY <1>6
  <2>2. Max(S) \in S /\ \A y \in S : Max(S) >= y
    BY <2>1 DEF Max
  <2>3. Max(S) \in Nat
    BY <1>0, <2>2
  <2>4. QED
    BY <1>0, <2>2, <2>3

\* A set of naturals that is not empty has a least element.
LEMMA LeastOf ==
  ASSUME NEW S \in SUBSET Nat, S # {}
  PROVE  Min(S) \in S /\ \A y \in S : Min(S) <= y
<1> DEFINE R == {p \in Nat \X Nat : p[1] < p[2]}
<1>1. IsWellFoundedOn(R, Nat)
  BY NatLessThanWellFounded DEF OpToRel
<1>2. PICK m \in S : \A y \in S : ~ (<<y, m>> \in R)
  <2> HIDE DEF R
  <2>1. QED
    BY <1>1, WFMin
<1>3. \A y \in S : m <= y
  <2>1. ASSUME NEW y \in S PROVE m <= y
    <3>1. y \in Nat /\ m \in Nat /\ ~(y < m)
      BY <1>2
    <3>2. QED
      BY <3>1
  <2>2. QED
    BY <2>1
<1>4. QED
  BY <1>3 DEF Min

\* Induction: what holds of 0 and passes from each number to the next holds of all.
LEMMA SetInduction ==
  ASSUME NEW S \in SUBSET Nat, 0 \in S, \A n \in S : n + 1 \in S
  PROVE  \A n \in Nat : n \in S
<1> SUFFICES ASSUME NEW n \in Nat, n \notin S PROVE FALSE
  OBVIOUS
<1> DEFINE D == Nat \ S
<1>1. Min(D) \in D /\ \A y \in D : Min(D) <= y
  <2>1. D \in SUBSET Nat /\ D # {}
    OBVIOUS
  <2> HIDE DEF D
  <2>2. QED
    BY <2>1, LeastOf
<1>2. PICK m \in Nat : m \notin S /\ \A y \in Nat \ S : m <= y
  BY <1>1
<1>3. m # 0 /\ m - 1 \in Nat
  BY <1>2
<1>4. m - 1 \in S
  BY <1>2, <1>3
<1>5. (m - 1) + 1 = m
  OBVIOUS
<1>6. QED
  BY <1>2, <1>4, <1>5

\* Recursion up to a bound: a first value and N steps define a function.
Recursive(w, N, A, a, step) ==
    w \in [0..N -> A] /\ w[0] = a /\ \A n \in 1..N : w[n] = step[n][w[n - 1]]

LEMMA BoundedRecursion ==
  ASSUME NEW N \in Nat, NEW A, NEW a \in A, NEW step \in [1..N -> [A -> A]]
  PROVE  \E w : Recursive(w, N, A, a, step)
<1> DEFINE Goes(m, w) == w[0] = a /\ \A n \in 1..m : w[n] = step[n][w[n - 1]]
           S == {m \in Nat : m <= N => \E w \in [0..m -> A] : Goes(m, w)}
<1>1. 0 \in S
  <2>1. [n \in 0..0 |-> a] \in [0..0 -> A] /\ Goes(0, [n \in 0..0 |-> a])
    OBVIOUS
  <2>2. \E w \in [0..0 -> A] : Goes(0, w)
    BY <2>1
  <2> HIDE DEF Goes
  <2>3. QED
    BY <2>2
<1>2. ASSUME NEW m \in S PROVE m + 1 \in S
  <2>1. SUFFICES ASSUME m + 1 <= N PROVE \E w \in [0..m + 1 -> A] : Goes(m + 1, w)
    OBVIOUS
  <2>2. m \in Nat /\ m <= N
    BY <1>2, <2>1
  <2>3. PICK w \in [0..m -> A] : Goes(m, w)
    BY <1>2, <2>2
  <2> DEFINE v == [n \in 0..m + 1 |-> IF n = m + 1 THEN step[n][w[m]] ELSE w[n]]
  <2>4. step[m + 1][w[m]] \in A
    <3>1. m + 1 \in 1..N /\ w[m] \in A
      BY <2>1, <2>2
    <3>2. QED
      BY <3>1
  <2>5. v \in [0..m + 1 -> A]
    <3>1. ASSUME NEW n \in 0..m + 1, n # m + 1 PROVE w[n] \in A
      <4>1. n \in 0..m
        BY <2>2, <3>1
      <4>2. QED
        BY <4>1
    <3>2. QED
      BY <2>4, <3>1
  <2>6. Goes(m + 1, v)
    <3>1. v[0] = a
      BY <2>2, <2>3
    <3>2. ASSUME NEW n \in 1..m + 1 PROVE v[n] = step[n][v[n - 1]]
      <4>1. n \in 0..m + 1 /\ n - 1 \in 0..m + 1 /\ n - 1 # m + 1 /\ n - 1 \in 0..m
        BY <2>2, <3>2
      <4>2. v[n - 1] = w[n - 1]
        BY <4>1
      <4>3. CASE n = m + 1
        <5>1. v[n] = step[n][w[m]] /\ n - 1 = m
          BY <2>2, <4>1, <4>3
        <5>2. QED
          BY <4>2, <5>1
      <4>4. CASE n # m + 1
        <5>1. v[n] = w[n] /\ n \in 1..m
          BY <2>2, <4>1, <4>4
        <5>2. QED
          BY <2>3, <4>2, <5>1
      <4>5. QED
        BY <4>3, <4>4
    <3> HIDE DEF v
    <3>3. QED
      BY <3>1, <3>2
  <2>7. QED
    <3> HIDE DEF v, Goes
    <3>1. QED
      BY <2>5, <2>6
<1>3. N \in S
  <2>1. S \in SUBSET Nat
    OBVIOUS
  <2> HIDE DEF S
  <2>2. QED
    BY <1>1, <1>2, <2>1, SetInduction
<1>4. PICK w \in [0..N -> A] : Goes(N, w)
  BY <1>3
<1>5. QED
  BY <1>4 DEF Recursive
=============================================================================
