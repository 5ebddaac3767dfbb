------------------------------ MODULE Counting ------------------------------
(***************************************************************************)
(* Facts about finite sets of natural numbers that the proofs of several   *)
(* components need.                                                        *)
(***************************************************************************)
EXTENDS Integers, FiniteSets, FiniteSetTheorems, TLAPS

\* Every set of naturals that is not empty has a least element.
LEMMA Least ==
  ASSUME NEW S \in SUBSET Nat, S /= {}
  PROVE  \E m \in S : \A n \in S : m <= n
<1> DEFINE R == OpToRel(<, Nat)
<1>1. IsWellFoundedOn(R, Nat)
  BY NatLessThanWellFounded
<1>2. \A x, y \in Nat : <<x, y>> \in R <=> x < y
  BY DEF OpToRel
<1> HIDE DEF R
<1>3. PICK m \in S : \A n \in S : ~(<<n, m>> \in R)
  BY <1>1, WFMin
<1>4. ASSUME NEW n \in S PROVE m <= n
  <2>1. n \in Nat /\ m \in Nat
    OBVIOUS
  <2>2. ~(n < m)
    BY <1>2, <1>3, <2>1
  <2>3. QED
    BY <2>1, <2>2
<1>5. QED
  BY <1>3, <1>4

\* A bounded one has a greatest.
LEMMA Greatest ==
  ASSUME NEW b \in Nat, NEW S \in SUBSET (0 .. b), S /= {}
  PROVE  \E m \in S : \A n \in S : n <= m
<1> DEFINE T == {b - n : n \in S}
<1>1. T \in SUBSET Nat /\ T /= {}
  <2>1. \A n \in S : n \in 0 .. b
    OBVIOUS
  <2>2. \A n \in S : b - n \in Nat
    BY <2>1
  <2>3. QED
    BY <2>2
<1>2. PICK t \in T : \A n \in T : t <= n
  BY <1>1, Least
<1>3. PICK m \in S : t = b - m
  OBVIOUS
<1>4. \A n \in S : b - n \in T
  OBVIOUS
<1> HIDE DEF T
<1>5. ASSUME NEW n \in S PROVE n <= m
  <2>1. n \in 0 .. b /\ m \in 0 .. b
    OBVIOUS
  <2>2. b - m <= b - n
    BY <1>2, <1>3, <1>4
  <2>3. QED
    BY <2>1, <2>2
<1>6. QED
  BY <1>5

\* Counting up to i adds i itself, when it is there.
Upto(S, i) == {j \in S : j <= i}

LEMMA UptoCounts ==
  ASSUME NEW m \in Nat, NEW S \in SUBSET (1 .. m), NEW i \in 0 .. m
  PROVE  /\ IsFiniteSet(S) /\ IsFiniteSet(Upto(S, i))
         /\ Cardinality(Upto(S, i)) \in Nat
         /\ i > 0 /\ i \in S =>
              Cardinality(Upto(S, i)) = Cardinality(Upto(S, i - 1)) + 1
         /\ i > 0 /\ i \notin S =>
              Cardinality(Upto(S, i)) = Cardinality(Upto(S, i - 1))
<1>0. IsFiniteSet(1 .. m)
  BY FS_Interval
<1>1. ASSUME NEW T \in SUBSET (1 .. m) PROVE IsFiniteSet(T) /\ Cardinality(T) \in Nat
  BY <1>0, FS_Subset, FS_CardinalityType
<1>2. \A k \in Int : Upto(S, k) \in SUBSET (1 .. m)
  BY DEF Upto
<1>3. i \in Int /\ \A j \in S : j \in Int /\ (j <= i <=> j <= i - 1 \/ j = i)
  <2>1. \A j \in 1 .. m : j \in Int /\ (j <= i <=> j <= i - 1 \/ j = i)
    OBVIOUS
  <2>2. QED
    BY <2>1
<1>4. CASE i \in S
  <2>1. Upto(S, i) = Upto(S, i - 1) \union {i}
    BY <1>3, <1>4 DEF Upto
  <2>2. i \notin Upto(S, i - 1)
    BY <1>3 DEF Upto
  <2>3. QED
    BY <1>1, <1>2, <1>3, <1>4, <2>1, <2>2, FS_AddElement
<1>5. CASE i \notin S
  <2>1. Upto(S, i) = Upto(S, i - 1)
    BY <1>3, <1>5 DEF Upto
  <2>2. QED
    BY <1>1, <1>2, <1>3, <1>5, <2>1
<1>6. QED
  BY <1>4, <1>5

\* A set of numbers moved one place down has as many elements.
LEMMA ShiftCounts ==
  ASSUME NEW S \in SUBSET Int, NEW T \in SUBSET Int, IsFiniteSet(S),
         \A i \in Int : i \in T <=> i + 1 \in S
  PROVE  IsFiniteSet(T) /\ Cardinality(T) = Cardinality(S)
<1> DEFINE down == [i \in S |-> i - 1]
<1>1. down \in [S -> T]
  <2>1. \A i \in S : i - 1 \in Int /\ i - 1 + 1 = i
    OBVIOUS
  <2>2. QED
    BY <2>1
<1>2. \A i, j \in S : down[i] = down[j] => i = j
  <2>1. \A i, j \in S : i - 1 = j - 1 => i = j
    OBVIOUS
  <2>2. QED
    BY <2>1
<1>3. \A j \in T : \E i \in S : down[i] = j
  <2>1. \A j \in T : j + 1 \in S /\ j + 1 - 1 = j
    OBVIOUS
  <2>2. QED
    BY <2>1
<1> HIDE DEF down
<1>4. down \in Bijection(S, T)
  BY <1>1, <1>2, <1>3 DEF Bijection, Injection, Surjection, IsInjective
<1>5. ExistsBijection(S, T)
  BY <1>4 DEF ExistsBijection
<1>6. QED
  BY <1>5, FS_Bijection
=============================================================================
