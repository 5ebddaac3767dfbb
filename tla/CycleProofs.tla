----------------------------- MODULE CycleProofs -----------------------------
(***************************************************************************)
(* Proofs about Cycle, for any window.  The two invariants of the window   *)
(* need each other and nothing more: that its length is what               *)
(* WindowIsLatest says keeps End from evicting too early or too late.      *)
(* What Stats says of a window is then a fact about sequences: the k-th    *)
(* order statistic has at most k samples below it and n - 1 - k above,     *)
(* interpolation stays between neighbours, and the sum of the samples      *)
(* between n times the least and n times the greatest.                     *)
(***************************************************************************)
EXTENDS Cycle, Counting, SequenceTheorems, TLAPS

Inv == TypeOK /\ WindowIsLatest

\* What a window of at least one cycle holds once it has made room.
LEMMA EvictShifts ==
  ASSUME NEW s \in Seq(Time), Len(s) <= Window
  PROVE  /\ Evict(s) \in Seq(Time) /\ Len(Evict(s)) < Window
         /\ Len(Evict(s)) = IF Len(s) < Window THEN Len(s) ELSE Window - 1
         /\ \A i \in 1 .. Len(Evict(s)) :
              Evict(s)[i] = s[Len(s) - Len(Evict(s)) + i]
<1>1. CASE Len(s) < Window
  <2>1. Evict(s) = s /\ Len(s) \in Nat
    BY <1>1, WindowAssumption DEF Evict
  <2>2. \A i \in 1 .. Len(s) : Len(s) - Len(s) + i = i
    BY <2>1
  <2>3. QED
    BY <1>1, <2>1, <2>2
<1>2. CASE Len(s) = Window
  <2>1. s /= <<>> /\ Evict(s) = Tail(s)
    BY <1>2, WindowAssumption DEF Evict
  <2>2. /\ Tail(s) \in Seq(Time) /\ Len(Tail(s)) = Len(s) - 1
        /\ \A i \in 1 .. Len(s) - 1 : Tail(s)[i] = s[i + 1]
    BY <2>1
  <2>3. QED
    BY <1>2, <2>1, <2>2, WindowAssumption
<1>3. QED
  BY <1>1, <1>2, WindowAssumption

LEMMA EndKeeps == ASSUME Inv, End PROVE Inv'
<1> DEFINE d == now - inFlightStartedAt
           e == Evict(durations)
<1>1. /\ d \in Time /\ now' = now /\ inFlightStartedAt' = NoTime
      /\ durations' = Append(e, d) /\ log' = Append(log, d)
      /\ totalCount' = totalCount + 1 /\ totalCount' \in 0 .. MaxCycles
  BY BoundAssumption DEF End, Inv, TypeOK, Time, NoTime
<1>2. /\ e \in Seq(Time) /\ Len(e) < Window /\ Len(e) \in Nat
      /\ Len(e) = IF Len(durations) < Window THEN Len(durations) ELSE Window - 1
      /\ \A i \in 1 .. Len(e) : e[i] = durations[Len(durations) - Len(e) + i]
  BY EvictShifts DEF Inv, TypeOK
<1> HIDE DEF d, e
<1>3. /\ durations' \in Seq(Time) /\ Len(durations') = Len(e) + 1
      /\ durations'[Len(e) + 1] = d
      /\ \A i \in 1 .. Len(e) : durations'[i] = e[i]
  BY <1>1, <1>2
<1>4. /\ log \in Seq(Time) /\ Len(log) = totalCount /\ totalCount \in Nat
      /\ log' \in Seq(Time) /\ Len(log') = totalCount + 1
      /\ log'[totalCount + 1] = d
      /\ \A i \in 1 .. totalCount : log'[i] = log[i]
  BY <1>1 DEF Inv, TypeOK, WindowIsLatest
<1>5. /\ Len(durations) \in Nat /\ DOMAIN durations = 1 .. Len(durations)
      /\ Len(durations) = IF totalCount < Window THEN totalCount ELSE Window
      /\ \A i \in 1 .. Len(durations) :
           durations[i] = log[totalCount - Len(durations) + i]
  BY DEF Inv, TypeOK, WindowIsLatest
<1>6. TypeOK'
  BY <1>1, <1>2, <1>3, <1>4, WindowAssumption DEF Inv, TypeOK
<1>7. Len(durations') = IF totalCount' < Window THEN totalCount' ELSE Window
  BY <1>1, <1>2, <1>3, <1>4, <1>5, WindowAssumption
<1>8. ASSUME NEW i \in DOMAIN durations'
      PROVE  durations'[i] = log'[totalCount' - Len(durations') + i]
  <2>1. i \in 1 .. Len(e) + 1
    BY <1>2, <1>3, <1>8
  <2>2. CASE i = Len(e) + 1
    BY <1>1, <1>2, <1>3, <1>4, <2>2
  <2>3. CASE i \in 1 .. Len(e)
    <3>1. durations'[i] = durations[Len(durations) - Len(e) + i]
      BY <1>2, <1>3, <2>3
    <3>2. Len(durations) - Len(e) + i \in 1 .. Len(durations)
      BY <1>2, <1>5, <2>3, WindowAssumption
    <3>3. durations'[i] = log[totalCount - Len(e) + i]
      <4> DEFINE k == Len(durations) - Len(e) + i
      <4>1. durations[k] = log[totalCount - Len(durations) + k]
        BY <1>5, <3>2
      <4>2. totalCount - Len(durations) + k = totalCount - Len(e) + i
        BY <1>2, <1>4, <1>5, <2>3
      <4>3. QED
        BY <3>1, <4>1, <4>2
    <3>4. totalCount - Len(e) + i \in 1 .. totalCount
      <4>1. Len(e) <= totalCount /\ i \in Nat /\ 1 <= i /\ i <= Len(e)
        BY <1>2, <1>4, <1>5, <2>3, WindowAssumption
      <4>2. QED
        BY <1>2, <1>4, <4>1
    <3>5. totalCount' - Len(durations') + i = totalCount - Len(e) + i
      <4>1. totalCount' = totalCount + 1 /\ Len(durations') = Len(e) + 1 /\ i \in Nat
        BY <1>1, <1>2, <1>3, <2>3
      <4>2. \A a, b, c \in Nat : (a + 1) - (b + 1) + c = a - b + c
        OBVIOUS
      <4>3. Len(e) \in Nat /\ totalCount \in Nat
        BY <1>2, <1>4
      <4>4. QED
        BY <4>1, <4>2, <4>3
    <3>6. QED
      BY <1>4, <3>3, <3>4, <3>5
  <2>4. QED
    BY <2>1, <2>2, <2>3, <1>2
<1>9. QED
  BY <1>1, <1>4, <1>6, <1>7, <1>8 DEF Inv, WindowIsLatest

LEMMA InvCorrect == Spec => []Inv
<1>1. Init => Inv
  BY WindowAssumption, BoundAssumption
     DEF Init, Inv, TypeOK, WindowIsLatest, Time, NoTime
<1>2. Inv /\ [Next]_vars => Inv'
  <2> SUFFICES ASSUME Inv, [Next]_vars PROVE Inv'
    OBVIOUS
  <2>1. CASE Start
    BY <2>1 DEF Start, Inv, TypeOK, WindowIsLatest, Time
  <2>2. CASE End
    BY <2>2, EndKeeps
  <2>3. CASE Cancel
    BY <2>3 DEF Cancel, Inv, TypeOK, WindowIsLatest
  <2>4. CASE Reset
    <3>1. /\ durations' = <<>> /\ log' = <<>> /\ totalCount' = 0
          /\ UNCHANGED <<inFlightStartedAt, now>>
      BY <2>4 DEF Reset
    <3>2. TypeOK'
      BY <3>1, WindowAssumption, BoundAssumption DEF Inv, TypeOK
    <3>3. WindowIsLatest'
      BY <3>1, WindowAssumption DEF WindowIsLatest
    <3>4. QED
      BY <3>2, <3>3 DEF Inv
  <2>5. CASE Tick
    <3>1. /\ now' \in Time /\ now' = now + 1 /\ now \in Nat
          /\ UNCHANGED <<inFlightStartedAt, durations, totalCount, log>>
      BY <2>5, BoundAssumption DEF Tick, Inv, TypeOK, Time
    <3>2. inFlightStartedAt' \in {NoTime} \union 0 .. now'
      BY <3>1 DEF Inv, TypeOK
    <3>3. TypeOK'
      BY <3>1, <3>2 DEF Inv, TypeOK
    <3>4. WindowIsLatest'
      BY <3>1 DEF Inv, WindowIsLatest
    <3>5. QED
      BY <3>3, <3>4 DEF Inv
  <2>6. CASE UNCHANGED vars
    BY <2>6 DEF vars, Inv, TypeOK, WindowIsLatest
  <2>7. QED
    BY <2>1, <2>2, <2>3, <2>4, <2>5, <2>6 DEF Next
<1>3. QED
  BY <1>1, <1>2, PTL DEF Spec

-----------------------------------------------------------------------------
(***************************************************************************)
(* Order statistics of a window.                                           *)
(***************************************************************************)

Filled(s) == s \in Seq(Time) /\ s /= <<>>

LEMMA FilledIs ==
  ASSUME NEW s, Filled(s)
  PROVE  /\ Len(s) \in Nat \ {0} /\ DOMAIN s = 1 .. Len(s)
         /\ \A i \in 1 .. Len(s) : s[i] \in 0 .. MaxTime /\ s[i] \in Nat
         /\ Samples(s) /= {} /\ Samples(s) \in SUBSET (0 .. MaxTime)
         /\ Samples(s) \in SUBSET Nat
<1>1. Len(s) \in Nat \ {0} /\ DOMAIN s = 1 .. Len(s)
  BY DEF Filled
<1>2. \A i \in 1 .. Len(s) : s[i] \in 0 .. MaxTime
  <2>1. \A i \in 1 .. Len(s) : s[i] \in Time
    BY <1>1 DEF Filled
  <2>2. QED
    BY <2>1 DEF Time
<1>3. \A v \in 0 .. MaxTime : v \in Nat
  OBVIOUS
<1>4. s[1] \in Samples(s)
  BY <1>1 DEF Samples
<1>5. QED
  BY <1>1, <1>2, <1>3, <1>4 DEF Samples

\* How many samples lie below and above a value; fewer lie above a greater one.
LEMMA SidesCount ==
  ASSUME NEW s, Filled(s), NEW u \in Int, NEW v \in Int, u <= v
  PROVE  /\ Cardinality(Below(s, u)) \in 0 .. Len(s)
         /\ Cardinality(Above(s, u)) \in 0 .. Len(s)
         /\ Cardinality(Below(s, u)) <= Cardinality(Below(s, v))
         /\ Cardinality(Above(s, v)) <= Cardinality(Above(s, u))
<1>1. Len(s) \in Nat /\ DOMAIN s = 1 .. Len(s) /\ \A i \in DOMAIN s : s[i] \in Int
  BY FilledIs
<1>2. IsFiniteSet(DOMAIN s) /\ Cardinality(DOMAIN s) = Len(s)
  BY <1>1, FS_Interval
<1>3. \A w \in Int : Below(s, w) \in SUBSET (DOMAIN s) /\ Above(s, w) \in SUBSET (DOMAIN s)
  BY DEF Below, Above
<1>4. ASSUME NEW T \in SUBSET (DOMAIN s)
      PROVE  IsFiniteSet(T) /\ Cardinality(T) \in 0 .. Len(s)
  BY <1>1, <1>2, FS_Subset, FS_CardinalityType
<1>5. Below(s, u) \in SUBSET Below(s, v)
  BY <1>1 DEF Below
<1>6. Above(s, v) \in SUBSET Above(s, u)
  BY <1>1 DEF Above
<1>7. Cardinality(Below(s, u)) <= Cardinality(Below(s, v))
  BY <1>3, <1>4, <1>5, FS_Subset
<1>8. Cardinality(Above(s, v)) <= Cardinality(Above(s, u))
  BY <1>3, <1>4, <1>6, FS_Subset
<1>9. QED
  BY <1>3, <1>4, <1>7, <1>8

LEMMA MinIs ==
  ASSUME NEW S \in SUBSET Nat, S /= {}
  PROVE  Min(S) \in S /\ \A v \in S : Min(S) <= v
<1>1. \E m \in S : \A v \in S : m <= v
  BY Least
<1>2. QED
  BY <1>1 DEF Min

LEMMA MaxIs ==
  ASSUME NEW b \in Nat, NEW S \in SUBSET (0 .. b), S /= {}
  PROVE  Max(S) \in S /\ \A v \in S : v <= Max(S)
<1>1. \E m \in S : \A v \in S : v <= m
  BY Greatest
<1>2. \E m \in S : \A v \in S : m >= v
  <2>1. PICK m \in S : \A v \in S : v <= m
    BY <1>1
  <2>2. \A v \in S : v \in Int /\ m \in Int
    OBVIOUS
  <2>3. \A v \in S : m >= v
    BY <2>1, <2>2
  <2>4. QED
    BY <2>3
<1>3. Max(S) \in S /\ \A v \in S : Max(S) >= v
  BY <1>2 DEF Max
<1>4. \A v \in S : v \in Int
  OBVIOUS
<1>5. QED
  BY <1>3, <1>4

\* The candidates for the k-th place.
UpFrom(s, k) == {v \in Samples(s) : Len(s) - Cardinality(Above(s, v)) > k}

\* sorted[k] is a sample with at most k samples below it and Len(s) - 1 - k above.
LEMMA SortedIs ==
  ASSUME NEW s, Filled(s), NEW k \in 0 .. Len(s) - 1
  PROVE  /\ Sorted(s, k) \in Samples(s) /\ Sorted(s, k) \in Nat
         /\ \A u \in UpFrom(s, k) : Sorted(s, k) <= u
         /\ Sorted(s, k) \in UpFrom(s, k)
         /\ Cardinality(Below(s, Sorted(s, k))) <= k
         /\ Cardinality(Above(s, Sorted(s, k))) <= Len(s) - 1 - k
<1> DEFINE n == Len(s)
           v == Sorted(s, k)
<1>1. /\ n \in Nat \ {0} /\ DOMAIN s = 1 .. n
      /\ \A i \in 1 .. n : s[i] \in 0 .. MaxTime /\ s[i] \in Nat
      /\ Samples(s) /= {} /\ Samples(s) \in SUBSET (0 .. MaxTime)
      /\ Samples(s) \in SUBSET Nat
  BY FilledIs
<1>2. \A i \in DOMAIN s : s[i] \in Samples(s)
  BY DEF Samples
<1>3. \A w \in Samples(s) : /\ Cardinality(Below(s, w)) \in 0 .. n
                            /\ Cardinality(Above(s, w)) \in 0 .. n
  BY <1>1, SidesCount
<1> HIDE DEF n
<1>4. UpFrom(s, k) /= {}
  <2> DEFINE m == Max(Samples(s))
  <2>1. m \in Samples(s) /\ \A w \in Samples(s) : w <= m
    BY <1>1, BoundAssumption, MaxIs
  <2> HIDE DEF m
  <2>2. Above(s, m) = {}
    <3>1. \A i \in DOMAIN s : ~(s[i] > m)
      BY <1>1, <1>2, <2>1
    <3>2. QED
      BY <3>1 DEF Above
  <2>3. Cardinality(Above(s, m)) = 0
    BY <2>2, FS_EmptySet
  <2>4. n - 0 > k
    BY <1>1 DEF n
  <2>5. QED
    BY <2>1, <2>3, <2>4 DEF UpFrom, n
<1>5. UpFrom(s, k) \in SUBSET Nat
  BY <1>1 DEF UpFrom
<1>6. v \in UpFrom(s, k) /\ \A u \in UpFrom(s, k) : v <= u
  BY <1>4, <1>5, MinIs DEF Sorted, UpFrom
<1> HIDE DEF v
<1>7. /\ v \in Samples(s) /\ v \in Nat
      /\ n - Cardinality(Above(s, v)) > k
  BY <1>1, <1>6 DEF UpFrom, n
<1>8. Cardinality(Above(s, v)) <= n - 1 - k
  BY <1>1, <1>3, <1>7 DEF n
<1>9. Cardinality(Below(s, v)) <= k
  <2>1. CASE Below(s, v) = {}
    BY <1>1, <2>1, FS_EmptySet DEF n
  <2>2. CASE Below(s, v) /= {}
    <3> DEFINE L == {w \in Samples(s) : w < v}
               u == Max(L)
    <3>1. L /= {} /\ L \in SUBSET (0 .. MaxTime)
      BY <1>1, <1>2, <2>2 DEF Below
    <3>2. u \in L /\ \A w \in L : w <= u
      BY <3>1, BoundAssumption, MaxIs
    <3> HIDE DEF u
    <3>3. u \in Samples(s) /\ u < v /\ u \in Nat
      BY <1>1, <3>2
    <3>4. u \notin UpFrom(s, k)
      BY <1>6, <1>7, <3>3
    <3>5. n - Cardinality(Above(s, u)) <= k
      BY <1>1, <1>3, <3>3, <3>4 DEF UpFrom, n
    <3>6. Below(s, v) = DOMAIN s \ Above(s, u)
      <4>1. ASSUME NEW i \in DOMAIN s PROVE s[i] < v <=> ~(s[i] > u)
        <5>1. s[i] \in Nat /\ s[i] \in Samples(s)
          BY <1>1, <1>2
        <5>2. s[i] < v => s[i] <= u
          BY <3>2, <5>1
        <5>3. QED
          BY <1>7, <3>3, <5>1, <5>2
      <4>2. QED
        BY <4>1 DEF Below, Above
    <3>7. /\ IsFiniteSet(DOMAIN s) /\ Cardinality(DOMAIN s) = n
          /\ DOMAIN s \intersect Above(s, u) = Above(s, u)
      BY <1>1, FS_Interval DEF Above
    <3>8. Cardinality(Below(s, v)) = n - Cardinality(Above(s, u))
      BY <3>6, <3>7, FS_Difference
    <3>9. QED
      BY <3>5, <3>8
  <2>3. QED
    BY <2>1, <2>2
<1>10. QED
  BY <1>6, <1>7, <1>8, <1>9 DEF v, n

\* The places of the sorted window are in order, from the minimum to the maximum.
LEMMA SortedRises ==
  ASSUME NEW s, Filled(s), NEW j \in 0 .. Len(s) - 1, NEW k \in 0 .. Len(s) - 1, j <= k
  PROVE  Sorted(s, j) <= Sorted(s, k)
<1>1. Len(s) \in Nat
  BY FilledIs
<1>2. ASSUME NEW v \in UpFrom(s, k) PROVE v \in UpFrom(s, j)
  <2>1. v \in Samples(s) /\ v \in Nat
    BY FilledIs, <1>2 DEF UpFrom
  <2>2. Cardinality(Above(s, v)) \in 0 .. Len(s)
    BY <2>1, SidesCount
  <2>3. QED
    BY <1>1, <1>2, <2>2 DEF UpFrom
<1>3. Sorted(s, k) \in UpFrom(s, j)
  BY <1>2, SortedIs
<1>4. QED
  BY <1>3, SortedIs

LEMMA ExtremesAre ==
  ASSUME NEW s, Filled(s)
  PROVE  /\ Sorted(s, 0) = Min(Samples(s)) /\ Sorted(s, Len(s) - 1) = Max(Samples(s))
         /\ \A v \in Samples(s) : Sorted(s, 0) <= v /\ v <= Sorted(s, Len(s) - 1)
<1> DEFINE n == Len(s)
<1>1. /\ n \in Nat \ {0} /\ DOMAIN s = 1 .. n
      /\ Samples(s) /= {} /\ Samples(s) \in SUBSET (0 .. MaxTime)
      /\ Samples(s) \in SUBSET Nat
  BY FilledIs
<1>2. 0 \in 0 .. n - 1 /\ n - 1 \in 0 .. n - 1 /\ n - 1 - 0 = n - 1
      /\ n - 1 - (n - 1) = 0
  BY <1>1
<1>3. ASSUME NEW S \in SUBSET (DOMAIN s)
      PROVE  IsFiniteSet(S) /\ Cardinality(S) \in Nat
  <2>1. IsFiniteSet(DOMAIN s)
    BY <1>1, FS_Interval
  <2>2. QED
    BY <2>1, FS_Subset, FS_CardinalityType
<1>4. \A v : Below(s, v) \in SUBSET (DOMAIN s) /\ Above(s, v) \in SUBSET (DOMAIN s)
  BY DEF Below, Above
<1>5. ASSUME NEW v \in Samples(s) PROVE Sorted(s, 0) <= v
  <2>1. PICK i \in DOMAIN s : v = s[i]
    BY DEF Samples
  <2>2. Sorted(s, 0) \in Nat /\ Cardinality(Below(s, Sorted(s, 0))) <= 0
    BY <1>2, SortedIs
  <2>3. Below(s, Sorted(s, 0)) = {}
    BY <1>3, <1>4, <2>2, FS_EmptySet
  <2>4. ~(v < Sorted(s, 0))
    BY <2>1, <2>3 DEF Below
  <2>5. QED
    BY <1>1, <2>2, <2>4
<1>6. ASSUME NEW v \in Samples(s) PROVE v <= Sorted(s, n - 1)
  <2>1. PICK i \in DOMAIN s : v = s[i]
    BY DEF Samples
  <2>2. Sorted(s, n - 1) \in Nat /\ Cardinality(Above(s, Sorted(s, n - 1))) <= 0
    BY <1>2, SortedIs
  <2>3. Above(s, Sorted(s, n - 1)) = {}
    BY <1>3, <1>4, <2>2, FS_EmptySet
  <2>4. ~(v > Sorted(s, n - 1))
    BY <2>1, <2>3 DEF Above
  <2>5. QED
    BY <1>1, <2>2, <2>4
<1>7. Sorted(s, 0) \in Samples(s) /\ Sorted(s, n - 1) \in Samples(s)
  BY <1>2, SortedIs
<1>8. Min(Samples(s)) \in Samples(s) /\ \A v \in Samples(s) : Min(Samples(s)) <= v
  BY <1>1, MinIs
<1>9. Max(Samples(s)) \in Samples(s) /\ \A v \in Samples(s) : v <= Max(Samples(s))
  BY <1>1, BoundAssumption, MaxIs
<1> DEFINE a == Sorted(s, 0)
           b == Sorted(s, n - 1)
           c == Min(Samples(s))
           d == Max(Samples(s))
<1>10. a \in Nat /\ b \in Nat /\ c \in Nat /\ d \in Nat
  BY <1>1, <1>7, <1>8, <1>9
<1>11. a <= c /\ c <= a /\ b <= d /\ d <= b
  BY <1>5, <1>6, <1>7, <1>8, <1>9
<1> HIDE DEF a, b, c, d
<1>12. a = c /\ b = d
  BY <1>10, <1>11
<1>13. QED
  BY <1>5, <1>6, <1>12 DEF a, b, c, d, n

-----------------------------------------------------------------------------
(***************************************************************************)
(* The mean and the percentiles.                                           *)
(***************************************************************************)

\* The partial sums of the first m samples, as the loop of Stats forms them.
Sums(s, m, f) == f = [n \in 0 .. m |-> IF n = 0 THEN 0 ELSE f[n - 1] + s[n]]

\* They exist, by induction on m ...
LEMMA SumsExist ==
  ASSUME NEW s, Filled(s)
  PROVE  \E f : Sums(s, Len(s), f)
<1> DEFINE bad == {m \in 0 .. Len(s) : ~\E f : Sums(s, m, f)}
<1>1. Len(s) \in Nat
  BY FilledIs
<1>2. SUFFICES ASSUME bad /= {} PROVE FALSE
  BY <1>1
<1>3. bad \in SUBSET Nat
  OBVIOUS
<1>4. PICK m \in bad : \A k \in bad : m <= k
  BY <1>2, <1>3, Least
<1>5. m \in 0 .. Len(s) /\ ~\E f : Sums(s, m, f)
  OBVIOUS
<1>6. CASE m = 0
  <2>1. Sums(s, 0, [n \in 0 .. 0 |-> 0])
    BY DEF Sums
  <2>2. QED
    BY <1>5, <1>6, <2>1
<1>7. CASE m /= 0
  <2>1. m - 1 \in 0 .. Len(s) /\ ~(m <= m - 1) /\ m \in Nat
    BY <1>1, <1>5, <1>7
  <2>2. m - 1 \notin bad
    BY <1>4, <2>1
  <2>3. PICK f : Sums(s, m - 1, f)
    BY <2>1, <2>2
  <2> DEFINE g == [n \in 0 .. m |-> IF n = m THEN f[m - 1] + s[m] ELSE f[n]]
  <2>4. ASSUME NEW n \in 0 .. m
        PROVE  g[n] = IF n = 0 THEN 0 ELSE g[n - 1] + s[n]
    <3>1. CASE n = m
      <4>1. g[n - 1] = f[m - 1] /\ g[n] = f[m - 1] + s[m]
        BY <1>7, <2>1, <3>1
      <4>2. QED
        BY <1>7, <3>1, <4>1
    <3>2. CASE n /= m
      <4>1. n \in 0 .. m - 1 /\ (n /= 0 => n - 1 \in 0 .. m /\ n - 1 /= m)
        BY <2>1, <3>2
      <4>2. f[n] = IF n = 0 THEN 0 ELSE f[n - 1] + s[n]
        BY <2>3, <4>1 DEF Sums
      <4>3. g[n] = f[n] /\ (n /= 0 => g[n - 1] = f[n - 1])
        BY <3>2, <4>1
      <4>4. QED
        BY <4>2, <4>3
    <3>3. QED
      BY <3>1, <3>2
  <2>5. DOMAIN g = 0 .. m /\ g = [n \in DOMAIN g |-> g[n]]
    OBVIOUS
  <2> HIDE DEF g
  <2>6. g = [n \in 0 .. m |-> IF n = 0 THEN 0 ELSE g[n - 1] + s[n]]
    BY <2>4, <2>5
  <2>7. QED
    BY <1>5, <2>6 DEF Sums
<1>8. QED
  BY <1>6, <1>7

\* ... and n samples between a and b add up to something between n * a and n * b.
LEMMA TotalBetween ==
  ASSUME NEW s, Filled(s), NEW a \in Nat, NEW b \in Nat,
         \A v \in Samples(s) : a <= v /\ v <= b
  PROVE  Total(s) \in Int /\ Len(s) * a <= Total(s) /\ Total(s) <= Len(s) * b
<1> DEFINE l == Len(s)
           f == CHOOSE g : Sums(s, l, g)
           bad == {m \in 0 .. l : ~(f[m] \in Int /\ m * a <= f[m] /\ f[m] <= m * b)}
<1>1. l \in Nat /\ DOMAIN s = 1 .. l /\ \A i \in 1 .. l : s[i] \in Nat
  BY FilledIs
<1>2. Total(s) = f[l]
  BY DEF Total, Sums
<1>3. Sums(s, l, f)
  BY SumsExist
<1>4. \A i \in 1 .. l : a <= s[i] /\ s[i] <= b
  BY <1>1 DEF Samples
<1> HIDE DEF l, f
<1>5. ASSUME NEW m \in 0 .. l
      PROVE  f[m] = IF m = 0 THEN 0 ELSE f[m - 1] + s[m]
  <2> DEFINE h == [n \in 0 .. l |-> IF n = 0 THEN 0 ELSE f[n - 1] + s[n]]
  <2>1. f = h
    BY <1>3 DEF Sums
  <2>2. h[m] = IF m = 0 THEN 0 ELSE f[m - 1] + s[m]
    OBVIOUS
  <2> HIDE DEF h
  <2>3. QED
    BY <2>1, <2>2
<1>6. ASSUME bad /= {} PROVE FALSE
  <2>1. bad \in SUBSET Nat
    OBVIOUS
  <2>2. PICK m \in bad : \A k \in bad : m <= k
    BY <1>6, <2>1, Least
  <2>3. m \in 0 .. l /\ ~(f[m] \in Int /\ m * a <= f[m] /\ f[m] <= m * b)
    OBVIOUS
  <2>4. m /= 0
    <3>1. f[0] = 0 /\ 0 * a = 0 /\ 0 * b = 0
      BY <1>1, <1>5
    <3>2. QED
      BY <2>3, <3>1
  <2>5. m - 1 \in 0 .. l /\ ~(m <= m - 1) /\ m \in 1 .. l /\ m \in Nat
    BY <1>1, <2>3, <2>4
  <2>6. m - 1 \notin bad
    BY <2>2, <2>5
  <2>7. f[m - 1] \in Int /\ (m - 1) * a <= f[m - 1] /\ f[m - 1] <= (m - 1) * b
    BY <2>5, <2>6
  <2>8. f[m] = f[m - 1] + s[m] /\ s[m] \in Nat /\ a <= s[m] /\ s[m] <= b
    BY <1>1, <1>4, <1>5, <2>4, <2>5
  <2>9. /\ m * a = (m - 1) * a + a /\ m * b = (m - 1) * b + b
        /\ (m - 1) * a \in Int /\ (m - 1) * b \in Int
    BY <2>5
  <2>10. QED
    BY <2>3, <2>7, <2>8, <2>9
<1>7. l \notin bad /\ l \in 0 .. l
  BY <1>1, <1>6
<1>8. QED
  BY <1>2, <1>7 DEF l

LEMMA MeanBetween ==
  ASSUME NEW s, Filled(s), NEW a \in Nat, NEW b \in Nat,
         \A v \in Samples(s) : a <= v /\ v <= b
  PROVE  Mean(s) \in Int /\ a <= Mean(s) /\ Mean(s) <= b
<1> DEFINE n == Len(s)
           t == Total(s)
           q == t \div n
<1>1. n \in Nat \ {0}
  BY FilledIs
<1>2. t \in Int /\ n * a <= t /\ t <= n * b
  BY TotalBetween
<1>3. Mean(s) = q
  BY DEF Mean
<1> HIDE DEF n, t
<1>4. q \in Int /\ n * q <= t /\ t < n * q + n
  BY <1>1, <1>2
<1> HIDE DEF q
<1>5. a <= q
  <2>1. SUFFICES ASSUME q + 1 <= a PROVE FALSE
    BY <1>4
  <2>2. n * (q + 1) <= n * a /\ n * (q + 1) = n * q + n
    BY <1>1, <1>4, <2>1
  <2>3. QED
    BY <1>1, <1>2, <1>4, <2>2
<1>6. q <= b
  <2>1. SUFFICES ASSUME b + 1 <= q PROVE FALSE
    BY <1>4
  <2>2. n * (b + 1) <= n * q /\ n * (b + 1) = n * b + n
    BY <1>1, <1>4, <2>1
  <2>3. QED
    BY <1>1, <1>2, <1>4, <2>2
<1>7. QED
  BY <1>3, <1>4, <1>5, <1>6

\* The place of a percentile in the sorted window, and the rest of the division.
Lo(n, p) == (p * (n - 1)) \div 100
Rest(n, p) == (p * (n - 1)) % 100

LEMMA PlaceIs ==
  ASSUME NEW n \in Nat \ {0}, NEW p \in 0 .. 100
  PROVE  /\ Lo(n, p) \in 0 .. n - 1 /\ Rest(n, p) \in 0 .. 99
         /\ p * (n - 1) = 100 * Lo(n, p) + Rest(n, p)
         /\ Lo(n, p) = n - 1 => Rest(n, p) = 0
         /\ (p * (n - 1) + 99) \div 100 = Lo(n, p) + IF Rest(n, p) = 0 THEN 0 ELSE 1
         /\ ((100 - p) * (n - 1) + 99) \div 100 = n - 1 - Lo(n, p)
<1> DEFINE m == n - 1
           i == p * m
           l == Lo(n, p)
           r == Rest(n, p)
<1>1. m \in Nat /\ p \in Nat /\ 100 - p \in Nat
  OBVIOUS
<1>2. i \in Nat /\ (100 - p) * m \in Nat /\ (100 - p) * m = 100 * m - i
  BY <1>1
<1>3. l = i \div 100 /\ r = i % 100
  BY DEF Lo, Rest
<1> HIDE DEF m, i, l, r
<1>4. l \in Nat /\ r \in 0 .. 99 /\ i = 100 * l + r
  BY <1>2, <1>3
<1>5. i <= 100 * m
  BY <1>1, <1>2
<1>6. l <= m /\ (l = m => r = 0)
  BY <1>1, <1>4, <1>5
<1>7. (i + 99) \div 100 = l + IF r = 0 THEN 0 ELSE 1
  BY <1>4
<1>8. (100 * m - i + 99) \div 100 = m - l
  BY <1>1, <1>4, <1>6
<1>9. QED
  BY <1>2, <1>4, <1>6, <1>7, <1>8 DEF m, i, l, r

\* Linear interpolation, to the nearest integer.
Mix(a, b, r) == a + (r * (b - a) + 50) \div 100

LEMMA MixIs ==
  ASSUME NEW a \in Nat, NEW b \in Nat, a <= b, NEW r \in 0 .. 99
  PROVE  /\ Mix(a, b, r) \in Nat /\ a <= Mix(a, b, r) /\ Mix(a, b, r) <= b
         /\ \A q \in 0 .. r : Mix(a, b, q) <= Mix(a, b, r)
<1> DEFINE d == b - a
<1>1. d \in Nat
  OBVIOUS
<1>2. ASSUME NEW q \in 0 .. r
      PROVE  q * d \in Nat /\ r * d \in Nat /\ q * d <= r * d /\ r * d <= 99 * d
  BY <1>1
<1>3. Mix(a, b, r) = a + (r * d + 50) \div 100
      /\ \A q \in 0 .. r : Mix(a, b, q) = a + (q * d + 50) \div 100
  BY DEF Mix
<1> HIDE DEF d
<1>4. r \in 0 .. r
  OBVIOUS
<1>5. (r * d + 50) \div 100 \in 0 .. d
  <2> DEFINE x == r * d
  <2>1. x \in Nat /\ x <= 99 * d
    BY <1>2, <1>4
  <2> HIDE DEF x
  <2>2. (x + 50) \div 100 \in 0 .. d
    BY <1>1, <2>1
  <2>3. QED
    BY <2>2 DEF x
<1>6. ASSUME NEW q \in 0 .. r PROVE (q * d + 50) \div 100 <= (r * d + 50) \div 100
                                    /\ (q * d + 50) \div 100 \in Int
  <2> DEFINE x == r * d
             y == q * d
  <2>1. x \in Nat /\ y \in Nat /\ y <= x
    BY <1>2
  <2> HIDE DEF x, y
  <2>2. (y + 50) \div 100 <= (x + 50) \div 100 /\ (y + 50) \div 100 \in Int
    BY <2>1
  <2>3. QED
    BY <2>2 DEF x, y
<1>7. a + d = b
  BY DEF d
<1>8. \A q \in 0 .. r : Mix(a, b, q) <= Mix(a, b, r)
  BY <1>3, <1>5, <1>6
<1>9. Mix(a, b, r) \in Nat /\ a <= Mix(a, b, r) /\ Mix(a, b, r) <= b
  BY <1>1, <1>3, <1>5, <1>7
<1>10. QED
  BY <1>8, <1>9

\* A percentile is the sample at its place, or lies between that and the next.
LEMMA PercentileIs ==
  ASSUME NEW s, Filled(s), NEW p \in 0 .. 100
  PROVE  LET n == Len(s)
             l == Lo(n, p)
             v == Percentile(s, p)
         IN  /\ v \in Nat /\ Sorted(s, l) <= v
             /\ Rest(n, p) = 0 => v = Sorted(s, l)
             /\ l < n - 1 => /\ v = Mix(Sorted(s, l), Sorted(s, l + 1), Rest(n, p))
                             /\ v <= Sorted(s, l + 1)
<1> DEFINE n == Len(s)
           l == Lo(n, p)
           r == Rest(n, p)
           v == Percentile(s, p)
<1>1. n \in Nat \ {0}
  BY FilledIs
<1>2. l \in 0 .. n - 1 /\ r \in 0 .. 99 /\ (l = n - 1 => r = 0)
  BY <1>1, PlaceIs
<1>3. v = IF l >= n - 1 THEN Sorted(s, n - 1)
          ELSE Sorted(s, l) + (r * (Sorted(s, l + 1) - Sorted(s, l)) + 50) \div 100
  BY DEF Percentile, Lo, Rest
<1> HIDE DEF l, r, v
<1>4. CASE l = n - 1
  <2>1. v = Sorted(s, l) /\ ~(l < n - 1)
    BY <1>1, <1>2, <1>3, <1>4
  <2>2. Sorted(s, l) \in Nat
    BY <1>2, SortedIs
  <2>3. QED
    BY <2>1, <2>2 DEF l, r, v
<1>5. CASE l < n - 1
  <2>1. l + 1 \in 0 .. n - 1 /\ l <= l + 1 /\ ~(l >= n - 1)
    BY <1>1, <1>2, <1>5
  <2>2. Sorted(s, l) \in Nat /\ Sorted(s, l + 1) \in Nat /\ Sorted(s, l) <= Sorted(s, l + 1)
    BY <1>2, <2>1, SortedIs, SortedRises
  <2>3. v = Mix(Sorted(s, l), Sorted(s, l + 1), r)
    BY <1>3, <2>1 DEF Mix
  <2>4. v \in Nat /\ Sorted(s, l) <= v /\ v <= Sorted(s, l + 1)
    BY <1>2, <2>2, <2>3, MixIs
  <2>5. r = 0 => v = Sorted(s, l)
    <3>1. ASSUME NEW a \in Nat, NEW b \in Nat PROVE Mix(a, b, 0) = a
      <4>1. 0 * (b - a) = 0 /\ (0 + 50) \div 100 = 0
        OBVIOUS
      <4>2. QED
        BY <4>1 DEF Mix
    <3>2. QED
      BY <2>2, <2>3, <3>1
  <2>6. QED
    BY <2>3, <2>4, <2>5 DEF l, r, v
<1>6. QED
  BY <1>1, <1>2, <1>4, <1>5

\* It leaves its share of the samples on either side, rounded up.
LEMMA PercentileSplits ==
  ASSUME NEW s, Filled(s), NEW p \in 0 .. 100
  PROVE  LET n == Len(s)
             v == Percentile(s, p)
         IN  /\ v \in Nat /\ Sorted(s, 0) <= v /\ v <= Sorted(s, n - 1)
             /\ Cardinality(Below(s, v)) <= (p * (n - 1) + 99) \div 100
             /\ Cardinality(Above(s, v)) <= ((100 - p) * (n - 1) + 99) \div 100
<1> DEFINE n == Len(s)
           l == Lo(n, p)
           r == Rest(n, p)
           v == Percentile(s, p)
           a == Sorted(s, l)
<1>1. n \in Nat \ {0}
  BY FilledIs
<1>2. /\ l \in 0 .. n - 1 /\ r \in 0 .. 99
      /\ l = n - 1 => r = 0
      /\ (p * (n - 1) + 99) \div 100 = l + IF r = 0 THEN 0 ELSE 1
      /\ ((100 - p) * (n - 1) + 99) \div 100 = n - 1 - l
  BY <1>1, PlaceIs
<1>3. /\ v \in Nat /\ a <= v
      /\ r = 0 => v = a
      /\ l < n - 1 => v <= Sorted(s, l + 1)
  BY PercentileIs
<1> HIDE DEF l, r, v
<1>4. /\ a \in Nat
      /\ Cardinality(Below(s, a)) <= l
      /\ Cardinality(Above(s, a)) <= n - 1 - l
  BY <1>2, SortedIs
<1>5. 0 \in 0 .. n - 1 /\ n - 1 \in 0 .. n - 1 /\ 0 <= l /\ l <= n - 1
  BY <1>1, <1>2
<1>6. Sorted(s, 0) <= a /\ a <= Sorted(s, n - 1)
  BY <1>2, <1>5, SortedRises
<1>7. Sorted(s, 0) \in Nat /\ Sorted(s, n - 1) \in Nat
  BY <1>5, SortedIs
<1> HIDE DEF a
<1>8. Cardinality(Above(s, v)) <= n - 1 - l
  <2>1. /\ Cardinality(Above(s, v)) <= Cardinality(Above(s, a))
        /\ Cardinality(Above(s, a)) \in Int
    BY <1>3, <1>4, SidesCount
  <2>2. Cardinality(Above(s, v)) \in Int
    BY <1>3, SidesCount
  <2>3. QED
    BY <1>1, <1>2, <1>4, <2>1, <2>2
<1>9. CASE r = 0
  BY <1>2, <1>3, <1>4, <1>6, <1>7, <1>8, <1>9 DEF v, n
<1>10. CASE r /= 0
  <2> DEFINE b == Sorted(s, l + 1)
  <2>1. l < n - 1 /\ l + 1 \in 0 .. n - 1 /\ l + 1 <= n - 1
    BY <1>1, <1>2, <1>10
  <2>2. b \in Nat /\ Cardinality(Below(s, b)) <= l + 1 /\ b <= Sorted(s, n - 1)
    BY <1>5, <2>1, SortedIs, SortedRises
  <2> HIDE DEF b
  <2>3. v <= b
    BY <1>3, <2>1 DEF b
  <2>4. /\ Cardinality(Below(s, v)) <= Cardinality(Below(s, b))
        /\ Cardinality(Below(s, v)) \in Int /\ Cardinality(Below(s, b)) \in Int
    <3>1. Cardinality(Below(s, b)) \in Int
      BY <2>2, SidesCount
    <3>2. QED
      BY <1>3, <2>2, <2>3, <3>1, SidesCount
  <2>5. Cardinality(Below(s, v)) <= l + 1
    BY <1>2, <2>2, <2>4
  <2>6. v <= Sorted(s, n - 1) /\ Sorted(s, 0) <= v
    BY <1>3, <1>4, <1>6, <1>7, <2>2, <2>3
  <2>7. QED
    BY <1>2, <1>3, <1>8, <1>10, <2>5, <2>6 DEF v, n
<1>11. QED
  BY <1>9, <1>10

\* A higher percentile is no lower.
LEMMA PercentilesRise ==
  ASSUME NEW s, Filled(s), NEW p \in 0 .. 100, NEW q \in 0 .. 100, p <= q
  PROVE  Percentile(s, p) <= Percentile(s, q)
<1> DEFINE n == Len(s)
           l == Lo(n, p)
           k == Lo(n, q)
           r == Rest(n, p)
           z == Rest(n, q)
           v == Percentile(s, p)
           w == Percentile(s, q)
<1>1. n \in Nat \ {0}
  BY FilledIs
<1>2. /\ l \in 0 .. n - 1 /\ r \in 0 .. 99 /\ p * (n - 1) = 100 * l + r
      /\ l = n - 1 => r = 0
  BY <1>1, PlaceIs
<1>3. /\ k \in 0 .. n - 1 /\ z \in 0 .. 99 /\ q * (n - 1) = 100 * k + z
      /\ k = n - 1 => z = 0
  BY <1>1, PlaceIs
<1>4. 100 * l + r <= 100 * k + z
  <2>1. p * (n - 1) <= q * (n - 1)
    BY <1>1
  <2>2. QED
    BY <1>2, <1>3, <2>1
<1>5. /\ v \in Nat /\ Sorted(s, l) <= v
      /\ l < n - 1 => /\ v = Mix(Sorted(s, l), Sorted(s, l + 1), r)
                      /\ v <= Sorted(s, l + 1)
      /\ r = 0 => v = Sorted(s, l)
  BY PercentileIs
<1>6. /\ w \in Nat /\ Sorted(s, k) <= w
      /\ k < n - 1 => w = Mix(Sorted(s, k), Sorted(s, k + 1), z)
  BY PercentileIs
<1> HIDE DEF l, k, r, z, v, w
<1>7. l <= k /\ (l = k => r <= z)
  <2>1. l \in Nat /\ k \in Nat /\ r \in 0 .. 99 /\ z \in 0 .. 99
    BY <1>1, <1>2, <1>3
  <2>2. QED
    BY <1>4, <2>1
<1>8. CASE l = k
  <2>1. CASE l = n - 1
    BY <1>2, <1>5, <1>6, <1>8, <2>1 DEF v, w
  <2>2. CASE l < n - 1
    <3>1. l + 1 \in 0 .. n - 1 /\ l <= l + 1
      BY <1>1, <1>2, <2>2
    <3>2. /\ Sorted(s, l) \in Nat /\ Sorted(s, l + 1) \in Nat
          /\ Sorted(s, l) <= Sorted(s, l + 1)
      BY <1>2, <3>1, SortedIs, SortedRises
    <3>3. r \in 0 .. z
      BY <1>2, <1>3, <1>7, <1>8
    <3>4. Mix(Sorted(s, l), Sorted(s, l + 1), r)
            <= Mix(Sorted(s, l), Sorted(s, l + 1), z)
      BY <1>3, <3>2, <3>3, MixIs
    <3>5. QED
      BY <1>5, <1>6, <1>8, <2>2, <3>4 DEF v, w
  <2>3. QED
    BY <1>1, <1>2, <2>1, <2>2
<1>9. CASE l < k
  <2>1. l < n - 1 /\ l + 1 \in 0 .. n - 1 /\ l + 1 <= k
    BY <1>1, <1>2, <1>3, <1>9
  <2>2. Sorted(s, l + 1) <= Sorted(s, k) /\ Sorted(s, l + 1) \in Nat /\ Sorted(s, k) \in Nat
    BY <1>3, <2>1, SortedIs, SortedRises
  <2>3. v <= w
    BY <1>5, <1>6, <2>1, <2>2
  <2>4. QED
    BY <2>3 DEF v, w
<1>10. QED
  BY <1>2, <1>3, <1>7, <1>8, <1>9

\* The window is the tail of the log.
LEMMA WindowIsTail ==
  ASSUME Inv, totalCount > 0
  PROVE  LET first == IF totalCount > Window THEN totalCount - Window + 1 ELSE 1
         IN  /\ Filled(durations)
             /\ SubSeq(log, first, totalCount) = durations
             /\ durations[Len(durations)] = log[totalCount]
<1> DEFINE n == Len(durations)
           first == IF totalCount > Window THEN totalCount - Window + 1 ELSE 1
           recent == SubSeq(log, first, totalCount)
<1>1. /\ durations \in Seq(Time) /\ log \in Seq(Time) /\ totalCount \in Nat
      /\ totalCount = Len(log) /\ Window \in Nat \ {0}
      /\ n = IF totalCount < Window THEN totalCount ELSE Window
      /\ \A i \in 1 .. n : durations[i] = log[totalCount - n + i]
  <2>1. durations \in Seq(Time) /\ log \in Seq(Time) /\ totalCount \in 0 .. MaxCycles
    BY DEF Inv, TypeOK
  <2>2. DOMAIN durations = 1 .. n
    BY <2>1
  <2>3. totalCount \in Nat
    BY <2>1, BoundAssumption
  <2>4. /\ totalCount = Len(log)
        /\ n = IF totalCount < Window THEN totalCount ELSE Window
        /\ \A i \in DOMAIN durations : durations[i] = log[totalCount - n + i]
    BY DEF Inv, WindowIsLatest
  <2> HIDE DEF n
  <2>5. QED
    BY <2>1, <2>2, <2>3, <2>4, WindowAssumption
<1> HIDE DEF n, recent
<1>2. /\ first \in 1 .. totalCount /\ n \in Nat \ {0}
      /\ totalCount - first + 1 = n /\ totalCount - n = first - 1
  <2>1. CASE totalCount > Window
    <3>1. first = totalCount - Window + 1 /\ n = Window
      BY <1>1, <2>1
    <3> HIDE DEF first
    <3>2. totalCount \in Nat /\ Window \in Nat \ {0}
      BY <1>1
    <3>3. QED
      BY <2>1, <3>1, <3>2
  <2>2. CASE ~(totalCount > Window)
    <3>1. first = 1 /\ n = totalCount
      BY <1>1, <2>2
    <3> HIDE DEF first
    <3>2. totalCount \in Nat \ {0}
      BY <1>1
    <3>3. QED
      BY <3>1, <3>2
  <2>3. QED
    BY <2>1, <2>2
<1> HIDE DEF first
<1>3. \A i \in first .. totalCount : log[i] \in Time
  BY <1>1, <1>2
<1> USE DEF recent
<1>4. /\ recent \in Seq(Time) /\ Len(recent) = n
      /\ \A i \in 1 .. n : recent[i] = log[first + i - 1]
  <2>1. /\ recent \in Seq(Time)
        /\ Len(recent) = IF first <= totalCount THEN totalCount - first + 1 ELSE 0
        /\ \A i \in 1 .. totalCount - first + 1 : recent[i] = log[first + i - 1]
    BY <1>1, <1>2, <1>3, SubSeqProperties
  <2>2. first <= totalCount
    BY <1>1, <1>2
  <2>3. QED
    BY <1>2, <2>1, <2>2
<1> HIDE DEF recent
<1>5. \A i \in 1 .. n : recent[i] = durations[i]
  <2>1. n \in Int /\ totalCount \in Int /\ first \in Int /\ totalCount - n = first - 1
    BY <1>1, <1>2
  <2>2. \A i \in 1 .. n : first + i - 1 = totalCount - n + i
    BY <2>1
  <2>3. QED
    BY <1>1, <1>4, <2>2
<1>6. recent = durations
  BY <1>1, <1>4, <1>5, SeqEqual DEF n
<1>7. Filled(durations)
  BY <1>1, <1>2 DEF n, Filled
<1>8. durations[n] = log[totalCount]
  <2>1. n \in 1 .. n /\ totalCount - n + n = totalCount
    BY <1>1, <1>2
  <2>2. QED
    BY <1>1, <2>1
<1>9. QED
  BY <1>6, <1>7, <1>8 DEF n, recent, first

\* What the statistics of a window promise.
LEMMA WindowDescribed ==
  ASSUME NEW s, Filled(s)
  PROVE  LET st == Stats(s)
             Share(p) == (p * (Len(s) - 1) + 99) \div 100
             Splits(p, v) == /\ Cardinality(Below(s, v)) <= Share(p)
                             /\ Cardinality(Above(s, v)) <= Share(100 - p)
         IN  /\ st.min = Min(Samples(s)) /\ st.max = Max(Samples(s))
             /\ \A v \in {st.last, st.mean, st.p50, st.p95} : st.min <= v /\ v <= st.max
             /\ st.p50 <= st.p95
             /\ Splits(50, st.p50) /\ Splits(95, st.p95)
<1> DEFINE n == Len(s)
           a == Sorted(s, 0)
           b == Sorted(s, n - 1)
           x == Percentile(s, 50)
           y == Percentile(s, 95)
<1>1. n \in Nat \ {0} /\ DOMAIN s = 1 .. n
  BY FilledIs
<1>2. /\ a = Min(Samples(s)) /\ b = Max(Samples(s))
      /\ \A v \in Samples(s) : a <= v /\ v <= b
  BY ExtremesAre
<1>3. a \in Nat /\ b \in Nat
  <2>1. 0 \in 0 .. n - 1 /\ n - 1 \in 0 .. n - 1
    BY <1>1
  <2>2. QED
    BY <2>1, SortedIs
<1>4. a <= s[n] /\ s[n] <= b
  <2>1. s[n] \in Samples(s)
    BY <1>1 DEF Samples
  <2>2. QED
    BY <1>2, <2>1
<1>5. a <= Mean(s) /\ Mean(s) <= b
  BY <1>2, <1>3, MeanBetween
<1>6. /\ a <= x /\ x <= b
      /\ Cardinality(Below(s, x)) <= (50 * (n - 1) + 99) \div 100
      /\ Cardinality(Above(s, x)) <= ((100 - 50) * (n - 1) + 99) \div 100
  BY PercentileSplits
<1>7. /\ a <= y /\ y <= b
      /\ Cardinality(Below(s, y)) <= (95 * (n - 1) + 99) \div 100
      /\ Cardinality(Above(s, y)) <= ((100 - 95) * (n - 1) + 99) \div 100
  BY PercentileSplits
<1>8. x <= y
  BY PercentilesRise
<1> HIDE DEF a, b, x, y
<1>9. /\ Stats(s).last = s[n] /\ Stats(s).min = a /\ Stats(s).max = b
      /\ Stats(s).mean = Mean(s) /\ Stats(s).p50 = x /\ Stats(s).p95 = y
  BY DEF Stats, a, b, x, y
<1>10. QED
  BY <1>2, <1>4, <1>5, <1>6, <1>7, <1>8, <1>9

\* The tracker's variables keep their types, and the window its size.
THEOREM TrackerTyped == Spec => []TypeOK
<1>1. Inv => TypeOK
  BY DEF Inv
<1>2. QED
  BY <1>1, InvCorrect, PTL

\* Whatever is started, ended, cancelled and reset in between, the window is
\* the latest cycles recorded since the last reset (cycle.go:46-54, 89-103).
THEOREM WindowRolls == Spec => []WindowIsLatest
<1>1. Inv => WindowIsLatest
  BY DEF Inv
<1>2. QED
  BY <1>1, InvCorrect, PTL

\* Whatever is started, ended, cancelled and reset in between, the statistics
\* describe the latest cycles: the extremes are theirs, the mean and the
\* percentiles lie between them, the median no higher than the 95th, and each
\* percentile has its share of them on either side (cycle.go:190-207, 218-244).
THEOREM StatsAreFaithful == Spec => []StatsDescribe
<1>1. ASSUME Inv PROVE StatsDescribe
  <2>1. CASE totalCount > 0
    <3> DEFINE first == IF totalCount > Window THEN totalCount - Window + 1 ELSE 1
    <3>1. /\ Filled(durations) /\ SubSeq(log, first, totalCount) = durations
          /\ durations[Len(durations)] = log[totalCount]
      BY <1>1, <2>1, WindowIsTail
    <3> HIDE DEF first
    <3> DEFINE recent == SubSeq(log, first, totalCount)
               st == Stats(durations)
               Share(p) == (p * (Len(recent) - 1) + 99) \div 100
               Splits(p, v) == /\ Cardinality(Below(recent, v)) <= Share(p)
                               /\ Cardinality(Above(recent, v)) <= Share(100 - p)
    <3>2. recent = durations
      BY <3>1
    <3> HIDE DEF recent
    <3>3. st.last = log[totalCount]
      BY <3>1 DEF Stats
    <3>4. /\ st.min = Min(Samples(recent)) /\ st.max = Max(Samples(recent))
          /\ \A v \in {st.last, st.mean, st.p50, st.p95} : st.min <= v /\ v <= st.max
          /\ st.p50 <= st.p95
          /\ Splits(50, st.p50) /\ Splits(95, st.p95)
      BY <3>1, <3>2, WindowDescribed
    <3>5. QED
      BY <3>3, <3>4, Zenon DEF StatsDescribe, first, recent
  <2>2. CASE ~(totalCount > 0)
    BY <2>2 DEF StatsDescribe
  <2>3. QED
    BY <2>1, <2>2
<1>2. QED
  BY <1>1, InvCorrect, PTL
=============================================================================
