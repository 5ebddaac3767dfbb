--------------------------- MODULE PlanningProofs ---------------------------
(***************************************************************************)
(* Proofs about Planning, for every set of configurations, every length of *)
(* a trajectory and whatever the motion service answers.                   *)
(*                                                                         *)
(* What a request in flight says of the start is what its caller asked     *)
(* for, in spite of what earlier requests left in a shared map: that is    *)
(* where the keys are merged.  For a preview, the rounded-up division is   *)
(* shown to be the finest stride that fits, by counting the steps a stride *)
(* apart.                                                                  *)
(***************************************************************************)
EXTENDS Planning, Counting, SequenceTheorems, TLAPS

\* What is in a map of the caller's: no timeout but one that was asked for, which
\* tells every request from NoRequest.
MapTyped(e) ==
  /\ DOMAIN e \subseteq {"start_state", "timeout"}
  /\ "timeout" \in DOMAIN e => e.timeout \in Timeout \ {0}
  /\ "start_state" \in DOMAIN e => e.start_state \in Config

\* The request in flight says what was asked for, or nothing about the start if
\* its map is its own and nothing was.
CarriesWhatWasAsked ==
  request /= NoRequest =>
    /\ MapTyped(request)
    /\ asked /= NoJoints =>
         "start_state" \in DOMAIN request /\ request.start_state = asked
    /\ asked = NoJoints /\ ~shares => "start_state" \notin DOMAIN request

PlanInv ==
  /\ joints \in Config /\ shares \in BOOLEAN
  /\ result.feasible \in BOOLEAN /\ result.trajectory \in Trajectory
  /\ MapTyped(extra)
  /\ ~shares => DOMAIN extra = {}
  /\ asked \in Config \union {NoJoints}
  /\ CarriesWhatWasAsked
  /\ StartsAsAsked

-----------------------------------------------------------------------------
(***************************************************************************)
(* The merge of a request's keys into Extra.                               *)
(***************************************************************************)

\* A map is not NoRequest.
LEMMA MapsAreRequests ==
  ASSUME NEW e, MapTyped(e)
  PROVE  e /= NoRequest
<1>1. "timeout" \in DOMAIN NoRequest /\ NoRequest.timeout = -1
  BY DEF NoRequest
<1>2. -1 \notin Timeout
  BY DEF Timeout
<1>3. QED
  BY <1>1, <1>2 DEF MapTyped

\* A timeout leaves the start state alone.
LEMMA WithTimeoutIs ==
  ASSUME NEW e, MapTyped(e), NEW t \in Timeout
  PROVE  /\ MapTyped(WithTimeout(e, t))
         /\ "start_state" \in DOMAIN WithTimeout(e, t) <=> "start_state" \in DOMAIN e
         /\ "start_state" \in DOMAIN e => WithTimeout(e, t).start_state = e.start_state
<1>1. CASE t > 0
  <2>1. WithTimeout(e, t) = Put(e, "timeout", t) /\ t \in Timeout \ {0}
    BY <1>1 DEF WithTimeout, Timeout
  <2>2. /\ DOMAIN Put(e, "timeout", t) = DOMAIN e \union {"timeout"}
        /\ Put(e, "timeout", t).timeout = t
        /\ "start_state" \in DOMAIN e =>
             Put(e, "timeout", t).start_state = e.start_state
    BY DEF Put
  <2>3. QED
    BY <2>1, <2>2 DEF MapTyped
<1>2. CASE ~(t > 0)
  BY <1>2 DEF WithTimeout
<1>3. QED
  BY <1>1, <1>2

\* The start joints, when there are any, are the start state; otherwise it is what
\* it was in the map.
LEMMA MarshalIs ==
  ASSUME MapTyped(extra), NEW start \in Config \union {NoJoints}, NEW t \in Timeout
  PROVE  LET e == MarshalPlanRequest(start, t) IN
           /\ MapTyped(e)
           /\ start /= NoJoints => "start_state" \in DOMAIN e /\ e.start_state = start
           /\ start = NoJoints =>
                ("start_state" \in DOMAIN e <=> "start_state" \in DOMAIN extra)
<1>1. CASE start = NoJoints
  <2>1. MarshalPlanRequest(start, t) = WithTimeout(extra, t)
    BY <1>1 DEF MarshalPlanRequest
  <2>2. QED
    BY <1>1, <2>1, WithTimeoutIs
<1>2. CASE start /= NoJoints
  <2> DEFINE s == Put(extra, "start_state", start)
  <2>1. /\ DOMAIN s = DOMAIN extra \union {"start_state"}
        /\ s.start_state = start
        /\ "timeout" \in DOMAIN extra => s.timeout = extra.timeout
    BY DEF Put
  <2>2. MarshalPlanRequest(start, t) = WithTimeout(s, t)
    BY <1>2 DEF MarshalPlanRequest
  <2> HIDE DEF s
  <2>3. MapTyped(s)
    BY <1>2, <2>1 DEF MapTyped
  <2>4. QED
    BY <1>2, <2>1, <2>2, <2>3, WithTimeoutIs
<1>3. QED
  BY <1>1, <1>2

-----------------------------------------------------------------------------
(***************************************************************************)
(* The steps of a trajectory that are the arm's.                           *)
(***************************************************************************)

\* The n-th element of a bounded set of naturals exists and has n elements up to
\* it.
LEMMA NthIs ==
  ASSUME NEW m \in Nat, NEW S \in SUBSET (1 .. m), NEW n \in 1 .. Cardinality(S)
  PROVE  Nth(S, n) \in S /\ Cardinality(Upto(S, Nth(S, n))) = n
<1>1. ASSUME NEW i \in 0 .. m
      PROVE  /\ Cardinality(Upto(S, i)) \in Nat
             /\ i > 0 /\ i \in S =>
                  Cardinality(Upto(S, i)) = Cardinality(Upto(S, i - 1)) + 1
             /\ i > 0 /\ i \notin S =>
                  Cardinality(Upto(S, i)) = Cardinality(Upto(S, i - 1))
  BY UptoCounts
<1>2. Upto(S, m) = S /\ Upto(S, 0) = {}
  <2>1. \A j \in 1 .. m : j <= m /\ ~(j <= 0)
    OBVIOUS
  <2>2. \A j \in S : j <= m /\ ~(j <= 0)
    BY <2>1
  <2>3. Upto(S, m) = S
    BY <2>2 DEF Upto
  <2>4. Upto(S, 0) = {}
    BY <2>2 DEF Upto
  <2>5. QED
    BY <2>3, <2>4
<1> DEFINE T == {i \in 0 .. m : Cardinality(Upto(S, i)) >= n}
<1>3. n \in Nat /\ n >= 1
  <2>1. Cardinality(S) \in Nat
    BY <1>1, <1>2
  <2>2. QED
    BY <2>1
<1>4. m \in T /\ T \in SUBSET Nat
  BY <1>1, <1>2
<1>5. PICK k \in T : \A i \in T : k <= i
  BY <1>4, Least
<1>6. k \in 0 .. m /\ Cardinality(Upto(S, k)) >= n
  OBVIOUS
<1>7. k /= 0
  BY <1>2, <1>3, <1>6, FS_EmptySet
<1>8. k - 1 \in 0 .. m /\ k - 1 \notin T
  BY <1>5, <1>6, <1>7
<1>9. Cardinality(Upto(S, k - 1)) < n /\ Cardinality(Upto(S, k - 1)) \in Nat
  BY <1>1, <1>3, <1>8
<1> HIDE DEF T
<1>10. k \in S /\ Cardinality(Upto(S, k)) = n
  BY <1>1, <1>3, <1>6, <1>7, <1>9
<1>11. \E i \in S : Cardinality({j \in S : j <= i}) = n
  BY <1>10 DEF Upto
<1>12. QED
  BY <1>11 DEF Nth, Upto

\* The last is the greatest.
LEMMA NthLast ==
  ASSUME NEW m \in Nat, NEW S \in SUBSET (1 .. m), m \in S
  PROVE  Cardinality(S) \in 1 .. m /\ Nth(S, Cardinality(S)) = m
<1>1. IsFiniteSet(1 .. m) /\ Cardinality(1 .. m) = m
  BY FS_Interval
<1>2. IsFiniteSet(S) /\ Cardinality(S) <= m /\ Cardinality(S) \in Nat
  BY <1>1, FS_Subset, FS_CardinalityType
<1>3. Cardinality(S) /= 0
  BY <1>2, FS_EmptySet
<1> DEFINE i == Nth(S, Cardinality(S))
<1>4. i \in S /\ Cardinality(Upto(S, i)) = Cardinality(S)
  BY <1>2, <1>3, NthIs
<1>5. Upto(S, i) \in SUBSET S
  BY DEF Upto
<1>6. Upto(S, i) = S
  BY <1>2, <1>4, <1>5, FS_Subset
<1> HIDE DEF i
<1>7. m <= i /\ i \in 1 .. m
  BY <1>4, <1>6 DEF Upto
<1>8. QED
  BY <1>2, <1>3, <1>7 DEF i

\* The place of an element is one behind those below it.
Rank(S, i) == Cardinality({j \in S : j < i})

LEMMA RankIs ==
  ASSUME NEW m \in Nat, NEW S \in SUBSET (1 .. m), NEW i \in S
  PROVE  Rank(S, i) \in 0 .. Cardinality(S) - 1 /\ Nth(S, Rank(S, i) + 1) = i
<1> DEFINE r == Cardinality({j \in S : j < i})
           a == Nth(S, r + 1)
<1>1. i \in 1 .. m /\ i \in 0 .. m /\ i > 0
  OBVIOUS
<1>2. {j \in S : j < i} = Upto(S, i - 1)
  <2>1. \A j \in S : j \in Int /\ (j < i <=> j <= i - 1)
    <3>1. \A j \in 1 .. m : j \in Int /\ (j < i <=> j <= i - 1)
      BY <1>1
    <3>2. QED
      BY <3>1
  <2>2. QED
    BY <2>1 DEF Upto
<1>3. /\ IsFiniteSet(S) /\ IsFiniteSet(Upto(S, i))
      /\ Cardinality(Upto(S, i)) \in Nat
      /\ Cardinality(Upto(S, i)) = Cardinality(Upto(S, i - 1)) + 1
  BY <1>1, UptoCounts
<1>4. i - 1 \in 0 .. m
  BY <1>1
<1>5. r \in Nat /\ Cardinality(Upto(S, i)) = r + 1
  BY <1>2, <1>3, <1>4, UptoCounts
<1>6. Cardinality(Upto(S, i)) <= Cardinality(S) /\ Cardinality(S) \in Nat
  <2>1. Upto(S, i) \in SUBSET S
    BY DEF Upto
  <2>2. QED
    BY <1>3, <2>1, FS_Subset, FS_CardinalityType
<1> HIDE DEF r
<1>7. r + 1 \in 1 .. Cardinality(S) /\ r \in 0 .. Cardinality(S) - 1
  BY <1>5, <1>6
<1>8. a \in S /\ Cardinality(Upto(S, a)) = r + 1
  BY <1>7, NthIs
<1> HIDE DEF a
<1>9. \A b, c \in S : b <= c /\ Cardinality(Upto(S, b)) = Cardinality(Upto(S, c)) => b = c
  <2> SUFFICES ASSUME NEW b \in S, NEW c \in S, b <= c,
                      Cardinality(Upto(S, b)) = Cardinality(Upto(S, c))
               PROVE  b = c
    OBVIOUS
  <2>1. b \in Int /\ c \in Int /\ \A j \in S : j \in Int
    OBVIOUS
  <2>2. Upto(S, b) \in SUBSET Upto(S, c)
    <3>1. \A j \in S : j <= b => j <= c
      BY <2>1
    <3>2. QED
      BY <3>1 DEF Upto
  <2>3. IsFiniteSet(Upto(S, c))
    <3>1. c \in 0 .. m
      OBVIOUS
    <3>2. QED
      BY <3>1, UptoCounts
  <2>4. Upto(S, b) = Upto(S, c)
    BY <2>2, <2>3, FS_Subset
  <2>5. c \in Upto(S, b)
    BY <2>1, <2>4 DEF Upto
  <2>6. QED
    BY <2>1, <2>5 DEF Upto
<1>10. a \in Int /\ i \in Int
  BY <1>8
<1>11. a = i
  BY <1>5, <1>8, <1>9, <1>10
<1>12. QED
  BY <1>7, <1>11 DEF a, r, Rank

\* What is picked from p: as many elements as there are indices, each at one.
LEMMA PickedIs ==
  ASSUME NEW m \in Nat, NEW S \in SUBSET (1 .. m), NEW p
  PROVE  LET k == Cardinality(S)
             s == Picked(p, S)
         IN  /\ k \in 0 .. m /\ Len(s) = k /\ DOMAIN s = 1 .. k
             /\ \A i \in 1 .. k : Nth(S, i) \in S /\ s[i] = p[Nth(S, i)]
<1>1. IsFiniteSet(1 .. m) /\ Cardinality(1 .. m) = m
  BY FS_Interval
<1>2. Cardinality(S) <= m /\ Cardinality(S) \in Nat
  <2>1. IsFiniteSet(S) /\ Cardinality(S) <= m
    BY <1>1, FS_Subset
  <2>2. QED
    BY <2>1, FS_CardinalityType
<1>3. \A i \in 1 .. Cardinality(S) : Nth(S, i) \in S
  BY NthIs
<1>4. QED
  BY <1>2, <1>3 DEF Picked

\* The arm's steps are configurations; when the last step of the trajectory is the
\* arm's, it is the last of them.
LEMMA JointStepsAre ==
  ASSUME NEW t \in Trajectory
  PROVE  LET p   == JointSteps(t)
             end == LastTrajectoryJoints(t)
         IN  /\ p \in Seq(Config) /\ Len(p) \in 0 .. MaxSteps
             /\ end /= NoJoints => end \in Config /\ p /= <<>> /\ Last(p) = end
<1>1. PICK n \in 0 .. MaxSteps : t \in [1 .. n -> Config \union {NoJoints}]
  BY DEF Trajectory, SeqsOf
<1>2. n \in Nat /\ Len(t) = n /\ DOMAIN t = 1 .. n /\ MaxSteps \in Nat
  BY <1>1, PointsAssumption
<1> DEFINE S == {i \in DOMAIN t : t[i] /= NoJoints}
           k == Cardinality(S)
           p == Picked(t, S)
<1>3. JointSteps(t) = p
  BY DEF JointSteps
<1>4. S \in SUBSET (1 .. n) /\ \A i \in S : t[i] \in Config
  BY <1>1, <1>2
<1>5. t /= <<>> /\ LastTrajectoryJoints(t) /= NoJoints => n \in S
  BY <1>1, <1>2 DEF LastTrajectoryJoints, Last
<1> HIDE DEF S
<1>6. /\ k \in 0 .. n /\ Len(p) = k /\ DOMAIN p = 1 .. k
      /\ \A i \in 1 .. k : Nth(S, i) \in S /\ p[i] = t[Nth(S, i)]
  BY <1>2, <1>4, PickedIs
<1>7. k \in Nat /\ \A i \in 1 .. k : p[i] \in Config
  BY <1>2, <1>4, <1>6
<1>8. p = [i \in 1 .. k |-> p[i]]
  BY DEF Picked
<1> HIDE DEF p, k
<1>9. p \in Seq(Config) /\ Len(p) \in 0 .. MaxSteps
  BY <1>2, <1>6, <1>7, <1>8
<1>10. ASSUME LastTrajectoryJoints(t) /= NoJoints
       PROVE  /\ LastTrajectoryJoints(t) \in Config
              /\ p /= <<>> /\ Last(p) = LastTrajectoryJoints(t)
  <2>1. t /= <<>> /\ LastTrajectoryJoints(t) = t[n]
    BY <1>2, <1>10 DEF LastTrajectoryJoints, Last
  <2>2. n \in S
    BY <1>5, <1>10, <2>1
  <2>3. k \in 1 .. n /\ Nth(S, k) = n
    BY <1>2, <1>4, <2>2, NthLast DEF k
  <2>4. k \in 1 .. k /\ k /= 0
    BY <1>7, <2>3
  <2>5. p[k] = t[n]
    BY <1>6, <2>3, <2>4
  <2>6. p /= <<>>
    BY <1>6, <2>4
  <2>7. QED
    BY <1>4, <1>6, <2>1, <2>2, <2>5, <2>6 DEF Last
<1>11. QED
  BY <1>3, <1>9, <1>10

-----------------------------------------------------------------------------
(***************************************************************************)
(* The invariant.                                                          *)
(***************************************************************************)

\* An empty trajectory starts wherever it is asked to.
LEMMA NothingIsEmpty ==
  /\ Nothing.trajectory \in Trajectory /\ Nothing.feasible \in BOOLEAN
  /\ \A c : StartAt(JointSteps(Nothing.trajectory), c)
<1>1. Nothing.trajectory = <<>> /\ Nothing.feasible = FALSE
  BY DEF Nothing
<1>2. <<>> \in Trajectory
  <2>1. <<>> \in [1 .. 0 -> Config \union {NoJoints}] /\ 0 \in 0 .. MaxSteps
    BY PointsAssumption
  <2>2. QED
    BY <2>1 DEF Trajectory, SeqsOf
<1>3. JointSteps(<<>>) = <<>>
  <2>1. {i \in DOMAIN <<>> : <<>>[i] /= NoJoints} = {}
    OBVIOUS
  <2>2. Cardinality({}) = 0
    BY FS_EmptySet
  <2>3. [n \in 1 .. 0 |-> <<>>[Nth({}, n)]] = <<>>
    OBVIOUS
  <2>4. QED
    BY <2>1, <2>2, <2>3 DEF JointSteps, Picked
<1>4. QED
  BY <1>1, <1>2, <1>3 DEF StartAt

\* A request that asks to start where wanted keeps the invariant.
LEMMA RequestKeepsInv ==
  ASSUME PlanInv, NEW start \in Config \union {NoJoints}, NEW t \in Timeout,
         Request(start, start, t)
  PROVE  PlanInv'
<1> DEFINE e == MarshalPlanRequest(start, t)
<1>1. /\ MapTyped(e)
      /\ start /= NoJoints => "start_state" \in DOMAIN e /\ e.start_state = start
      /\ start = NoJoints =>
           ("start_state" \in DOMAIN e <=> "start_state" \in DOMAIN extra)
  BY MarshalIs DEF PlanInv
<1>2. /\ extra' = IF shares THEN e ELSE extra
      /\ request' \in {e, NoRequest} /\ result' = Nothing
      /\ asked' = start
      /\ UNCHANGED <<joints, shares>>
  BY DEF Request
<1> HIDE DEF e
<1>3. MapTyped(extra)' /\ (~shares => DOMAIN extra = {})'
  BY <1>1, <1>2 DEF PlanInv, MapTyped
<1>4. StartsAsAsked'
  BY <1>2, NothingIsEmpty DEF StartsAsAsked
<1>5. CarriesWhatWasAsked'
  BY <1>1, <1>2 DEF CarriesWhatWasAsked, PlanInv, MapTyped
<1>6. QED
  BY <1>2, <1>3, <1>4, <1>5, NothingIsEmpty DEF PlanInv

\* What the service answers starts where the request says.
LEMMA AnsweredKeepsInv == ASSUME PlanInv, Answered PROVE PlanInv'
<1>1. CASE result' = Nothing
  BY <1>1, NothingIsEmpty
  DEF Answered, PlanInv, StartsAsAsked, CarriesWhatWasAsked, MapTyped
<1>2. ASSUME NEW partial \in BOOLEAN, NEW p \in Trajectory,
             Planned(p), result' = ParsePlanResponse(partial, p)
      PROVE  PlanInv'
  <2>1. result'.trajectory = p /\ result'.feasible \in BOOLEAN
    BY <1>2 DEF ParsePlanResponse
  <2>2. request /= NoRequest /\ request' = NoRequest
        /\ UNCHANGED <<joints, shares, extra, asked>>
    BY DEF Answered
  <2>3. StartsAsAsked'
    BY <1>2, <2>1, <2>2 DEF PlanInv, CarriesWhatWasAsked, Planned, StartsAsAsked
  <2>4. QED
    BY <2>1, <2>2, <2>3 DEF PlanInv, CarriesWhatWasAsked, MapTyped
<1>3. QED
  BY <1>1, <1>2 DEF Answered

LEMMA PlanInvCorrect == Spec => []PlanInv
<1>1. Init => PlanInv
  <2>1. DOMAIN <<>> = {}
    OBVIOUS
  <2>2. QED
    BY <2>1, NothingIsEmpty
    DEF Init, PlanInv, MapTyped, CarriesWhatWasAsked, StartsAsAsked
<1>2. PlanInv /\ [Next]_vars => PlanInv'
  <2> SUFFICES ASSUME PlanInv, [Next]_vars PROVE PlanInv'
    OBVIOUS
  <2>1. ASSUME NEW start \in Config \union {NoJoints}, NEW t \in Timeout,
               PlanFrom(start, t)
        PROVE  PlanInv'
    BY <2>1, RequestKeepsInv DEF PlanFrom
  <2>2. ASSUME NEW t \in Timeout, PlanOn(t) PROVE PlanInv'
    <3> DEFINE end == LastTrajectoryJoints(result.trajectory)
    <3>1. end \in Config /\ Last(JointSteps(result.trajectory)) = end
      BY <2>2, JointStepsAre DEF PlanOn, PlanInv
    <3>2. QED
      BY <2>2, <3>1, RequestKeepsInv DEF PlanOn
  <2>3. CASE Answered
    BY <2>3, AnsweredKeepsInv
  <2>4. ASSUME NEW c \in Config, Move(c) PROVE PlanInv'
    BY <2>4 DEF Move, PlanInv, CarriesWhatWasAsked, StartsAsAsked, MapTyped
  <2>5. ASSUME UNCHANGED <<joints, shares, extra, request, asked, result>>
        PROVE  PlanInv'
    BY <2>5 DEF PlanInv, CarriesWhatWasAsked, StartsAsAsked, MapTyped
  <2>6. ASSUME NEW m \in MaxPoints, NEW failed \in BOOLEAN,
               ShowPreview(m, failed)
        PROVE  PlanInv'
    BY <2>5, <2>6 DEF ShowPreview
  <2>7. CASE ClearPreview
    BY <2>5, <2>7 DEF ClearPreview
  <2>8. CASE UNCHANGED vars
    BY <2>5, <2>8 DEF vars
  <2>9. QED
    BY <2>1, <2>2, <2>3, <2>4, <2>6, <2>7, <2>8 DEF Next
<1>3. QED
  BY <1>1, <1>2, PTL DEF Spec

-----------------------------------------------------------------------------
(***************************************************************************)
(* Which steps a preview keeps.                                            *)
(***************************************************************************)

LEMMA DivIs ==
  ASSUME NEW a \in Nat, NEW b \in Nat \ {0}
  PROVE  a \div b \in Nat /\ b * (a \div b) <= a /\ a < b * (a \div b) + b
OBVIOUS

LEMMA ModIs ==
  ASSUME NEW a \in Nat, NEW b \in Nat \ {0}
  PROVE  a = b * (a \div b) + (a % b) /\ a % b \in 0 .. b - 1
OBVIOUS

\* Multiples of b, and no others, are divided without a rest.
LEMMA MultipleIs ==
  ASSUME NEW q \in Nat, NEW b \in Nat \ {0}
  PROVE  (q * b) % b = 0
<1> DEFINE a == q * b
           x == a \div b
           r == a % b
<1>1. a \in Nat
  OBVIOUS
<1>2. a = b * x + r /\ r \in 0 .. b - 1 /\ x \in Nat
  <2> HIDE DEF a
  <2>1. QED
    BY <1>1, ModIs, DivIs
<1>3. q * b = b * q
  OBVIOUS
<1>4. b * q = b * x + r
  BY <1>2, <1>3
<1> HIDE DEF a, x, r
<1>5. x <= q
  <2>1. SUFFICES ASSUME x >= q + 1 PROVE FALSE
    BY <1>2
  <2>2. b * x >= b * (q + 1)
    BY <1>2, <2>1
  <2>3. b * (q + 1) = b * q + b
    OBVIOUS
  <2>4. b * q \in Int /\ b * x \in Int
    BY <1>2
  <2>5. QED
    BY <1>2, <1>4, <2>2, <2>3, <2>4
<1>6. x >= q
  <2>1. SUFFICES ASSUME q >= x + 1 PROVE FALSE
    BY <1>2
  <2>2. b * q >= b * (x + 1)
    BY <1>2, <2>1
  <2>3. b * (x + 1) = b * x + b
    BY <1>2
  <2>4. b * q \in Int /\ b * x \in Int
    BY <1>2
  <2>5. QED
    BY <1>2, <1>4, <2>2, <2>3, <2>4
<1>7. x = q
  BY <1>2, <1>5, <1>6
<1>8. r = 0
  BY <1>2, <1>4, <1>7
<1>9. QED
  BY <1>8 DEF r, a

\* How many of n steps are d apart.
LEMMA ApartCounts ==
  ASSUME NEW n \in Nat \ {0}, NEW d \in Nat \ {0}
  PROVE  Cardinality(Apart(n, d)) = (n - 1) \div d + 1
<1> DEFINE x == (n - 1) \div d
           f == [q \in 1 .. x + 1 |-> (q - 1) * d + 1]
<1>1. n - 1 \in Nat /\ x \in Nat /\ d * x <= n - 1 /\ n - 1 < d * x + d
  BY DivIs
<1> HIDE DEF x
<1>2. ASSUME NEW q \in 1 .. x + 1 PROVE f[q] \in Apart(n, d)
  <2>1. q - 1 \in Nat /\ q - 1 <= x /\ f[q] = (q - 1) * d + 1
    BY <1>1
  <2>2. (q - 1) * d <= x * d /\ x * d = d * x /\ (q - 1) * d \in Nat
    BY <1>1, <2>1
  <2>3. ((q - 1) * d) % d = 0
    BY <2>1, MultipleIs
  <2> HIDE DEF f
  <2> DEFINE y == (q - 1) * d
  <2>4. y \in Nat /\ y <= n - 1 /\ y % d = 0 /\ f[q] = y + 1
    BY <1>1, <2>1, <2>2, <2>3
  <2> HIDE DEF y
  <2>5. f[q] \in 1 .. n /\ f[q] - 1 = y
    BY <2>4
  <2>6. QED
    BY <2>4, <2>5 DEF Apart
<1>3. ASSUME NEW i \in Apart(n, d) PROVE \E q \in 1 .. x + 1 : f[q] = i
  <2>1. i \in 1 .. n /\ (i - 1) % d = 0 /\ i - 1 \in Nat
    BY DEF Apart
  <2> DEFINE y == (i - 1) \div d
  <2>2. i - 1 = d * y + ((i - 1) % d) /\ y \in Nat
    BY <2>1, ModIs, DivIs
  <2> HIDE DEF y
  <2>3. i - 1 = d * y /\ d * y <= n - 1
    BY <2>1, <2>2
  <2>4. y <= x
    <3>1. SUFFICES ASSUME y >= x + 1 PROVE FALSE
      BY <1>1, <2>2
    <3>2. d * y >= d * (x + 1) /\ d * (x + 1) = d * x + d
      BY <1>1, <2>2, <3>1
    <3>3. QED
      BY <1>1, <2>2, <2>3, <3>2
  <2>5. y + 1 \in 1 .. x + 1 /\ y + 1 - 1 = y /\ y * d = d * y
    BY <1>1, <2>2, <2>4
  <2>6. f[y + 1] = i
    <3> DEFINE q == y + 1
    <3>1. q \in 1 .. x + 1 /\ q - 1 = y
      BY <1>1, <2>2, <2>4
    <3> HIDE DEF q
    <3>2. f[q] = (q - 1) * d + 1
      BY <3>1
    <3> HIDE DEF f
    <3>3. y * d + 1 = i
      BY <2>1, <2>2, <2>3, <2>5
    <3>4. QED
      BY <3>1, <3>2, <3>3 DEF q
  <2>7. QED
    BY <2>5, <2>6
<1>4. ASSUME NEW q \in 1 .. x + 1, NEW r \in 1 .. x + 1, f[q] = f[r] PROVE q = r
  <2>1. q \in Nat /\ r \in Nat /\ (q - 1) * d + 1 = (r - 1) * d + 1
    BY <1>1, <1>4
  <2>2. (q - 1) * d = (r - 1) * d
    BY <2>1
  <2>3. QED
    BY <2>1, <2>2
<1> HIDE DEF f
<1>5. f \in [1 .. x + 1 -> Apart(n, d)]
  BY <1>2 DEF f
<1>6. f \in Bijection(1 .. x + 1, Apart(n, d))
  BY <1>3, <1>4, <1>5 DEF Bijection, Injection, Surjection, IsInjective
<1>7. ExistsBijection(1 .. x + 1, Apart(n, d))
  BY <1>6 DEF ExistsBijection
<1>8. IsFiniteSet(1 .. x + 1) /\ Cardinality(1 .. x + 1) = x + 1
  BY <1>1, FS_Interval
<1>9. QED
  BY <1>7, <1>8, FS_Bijection DEF x

LEMMA CapIs ==
  ASSUME NEW m \in MaxPoints
  PROVE  CapOf(m) \in Nat \ {0} \/ CapOf(m) = -1
BY PointsAssumption DEF CapOf, MaxPoints

\* The steps a stride apart fit the cap, and no finer stride's do.
Fits(n, cap, d) == cap > 0 => Cardinality(Apart(n, d)) <= cap

LEMMA StrideIs ==
  ASSUME NEW n \in Nat \ {0}, NEW cap \in Int, cap > 0 \/ cap = -1
  PROVE  /\ Stride(n, cap) \in 1 .. n
         /\ Fits(n, cap, Stride(n, cap))
         /\ \A e \in 1 .. Stride(n, cap) - 1 : ~Fits(n, cap, e)
<1> DEFINE d == Stride(n, cap)
<1>1. CASE cap > 0 /\ n > cap
  <2>1. d = (n + cap - 1) \div cap
    BY <1>1 DEF Stride
  <2>2. d \in Nat /\ cap * d <= n + cap - 1 /\ n + cap - 1 < cap * d + cap
    BY <1>1, <2>1, DivIs
  <2> HIDE DEF d
  <2>3. d >= 1
    <3>1. d = 0 => cap * d = 0
      BY <2>2
    <3>2. QED
      BY <1>1, <2>2, <3>1
  <2>4. d <= n
    <3>1. SUFFICES ASSUME d >= n + 1 PROVE FALSE
      BY <2>2
    <3>2. cap * d >= cap * (n + 1) /\ cap * (n + 1) = cap * n + cap /\ cap * n >= n
      BY <1>1, <2>2, <3>1
    <3>3. QED
      BY <1>1, <2>2, <3>2
  <2>5. Fits(n, cap, d)
    <3> DEFINE q == (n - 1) \div d
    <3>1. q \in Nat /\ d * q <= n - 1
      BY <2>2, <2>3, DivIs
    <3>2. Cardinality(Apart(n, d)) = q + 1
      BY <2>2, <2>3, ApartCounts
    <3> HIDE DEF q
    <3>3. q + 1 <= cap
      <4>1. SUFFICES ASSUME q >= cap PROVE FALSE
        BY <1>1, <3>1
      <4>2. d * q >= d * cap /\ d * cap = cap * d
        BY <1>1, <2>2, <3>1, <4>1
      <4>3. QED
        BY <1>1, <2>2, <3>1, <4>2
    <3>4. QED
      BY <3>2, <3>3 DEF Fits
  <2>6. ASSUME NEW e \in 1 .. d - 1 PROVE ~Fits(n, cap, e)
    <3> DEFINE q == (n - 1) \div e
    <3>1. e \in Nat \ {0} /\ e <= d - 1
      BY <2>2
    <3>2. q \in Nat /\ n - 1 < e * q + e
      BY <3>1, DivIs
    <3>3. Cardinality(Apart(n, e)) = q + 1
      BY <3>1, ApartCounts
    <3> HIDE DEF q
    <3>4. cap * e <= n - 1
      <4>1. cap * e <= cap * (d - 1) /\ cap * (d - 1) = cap * d - cap
        BY <1>1, <2>2, <3>1
      <4>2. QED
        BY <1>1, <2>2, <3>1, <4>1
    <3>5. q >= cap
      <4>1. SUFFICES ASSUME q + 1 <= cap PROVE FALSE
        BY <1>1, <3>2
      <4>2. e * (q + 1) <= e * cap /\ e * (q + 1) = e * q + e /\ e * cap = cap * e
        BY <1>1, <3>1, <3>2, <4>1
      <4>3. QED
        BY <1>1, <3>1, <3>2, <3>4, <4>2
    <3>6. QED
      BY <1>1, <3>2, <3>3, <3>5 DEF Fits
  <2>7. QED
    BY <2>2, <2>3, <2>4, <2>5, <2>6 DEF d
<1>2. CASE ~(cap > 0 /\ n > cap)
  <2>1. Stride(n, cap) = 1
    BY <1>2 DEF Stride
  <2>2. Cardinality(Apart(n, 1)) = n
    <3>1. (n - 1) \div 1 = n - 1
      OBVIOUS
    <3>2. QED
      BY <3>1, ApartCounts
  <2>3. QED
    BY <1>2, <2>1, <2>2 DEF Fits
<1>3. QED
  BY <1>1, <1>2

\* The poses of a path: those of the steps a stride apart, each in the place its
\* order gives it, and the goal behind them.
LEMMA PosesAre ==
  ASSUME NEW t \in Trajectory, NEW m \in MaxPoints, NEW failed \in BOOLEAN
  PROVE  LET poses == TrajectoryToEEPoses(t, m, failed)
             p     == JointSteps(t)
             n     == Len(p)
             marks == Solved(p, Apart(n, Stride(n, CapOf(m))))
             k     == Cardinality(marks)
         IN  /\ n = 0 \/ failed => Len(poses) = 0
             /\ n > 0 /\ ~failed =>
                  /\ p[n] \in Unsolved => Len(poses) = k
                  /\ p[n] \notin Unsolved => Len(poses) = k + 1 /\ poses[k + 1] = p[n]
                  /\ \A i \in marks : /\ Rank(marks, i) \in 0 .. k - 1
                                     /\ poses[Rank(marks, i) + 1] = p[i]
             /\ Len(poses) \in 0 .. MaxSteps + 1
             /\ \A i \in 1 .. Len(poses) : poses[i] \in Config
<1> DEFINE poses == TrajectoryToEEPoses(t, m, failed)
           p     == JointSteps(t)
           n     == Len(p)
           marks == Solved(p, Apart(n, Stride(n, CapOf(m))))
           k     == Cardinality(marks)
           q     == Picked(p, marks)
<1>1. /\ p \in Seq(Config) /\ n \in 0 .. MaxSteps /\ n \in Nat
      /\ \A i \in 1 .. n : p[i] \in Config
      /\ p = <<>> <=> n = 0
  <2>1. p \in Seq(Config) /\ n \in 0 .. MaxSteps
    BY JointStepsAre
  <2>2. QED
    BY <2>1
<1>2. poses = IF p = <<>> \/ failed THEN <<>>
              ELSE IF p[n] \in Unsolved THEN q ELSE Append(q, p[n])
  BY DEF TrajectoryToEEPoses, Last
<1>3. marks \in SUBSET (1 .. n)
  BY DEF Solved, Apart
<1> HIDE DEF poses, p, n, marks
<1>4. /\ k \in 0 .. n /\ k \in Nat /\ Len(q) = k /\ DOMAIN q = 1 .. k
      /\ \A i \in 1 .. k : Nth(marks, i) \in marks /\ q[i] = p[Nth(marks, i)]
  <2>1. k \in 0 .. n
    BY <1>1, <1>3, PickedIs
  <2>2. QED
    BY <1>1, <1>3, <2>1, PickedIs
<1>5. \A i \in 1 .. k : q[i] \in Config
  BY <1>1, <1>3, <1>4
<1> HIDE DEF k, q
<1>6. q \in Seq(Config)
  <2>1. q = [i \in 1 .. k |-> q[i]]
    BY <1>4 DEF q, Picked
  <2>2. QED
    BY <1>4, <1>5, <2>1
<1>7. ASSUME NEW i \in marks
      PROVE  Rank(marks, i) \in 0 .. k - 1 /\ q[Rank(marks, i) + 1] = p[i]
  <2> DEFINE r == Rank(marks, i)
  <2>1. r \in 0 .. k - 1 /\ Nth(marks, r + 1) = i
    BY <1>1, <1>3, RankIs DEF k
  <2> HIDE DEF r
  <2>2. r + 1 \in 1 .. k
    BY <1>4, <2>1
  <2>3. QED
    BY <1>4, <2>1, <2>2 DEF r
<1>8. CASE n = 0 \/ failed
  <2>1. poses = <<>>
    BY <1>1, <1>2, <1>8
  <2>2. Len(poses) = 0 /\ \A i \in 1 .. Len(poses) : FALSE
    BY <2>1
  <2>3. QED
    BY <1>8, <2>2, PointsAssumption DEF poses, p, n
<1>9. CASE n > 0 /\ ~failed
  <2>1. n \in 1 .. n /\ p[n] \in Config /\ p /= <<>>
    BY <1>1, <1>9
  <2>2. CASE p[n] \in Unsolved
    <3>1. poses = q
      BY <1>2, <1>9, <2>1, <2>2
    <3>2. k \in 0 .. MaxSteps + 1
      BY <1>1, <1>4, PointsAssumption
    <3>3. QED
      BY <1>4, <1>5, <1>7, <1>9, <2>2, <3>1, <3>2 DEF poses, p, n, marks, k
  <2>3. CASE p[n] \notin Unsolved
    <3>1. poses = Append(q, p[n])
      BY <1>2, <1>9, <2>1, <2>3
    <3>2. /\ Len(poses) = k + 1 /\ poses[k + 1] = p[n]
          /\ \A i \in 1 .. k : poses[i] = q[i]
      BY <1>4, <1>6, <2>1, <3>1, AppendProperties
    <3>3. k + 1 \in 0 .. MaxSteps + 1
      BY <1>1, <1>4, PointsAssumption
    <3>4. \A i \in 1 .. k + 1 : poses[i] \in Config
      <4>1. \A i \in 1 .. k + 1 : i \in 1 .. k \/ i = k + 1
        BY <1>4
      <4>2. QED
        BY <1>5, <2>1, <3>2, <4>1
    <3>5. ASSUME NEW i \in marks
          PROVE  Rank(marks, i) \in 0 .. k - 1 /\ poses[Rank(marks, i) + 1] = p[i]
      <4> DEFINE r == Rank(marks, i)
      <4>1. r \in 0 .. k - 1 /\ q[r + 1] = p[i]
        BY <1>7
      <4> HIDE DEF r
      <4>2. r + 1 \in 1 .. k
        BY <1>4, <4>1
      <4>3. QED
        BY <3>2, <4>1, <4>2 DEF r
    <3>6. QED
      BY <1>9, <2>3, <3>2, <3>3, <3>4, <3>5 DEF poses, p, n, marks, k
  <2>4. QED
    BY <2>2, <2>3
<1>10. QED
  BY <1>1, <1>8, <1>9

-----------------------------------------------------------------------------
(***************************************************************************)
(* The preview.                                                            *)
(***************************************************************************)

PreviewInv ==
  /\ scene \in [Waypoint -> Config \union {NoJoints}]
  /\ shown \in 0 .. MaxSteps + 1
  /\ drawn \in Previews \union {NotDrawn}
  /\ drawn = NotDrawn => shown = 0
  /\ request /= NoRequest => drawn = NotDrawn
  /\ SceneIsShown
  /\ PreviewFollowsPath

\* PreviewFollowsPath, of the steps p, their cap, and k waypoints of the scene w.
Follows(p, cap, failed, k, w) ==
  LET n        == Len(p)
      Marks(d) == Solved(p, Apart(n, d))
  IN  IF n = 0 \/ failed THEN k = 0
      ELSE \E d \in 1 .. n :
             /\ Fits(n, cap, d) /\ \A e \in 1 .. d - 1 : ~Fits(n, cap, e)
             /\ \A i \in Marks(d) : w[Rank(Marks(d), i)] = p[i]
             /\ IF p[n] \in Unsolved THEN k = Cardinality(Marks(d))
                ELSE k = Cardinality(Marks(d)) + 1 /\ w[k - 1] = p[n]

\* A preview is shown where none is, and shows the poses one by one.
LEMMA ShowKeepsPreview ==
  ASSUME PlanInv, PreviewInv, NEW m \in MaxPoints, NEW failed \in BOOLEAN,
         ShowPreview(m, failed)
  PROVE  PreviewInv'
<1> DEFINE t     == result.trajectory
           poses == TrajectoryToEEPoses(t, m, failed)
           p     == JointSteps(t)
           n     == Len(p)
           cap   == CapOf(m)
           d     == Stride(n, cap)
           marks == Solved(p, Apart(n, d))
           l     == Cardinality(marks)
           k     == Len(poses)
<1>1. /\ t \in Trajectory /\ shown = 0
      /\ scene' = [i \in Waypoint |-> IF i < k THEN poses[i + 1] ELSE scene[i]]
      /\ shown' = k
      /\ drawn' = [maxPoints |-> m, failed |-> failed]
      /\ result' = result /\ request' = NoRequest
  BY DEF ShowPreview, PlanInv, PreviewInv
<1>2. /\ n = 0 \/ failed => k = 0
      /\ n > 0 /\ ~failed =>
           /\ p[n] \in Unsolved => k = l
           /\ p[n] \notin Unsolved => k = l + 1 /\ poses[l + 1] = p[n]
           /\ \A i \in marks :
                Rank(marks, i) \in 0 .. l - 1 /\ poses[Rank(marks, i) + 1] = p[i]
      /\ k \in 0 .. MaxSteps + 1
      /\ \A i \in 1 .. k : poses[i] \in Config
  BY <1>1, PosesAre
<1>3. n \in Nat /\ marks \in SUBSET (1 .. n)
  <2>1. p \in Seq(Config)
    BY <1>1, JointStepsAre
  <2>2. QED
    BY <2>1 DEF Solved, Apart
<1>4. l \in Nat
  <2> HIDE DEF marks, n
  <2>1. IsFiniteSet(1 .. n)
    BY <1>3, FS_Interval
  <2>2. IsFiniteSet(marks)
    BY <1>3, <2>1, FS_Subset
  <2>3. QED
    BY <2>2, FS_CardinalityType
<1>5. drawn'.maxPoints = m /\ drawn'.failed = failed /\ drawn' \in Previews
  BY <1>1 DEF Previews
<1>6. \A i \in Waypoint : scene[i] = NoJoints
  BY <1>1 DEF PreviewInv, SceneIsShown, Waypoint
<1> HIDE DEF poses, p, n, cap, d, marks, l, k
<1>7. k \in Nat /\ k <= MaxSteps + 1 /\ MaxSteps \in Nat
  BY <1>2, PointsAssumption
<1>8. ASSUME NEW i \in Waypoint
      PROVE  /\ i < k => scene'[i] = poses[i + 1] /\ scene'[i] \in Config
             /\ ~(i < k) => scene'[i] = NoJoints
  <2>1. i \in Nat
    BY DEF Waypoint
  <2>2. i < k => i + 1 \in 1 .. k
    BY <1>7, <2>1
  <2>3. QED
    BY <1>1, <1>2, <1>6, <2>2
<1>9. scene' \in [Waypoint -> Config \union {NoJoints}]
  <2>1. \A i \in Waypoint : scene'[i] \in Config \union {NoJoints}
    BY <1>8
  <2>2. QED
    BY <1>1, <2>1
<1>10. SceneIsShown'
  BY <1>1, <1>8, ConfigAssumption DEF SceneIsShown
<1>11. \A i \in 0 .. k - 1 : scene'[i] = poses[i + 1]
  <2>1. \A i \in 0 .. k - 1 : i \in Waypoint /\ i < k
    BY <1>7 DEF Waypoint
  <2>2. QED
    BY <1>8, <2>1
<1>12. Follows(p, cap, failed, k, scene')
  <2>1. CASE n = 0 \/ failed
    BY <1>2, <2>1 DEF Follows, n
  <2>2. CASE n > 0 /\ ~failed
    <3>1. n \in Nat \ {0} /\ cap \in Int /\ (cap > 0 \/ cap = -1)
      BY <1>3, <2>2, CapIs DEF cap
    <3>2. /\ d \in 1 .. n /\ Fits(n, cap, d)
          /\ \A e \in 1 .. d - 1 : ~Fits(n, cap, e)
      BY <3>1, StrideIs DEF d
    <3>3. ASSUME NEW i \in marks
          PROVE  scene'[Rank(marks, i)] = p[i]
      <4> DEFINE r == Rank(marks, i)
      <4>1. r \in 0 .. l - 1 /\ poses[r + 1] = p[i]
        BY <1>2, <2>2
      <4> HIDE DEF r
      <4>2. r \in 0 .. k - 1
        BY <1>2, <1>4, <1>7, <2>2, <4>1
      <4>3. QED
        BY <1>11, <4>1, <4>2 DEF r
    <3>4. p[n] \notin Unsolved => scene'[k - 1] = p[n]
      <4>1. p[n] \notin Unsolved => k - 1 \in 0 .. k - 1 /\ k - 1 + 1 = l + 1
        BY <1>2, <1>4, <2>2
      <4>2. QED
        BY <1>2, <1>11, <2>2, <4>1
    <3>5. n /= 0
      BY <3>1
    <3>6. QED
      BY <1>2, <2>2, <3>2, <3>3, <3>4, <3>5 DEF Follows, n, marks, l
  <2>3. QED
    BY <1>3, <2>1, <2>2
<1>13. PreviewFollowsPath'
  <2>1. Follows(JointSteps(result'.trajectory), CapOf(drawn'.maxPoints), drawn'.failed,
                shown', scene')
    BY <1>1, <1>5, <1>12 DEF p, cap
  <2>2. QED
    BY <2>1 DEF PreviewFollowsPath, Follows, Fits, Rank
<1>14. drawn' /= NotDrawn
  <2>1. -2 \notin MaxPoints
    BY PointsAssumption DEF MaxPoints
  <2>2. QED
    BY <1>5, <2>1 DEF NotDrawn
<1>15. QED
  BY <1>1, <1>5, <1>7, <1>9, <1>10, <1>13, <1>14 DEF PreviewInv

\* Taking a preview down leaves nothing of it.
LEMMA ClearKeepsPreview == ASSUME PreviewInv, ClearPreview PROVE PreviewInv'
<1>1. /\ scene' = [i \in Waypoint |-> IF i \in 0 .. shown - 1 THEN NoJoints ELSE scene[i]]
      /\ shown' = 0 /\ drawn' = NotDrawn
  BY DEF ClearPreview, TrajectoryUUIDs
<1>2. \A i \in Waypoint : scene'[i] = NoJoints
  <2>1. \A i \in Waypoint : i \in Nat
    BY DEF Waypoint
  <2>2. \A i \in Waypoint : ~(i \in 0 .. shown - 1) => scene[i] = NoJoints
    BY <2>1 DEF PreviewInv, SceneIsShown
  <2>3. QED
    BY <1>1, <2>2
<1>3. scene' \in [Waypoint -> Config \union {NoJoints}]
  BY <1>1, <1>2
<1>4. SceneIsShown'
  <2>1. \A i \in Waypoint : ~(i < 0)
    BY DEF Waypoint
  <2>2. QED
    BY <1>1, <1>2, <2>1 DEF SceneIsShown
<1>5. PreviewFollowsPath'
  BY <1>1 DEF PreviewFollowsPath
<1>6. QED
  BY <1>1, <1>3, <1>4, <1>5, PointsAssumption DEF PreviewInv

LEMMA PreviewInvCorrect == Spec => [](PlanInv /\ PreviewInv)
<1>1. Init => PreviewInv
  <2> SUFFICES ASSUME Init PROVE PreviewInv
    OBVIOUS
  <2>1. /\ scene = [i \in Waypoint |-> NoJoints] /\ shown = 0 /\ drawn = NotDrawn
    BY DEF Init
  <2>2. \A i \in Waypoint : ~(i < 0)
    BY DEF Waypoint
  <2>3. SceneIsShown
    BY <2>1, <2>2 DEF SceneIsShown
  <2>4. PreviewFollowsPath
    BY <2>1 DEF PreviewFollowsPath
  <2>5. QED
    BY <2>1, <2>3, <2>4, PointsAssumption DEF PreviewInv
<1>2. PlanInv /\ PreviewInv /\ [Next]_vars => PreviewInv'
  <2> SUFFICES ASSUME PlanInv, PreviewInv, [Next]_vars PROVE PreviewInv'
    OBVIOUS
  <2>1. ASSUME NEW m \in MaxPoints, NEW failed \in BOOLEAN, ShowPreview(m, failed)
        PROVE  PreviewInv'
    BY <2>1, ShowKeepsPreview
  <2>2. CASE ClearPreview
    BY <2>2, ClearKeepsPreview
  <2>3. ASSUME UNCHANGED <<scene, shown, drawn>>,
               drawn = NotDrawn \/ UNCHANGED <<request, result>>
        PROVE  PreviewInv'
    <3>1. CASE drawn = NotDrawn
      BY <2>3, <3>1 DEF PreviewInv, SceneIsShown, PreviewFollowsPath
    <3>2. CASE UNCHANGED <<request, result>>
      BY <2>3, <3>2 DEF PreviewInv, SceneIsShown, PreviewFollowsPath
    <3>3. QED
      BY <2>3, <3>1, <3>2
  <2>4. ASSUME NEW start, NEW wanted, NEW t, Request(start, wanted, t)
        PROVE  PreviewInv'
    BY <2>3, <2>4 DEF Request, PreviewInv
  <2>5. CASE Answered
    BY <2>3, <2>5 DEF Answered, PreviewInv
  <2>6. ASSUME NEW c, Move(c) PROVE PreviewInv'
    BY <2>3, <2>6 DEF Move
  <2>7. CASE UNCHANGED vars
    BY <2>3, <2>7 DEF vars
  <2>8. QED
    BY <2>1, <2>2, <2>4, <2>5, <2>6, <2>7 DEF Next, PlanFrom, PlanOn
<1>3. QED
  BY <1>1, <1>2, PlanInvCorrect, PTL DEF Spec

-----------------------------------------------------------------------------
(***************************************************************************)
(* The theorems.                                                           *)
(***************************************************************************)

\* A plan starts where its caller asked, and so at the end of the trajectory it is
\* chained onto, whatever is left in a shared Extra map and wherever the arm
\* moves meanwhile (kinematics/trajectory.go:17-20, verify/plan.go:58-61).
THEOREM PlansStartAsAsked == Spec => []StartsAsAsked
<1>1. PlanInv => StartsAsAsked
  BY DEF PlanInv
<1>2. QED
  BY <1>1, PlanInvCorrect, PTL

\* A plan without start joints, by a caller that shares no map, starts at the
\* joints the arm has when it is made (verify/plan.go:58-61, 74-77).
THEOREM NilStartsAreCurrent == Spec => NilStartIsCurrent
<1>1. PlanInv /\ [Next]_vars =>
        (request /= NoRequest /\ request' = NoRequest /\ asked = NoJoints /\ ~shares
           => StartAt(JointSteps(result'.trajectory), joints))
  <2> SUFFICES ASSUME PlanInv, [Next]_vars, request /= NoRequest,
                      request' = NoRequest, asked = NoJoints, ~shares
               PROVE  StartAt(JointSteps(result'.trajectory), joints)
    OBVIOUS
  <2>1. Answered
    BY DEF Next, PlanFrom, PlanOn, Request, Move, ShowPreview, ClearPreview, vars
  <2>2. CASE result' = Nothing
    BY <2>2, NothingIsEmpty
  <2>3. ASSUME NEW partial \in BOOLEAN, NEW p \in Trajectory,
               Planned(p), result' = ParsePlanResponse(partial, p)
        PROVE  StartAt(JointSteps(result'.trajectory), joints)
    BY <2>3 DEF ParsePlanResponse, Planned, PlanInv, CarriesWhatWasAsked
  <2>4. QED
    BY <2>1, <2>2, <2>3 DEF Answered
<1>2. QED
  BY <1>1, PlanInvCorrect, PTL DEF Spec, NilStartIsCurrent

\* The variables keep their types: what reaches the planner as a start state is
\* one, and no preview outgrows the longest trajectory.
THEOREM PlanningTyped == Spec => []TypeOK
<1>1. PlanInv /\ PreviewInv => TypeOK
  <2> SUFFICES ASSUME PlanInv, PreviewInv PROVE TypeOK
    OBVIOUS
  <2>1. \A e \in {extra, request} \ {NoRequest} : MapTyped(e)
    BY DEF PlanInv, CarriesWhatWasAsked
  <2>2. QED
    BY <2>1 DEF PlanInv, PreviewInv, TypeOK, MapTyped
<1>2. QED
  BY <1>1, PreviewInvCorrect, PTL

\* The waypoints in the scene are those of the preview on show; a longer one
\* before it leaves none behind (viz/plan.go:43-63, 99-109).
THEOREM NoWaypointIsLeft == Spec => []SceneIsShown
<1>1. PreviewInv => SceneIsShown
  BY DEF PreviewInv
<1>2. QED
  BY <1>1, PreviewInvCorrect, PTL

\* A preview is the arm's steps at the finest stride that fits maxPoints, in their
\* order, and the goal behind them, less what forward kinematics fails at; it is
\* empty without kinematics (verify/trajectory.go:28-35).
THEOREM PreviewIsFaithful == Spec => []PreviewFollowsPath
<1>1. PreviewInv => PreviewFollowsPath
  BY DEF PreviewInv
<1>2. QED
  BY <1>1, PreviewInvCorrect, PTL
=============================================================================
