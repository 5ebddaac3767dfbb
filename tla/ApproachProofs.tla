--------------------------- MODULE ApproachProofs ---------------------------
(***************************************************************************)
(* Proofs about Approach, for every resolution of angles and every pair of *)
(* offsets.                                                                *)
(*                                                                         *)
(* Angles are compared up to whole turns: the wraps change an angle by     *)
(* whole turns only, sums and mirror images respect this, and the pose     *)
(* depends on nothing else.                                                *)
(***************************************************************************)
EXTENDS Approach, TLAPS

\* The same angle up to whole turns.
Congruent(a, b) == \E k \in Int : a = b + k * Turn

LEMMA TurnFact == HalfTurn \in Nat /\ HalfTurn >= 1 /\ Turn \in Nat /\ Turn >= 2
BY HalfTurnAssumption DEF Turn

-----------------------------------------------------------------------------
(***************************************************************************)
(* Congruence.                                                             *)
(***************************************************************************)

LEMMA CongruentReflexive == \A a \in Int : Congruent(a, a)
<1> SUFFICES ASSUME NEW a \in Int PROVE Congruent(a, a)
  OBVIOUS
<1>1. a = a + 0 * Turn
  BY TurnFact
<1>2. QED
  BY <1>1 DEF Congruent

LEMMA CongruentSum ==
  ASSUME NEW a \in Int, NEW b \in Int, NEW c \in Int, NEW d \in Int,
         Congruent(a, b), Congruent(c, d)
  PROVE  Congruent(a + c, b + d)
<1>1. PICK k \in Int : a = b + k * Turn
  BY DEF Congruent
<1>2. PICK m \in Int : c = d + m * Turn
  BY DEF Congruent
<1>3. a + c = b + d + (k + m) * Turn
  BY <1>1, <1>2, TurnFact
<1>4. k + m \in Int
  OBVIOUS
<1>5. QED
  BY <1>3, <1>4 DEF Congruent

LEMMA CongruentMirrored ==
  ASSUME NEW a \in Int, NEW b \in Int, Congruent(a, b)
  PROVE  Congruent(-a, -b)
<1>1. PICK k \in Int : a = b + k * Turn
  BY DEF Congruent
<1>2. -a = -b + (-k) * Turn
  BY <1>1, TurnFact
<1>3. -k \in Int
  OBVIOUS
<1>4. QED
  BY <1>2, <1>3 DEF Congruent

LEMMA CongruentTransitive ==
  ASSUME NEW a \in Int, NEW b \in Int, NEW c \in Int,
         Congruent(a, b), Congruent(b, c)
  PROVE  Congruent(a, c)
<1>1. PICK k \in Int : a = b + k * Turn
  BY DEF Congruent
<1>2. PICK m \in Int : b = c + m * Turn
  BY DEF Congruent
<1>3. a = c + (k + m) * Turn
  BY <1>1, <1>2, TurnFact
<1>4. k + m \in Int
  OBVIOUS
<1>5. QED
  BY <1>3, <1>4 DEF Congruent

\* Less than a turn apart and congruent is equal.
LEMMA CongruentClose ==
  ASSUME NEW a \in Int, NEW b \in Int, Congruent(a, b), a - b < Turn, b - a < Turn
  PROVE  a = b
<1>1. PICK k \in Int : a = b + k * Turn
  BY DEF Congruent
<1>2. CASE k >= 1
  <2>1. k * Turn >= Turn
    BY <1>2, TurnFact
  <2>2. QED
    BY <1>1, <2>1, TurnFact
<1>3. CASE k <= -1
  <2>1. (-k) * Turn >= Turn
    BY <1>3, TurnFact
  <2>2. QED
    BY <1>1, <2>1, TurnFact
<1>4. CASE k = 0
  BY <1>1, <1>4, TurnFact
<1>5. QED
  BY <1>2, <1>3, <1>4

-----------------------------------------------------------------------------
(***************************************************************************)
(* What the wraps do.                                                      *)
(***************************************************************************)

\* A direction is named by one angle of a turn.
LEMMA PrincipalIs ==
  ASSUME NEW a \in Int
  PROVE  /\ Principal(a) \in -HalfTurn + 1 .. HalfTurn
         /\ Congruent(Principal(a), a)
<1> DEFINE x == a + HalfTurn - 1
<1>1. x \in Int
  BY TurnFact
<1>2. x = Turn * (x \div Turn) + (x % Turn) /\ x % Turn \in 0 .. Turn - 1 /\ x \div Turn \in Int
  BY <1>1, TurnFact
<1>3. Principal(a) = (x % Turn) - HalfTurn + 1
  BY DEF Principal
<1>4. Turn = 2 * HalfTurn
  BY DEF Turn
<1> HIDE DEF x
<1>5. Principal(a) \in -HalfTurn + 1 .. HalfTurn
  BY <1>2, <1>3, <1>4, TurnFact
<1>6. Principal(a) = x - HalfTurn + 1 + (-(x \div Turn)) * Turn
  <2>1. \A q \in Int : Turn * q + (-q) * Turn = 0
    BY TurnFact
  <2>2. PICK p \in Int : p = Turn * (x \div Turn)
    BY <1>2, TurnFact
  <2>3. PICK n \in Int : n = (-(x \div Turn)) * Turn
    BY <1>2, TurnFact
  <2>4. p + n = 0
    BY <1>2, <2>1, <2>2, <2>3
  <2>5. PICK r \in Int : r = x % Turn
    BY <1>2
  <2>6. x = p + r
    BY <1>2, <2>2, <2>5
  <2>7. r - HalfTurn + 1 = x - HalfTurn + 1 + n
    BY <1>1, <2>4, <2>6, TurnFact
  <2>8. QED
    BY <1>3, <2>3, <2>5, <2>7
<1>7. x - HalfTurn + 1 = a
  BY TurnFact DEF x
<1>8. Principal(a) = a + (-(x \div Turn)) * Turn /\ -(x \div Turn) \in Int
  BY <1>2, <1>6, <1>7
<1>9. QED
  BY <1>5, <1>8 DEF Congruent

\* And by the same one however it is written.
LEMMA PrincipalSame ==
  ASSUME NEW a \in Int, NEW b \in Int, Congruent(a, b)
  PROVE  Principal(a) = Principal(b)
<1>1. Principal(a) \in Int /\ Principal(b) \in Int
  BY PrincipalIs, TurnFact
<1>2. Congruent(Principal(a), a) /\ Congruent(Principal(b), b)
  BY PrincipalIs
<1>3. Congruent(Principal(a), b)
  BY <1>1, <1>2, CongruentTransitive
<1>4. Congruent(-Principal(b), -b)
  BY <1>1, <1>2, CongruentMirrored
<1>5. Congruent(Principal(a) + -Principal(b), b + -b)
  BY <1>1, <1>3, <1>4, CongruentSum
<1>6. Principal(a) + -Principal(b) \in Int /\ b + -b = 0
  BY <1>1
<1>7. Principal(a) + -Principal(b) < Turn /\ -(Principal(a) + -Principal(b)) < Turn
  <2>1. Turn = 2 * HalfTurn
    BY DEF Turn
  <2>2. QED
    BY <1>1, <2>1, PrincipalIs, TurnFact
<1>8. Principal(a) + -Principal(b) = 0
  <2> DEFINE d == Principal(a) + -Principal(b)
  <2>1. d \in Int /\ Congruent(d, 0) /\ d - 0 < Turn /\ 0 - d < Turn
    BY <1>5, <1>6, <1>7
  <2> HIDE DEF d
  <2>2. d = 0
    BY <2>1, CongruentClose
  <2>3. QED
    BY <2>2 DEF d
<1>9. QED
  BY <1>1, <1>8

\* The loop that subtracts turns ends within a turn below the bound.
LEMMA LoweredIs ==
  ASSUME NEW v \in Int, NEW bound \in Int
  PROVE  /\ Lowered(v, bound) \in Int
         /\ Lowered(v, bound) <= bound
         /\ v > bound => Lowered(v, bound) > bound - Turn
         /\ v <= bound => Lowered(v, bound) = v
         /\ Congruent(Lowered(v, bound), v)
<1>1. CASE v <= bound
  BY <1>1, CongruentReflexive DEF Lowered
<1>2. CASE v > bound
  <2> DEFINE x == v - bound + Turn - 1
             q == x \div Turn
  <2>1. x \in Int /\ x = v - bound + Turn - 1
    BY TurnFact
  <2>2. x = Turn * (x \div Turn) + (x % Turn) /\ x % Turn \in 0 .. Turn - 1
        /\ x \div Turn \in Int
    <3> HIDE DEF x
    <3>1. QED
      BY <2>1, TurnFact
  <2>3. Lowered(v, bound) = v - Turn * q
    BY <1>2 DEF Lowered
  <2> HIDE DEF x, q
  <2>4. PICK p \in Int : p = Turn * q
    BY <2>2, TurnFact DEF q
  <2>5. PICK r \in 0 .. Turn - 1 : r = x % Turn
    BY <2>2
  <2>6. v - bound + Turn - 1 = p + r
    BY <2>1, <2>2, <2>4, <2>5 DEF q
  <2>7. v - p \in Int /\ v - p <= bound /\ v - p > bound - Turn
    BY <2>4, <2>5, <2>6, TurnFact
  <2>8. q \in Int /\ v - Turn * q = v + (-q) * Turn /\ -q \in Int
    <3>1. q \in Int
      BY <2>2 DEF q
    <3>2. QED
      BY <3>1, TurnFact
  <2>9. Congruent(Lowered(v, bound), v)
    BY <2>3, <2>8 DEF Congruent
  <2>10. QED
    BY <1>2, <2>3, <2>4, <2>7, <2>9
<1>3. QED
  BY <1>1, <1>2

\* The mirrored loop.
LEMMA RaisedIs ==
  ASSUME NEW v \in Int, NEW bound \in Int
  PROVE  /\ Raised(v, bound) \in Int
         /\ Raised(v, bound) >= bound
         /\ v < bound => Raised(v, bound) < bound + Turn
         /\ v >= bound => Raised(v, bound) = v
         /\ Congruent(Raised(v, bound), v)
<1> DEFINE w == -v
           c == -bound
           l == Lowered(w, c)
<1>1. w \in Int /\ c \in Int
  OBVIOUS
<1>2. /\ l \in Int /\ l <= c
      /\ w > c => l > c - Turn
      /\ w <= c => l = w
      /\ Congruent(l, w)
  <2> HIDE DEF w, c
  <2>1. QED
    BY <1>1, LoweredIs
<1>3. Raised(v, bound) = -l
  BY DEF Raised
<1> HIDE DEF l
<1>4. Congruent(-l, -w)
  BY <1>1, <1>2, CongruentMirrored
<1>5. -w = v
  OBVIOUS
<1>6. QED
  BY <1>2, <1>3, <1>4, <1>5, TurnFact

\* The two loops together, for a bound of half a turn at least: what is in range
\* stays, what is not ends in range, congruent.
LEMMA WrapIs ==
  ASSUME NEW v \in Int, NEW bound \in Int, 2 * bound >= Turn
  PROVE  LET w == Raised(Lowered(v, bound), -bound) IN
           /\ w \in -bound .. bound
           /\ v \in -bound .. bound => w = v
           /\ v > bound => w > bound - Turn
           /\ v < -bound => w < Turn - bound
           /\ Congruent(w, v)
<1> DEFINE l == Lowered(v, bound)
           b == -bound
           w == Raised(l, b)
<1>1. b \in Int
  OBVIOUS
<1>2. /\ l \in Int /\ l <= bound
      /\ v > bound => l > bound - Turn
      /\ v <= bound => l = v
      /\ Congruent(l, v)
  BY LoweredIs
<1> HIDE DEF l
<1>3. /\ w \in Int /\ w >= b
      /\ l < b => w < b + Turn
      /\ l >= b => w = l
      /\ Congruent(w, l)
  <2> HIDE DEF b
  <2>1. QED
    BY <1>1, <1>2, RaisedIs
<1> HIDE DEF w
<1>4. Congruent(w, v)
  BY <1>2, <1>3, CongruentTransitive
<1>5. w \in -bound .. bound
  BY <1>2, <1>3, TurnFact
<1>6. v \in -bound .. bound => w = v
  BY <1>2, <1>3
<1>7. v > bound => w > bound - Turn
  BY <1>2, <1>3, TurnFact
<1>8. v < -bound => w < Turn - bound
  BY <1>2, <1>3, TurnFact
<1>9. QED
  BY <1>4, <1>5, <1>6, <1>7, <1>8 DEF w, l

LEMMA PathIs ==
  ASSUME NEW d \in Int
  PROVE  wrapToShortestPath(d) \in -HalfTurn .. HalfTurn /\ Congruent(wrapToShortestPath(d), d)
<1>1. HalfTurn \in Int /\ 2 * HalfTurn >= Turn
  BY TurnFact DEF Turn
<1>2. QED
  BY <1>1, WrapIs DEF wrapToShortestPath

LEMMA RotationIs ==
  ASSUME NEW v \in Int
  PROVE  /\ wrapJointRotation(v) \in JointRange
         /\ v \in JointRange => wrapJointRotation(v) = v
         /\ v > Turn => wrapJointRotation(v) > 0
         /\ v < -Turn => wrapJointRotation(v) < 0
         /\ Congruent(wrapJointRotation(v), v)
<1>1. Turn \in Int /\ 2 * Turn >= Turn
  BY TurnFact
<1>2. QED
  BY <1>1, WrapIs, TurnFact DEF wrapJointRotation, JointRange

-----------------------------------------------------------------------------
(***************************************************************************)
(* What the helpers compute.                                               *)
(***************************************************************************)

\* From a pose that is that of the joints, the target is reached, in range.
LEMMA PreRotatedIs ==
  ASSUME NEW j \in SixJoints, NEW s \in SignConvention,
         NEW a \in Int, NEW y \in Int, NEW ta \in Int, NEW ty \in Int
  PROVE  LET r == PreRotatedJoints(j, a, y, ta, ty, s) IN
           /\ r \in SixJoints
           /\ /\ Congruent(a, s * j[0] + BaseOffset)
              /\ Congruent(y, s * (j[0] + j[5]) + YawOffset)
              => /\ Congruent(s * r[0] + BaseOffset, ta)
                 /\ Congruent(s * (r[0] + r[5]) + YawOffset, ty)
<1> DEFINE d0 == wrapToShortestPath(ta - a)
           dy == wrapToShortestPath(ty - y)
           r0 == wrapJointRotation(j[0] + s * d0)
           r5 == wrapJointRotation(j[5] + (s * dy - s * d0))
           r == PreRotatedJoints(j, a, y, ta, ty, s)
<1>1. j[0] \in Int /\ j[5] \in Int /\ DOMAIN j = {0, 5} /\ s \in {-1, 1}
  BY TurnFact DEF SixJoints, JointRange, SignConvention
<1>2. d0 \in Int /\ Congruent(d0, ta - a)
  BY PathIs, TurnFact
<1>3. dy \in Int /\ Congruent(dy, ty - y)
  BY PathIs, TurnFact
<1> HIDE DEF d0, dy
<1>4. r0 \in JointRange /\ Congruent(r0, j[0] + s * d0)
  BY <1>1, <1>2, RotationIs
<1>5. r5 \in JointRange /\ Congruent(r5, j[5] + (s * dy - s * d0))
  BY <1>1, <1>2, <1>3, RotationIs
<1>6. r = [j EXCEPT ![0] = r0, ![5] = r5]
  BY <1>1 DEF PreRotatedJoints, d0, dy
<1> HIDE DEF r0, r5, r
<1>7. r \in SixJoints /\ r[0] = r0 /\ r[5] = r5
  BY <1>1, <1>4, <1>5, <1>6 DEF SixJoints
<1>8. r0 \in Int /\ r5 \in Int
  BY <1>4, <1>5, TurnFact DEF JointRange
<1>9. ASSUME Congruent(a, s * j[0] + BaseOffset)
      PROVE  Congruent(s * r0 + BaseOffset, ta)
  <2>1. PICK k \in Int : a = s * j[0] + BaseOffset + k * Turn
    BY <1>9 DEF Congruent
  <2>2. PICK m \in Int : d0 = ta - a + m * Turn
    BY <1>2 DEF Congruent
  <2>3. PICK n \in Int : r0 = j[0] + s * d0 + n * Turn
    BY <1>4 DEF Congruent
  <2>4. s * r0 + BaseOffset = ta + (m - k + s * n) * Turn
    <3> USE <1>1, <1>2, <1>8, <2>1, <2>2, <2>3, OffsetAssumption, TurnFact
    <3>1. CASE s = 1
      BY <3>1
    <3>2. CASE s = -1
      BY <3>2
    <3>3. QED
      BY <3>1, <3>2
  <2>5. m - k + s * n \in Int
    BY <1>1
  <2>6. QED
    BY <2>4, <2>5 DEF Congruent
<1>10. ASSUME Congruent(y, s * (j[0] + j[5]) + YawOffset)
       PROVE  Congruent(s * (r0 + r5) + YawOffset, ty)
  <2>1. PICK k \in Int : y = s * (j[0] + j[5]) + YawOffset + k * Turn
    BY <1>10 DEF Congruent
  <2>2. PICK m \in Int : dy = ty - y + m * Turn
    BY <1>3 DEF Congruent
  <2>3. PICK n \in Int : r0 = j[0] + s * d0 + n * Turn
    BY <1>4 DEF Congruent
  <2>4. PICK p \in Int : r5 = j[5] + (s * dy - s * d0) + p * Turn
    BY <1>5 DEF Congruent
  <2>5. s * (r0 + r5) + YawOffset = ty + (m - k + s * (n + p)) * Turn
    <3> USE <1>1, <1>2, <1>3, <1>8, <2>1, <2>2, <2>3, <2>4, OffsetAssumption, TurnFact
    <3>1. CASE s = 1
      BY <3>1
    <3>2. CASE s = -1
      <4>1. r0 + r5 = j[0] + j[5] - dy + n * Turn + p * Turn
        BY <3>2
      <4>2. -(r0 + r5) + YawOffset = ty + m * Turn - k * Turn - n * Turn - p * Turn
        BY <3>2, <4>1
      <4>3. m * Turn - k * Turn - n * Turn - p * Turn = (m - k + (-1) * (n + p)) * Turn
        OBVIOUS
      <4>4. QED
        BY <3>2, <4>2, <4>3
    <3>3. QED
      BY <3>1, <3>2
  <2>6. m - k + s * (n + p) \in Int
    BY <1>1
  <2>7. QED
    BY <2>5, <2>6 DEF Congruent
<1>11. QED
  BY <1>7, <1>9, <1>10 DEF r

\* Only the wrist turns, to the yaw asked for.
LEMMA AlignedIs ==
  ASSUME NEW j \in SixJoints, NEW s \in SignConvention, NEW y \in Int, NEW ty \in Int,
         Congruent(y, s * (j[0] + j[5]) + YawOffset)
  PROVE  LET r == AlignStartJointsToPlaceYaw(j, y, ty, s) IN
           /\ r \in SixJoints /\ r[0] = j[0]
           /\ Congruent(s * (r[0] + r[5]) + YawOffset, ty)
<1> DEFINE dy == wrapToShortestPath(ty - y)
           r5 == wrapJointRotation(j[5] + s * dy)
           r == AlignStartJointsToPlaceYaw(j, y, ty, s)
<1>1. j[0] \in Int /\ j[5] \in Int /\ DOMAIN j = {0, 5} /\ s \in {-1, 1}
  BY TurnFact DEF SixJoints, JointRange, SignConvention
<1>2. dy \in Int /\ Congruent(dy, ty - y)
  BY PathIs, TurnFact
<1> HIDE DEF dy
<1>3. r5 \in JointRange /\ Congruent(r5, j[5] + s * dy)
  BY <1>1, <1>2, RotationIs
<1>4. r = [j EXCEPT ![5] = r5]
  BY <1>1 DEF AlignStartJointsToPlaceYaw, dy
<1> HIDE DEF r5, r
<1>5. r \in SixJoints /\ r[0] = j[0] /\ r[5] = r5
  BY <1>1, <1>3, <1>4 DEF SixJoints
<1>6. r5 \in Int
  BY <1>3, TurnFact DEF JointRange
<1>7. PICK k \in Int : y = s * (j[0] + j[5]) + YawOffset + k * Turn
  BY DEF Congruent
<1>8. PICK m \in Int : dy = ty - y + m * Turn
  BY <1>2 DEF Congruent
<1>9. PICK p \in Int : r5 = j[5] + s * dy + p * Turn
  BY <1>3 DEF Congruent
<1>10. s * (j[0] + r5) + YawOffset = ty + (m - k + s * p) * Turn
  <2> USE <1>1, <1>2, <1>6, <1>7, <1>8, <1>9, OffsetAssumption, TurnFact
  <2>1. CASE s = 1
    BY <2>1
  <2>2. CASE s = -1
    BY <2>2
  <2>3. QED
    BY <2>1, <2>2
<1>11. m - k + s * p \in Int
  BY <1>1
<1>12. Congruent(s * (r[0] + r[5]) + YawOffset, ty)
  BY <1>5, <1>10, <1>11 DEF Congruent
<1>13. QED
  BY <1>5, <1>12 DEF r

-----------------------------------------------------------------------------
(***************************************************************************)
(* The invariant.                                                          *)
(***************************************************************************)

\* A pose is only there once joints have been read.
Inv == TypeOK /\ OnGoal /\ (pose /= NoPose => seen /= NoJoints)

\* The angles in play.
LEMMA AnglesAre ==
  ASSUME sign \in SignConvention, NEW j \in SixJoints \union FewJoints
  PROVE  /\ sign * j[0] + BaseOffset \in Int
         /\ sign * (j[0] + Wrist(j)) + YawOffset \in Int
         /\ Angle(j) \in JointRange /\ Yaw(j) \in JointRange
         /\ Congruent(Angle(j), sign * j[0] + BaseOffset)
         /\ Congruent(Yaw(j), sign * (j[0] + Wrist(j)) + YawOffset)
<1>1. j[0] \in Int /\ Wrist(j) \in Int /\ sign \in {-1, 1}
  BY TurnFact DEF SixJoints, FewJoints, JointRange, Wrist, SignConvention
<1>2. sign * j[0] + BaseOffset \in Int /\ sign * (j[0] + Wrist(j)) + YawOffset \in Int
  BY <1>1, OffsetAssumption
<1>3. \A x \in -HalfTurn + 1 .. HalfTurn : x \in JointRange
  BY TurnFact DEF JointRange, Turn
<1>4. QED
  BY <1>2, <1>3, PrincipalIs DEF Angle, Yaw

\* Facing compares angles up to whole turns.
LEMMA FacingSame ==
  ASSUME NEW a \in Int, NEW b \in Int, NEW y \in Int, NEW z \in Int,
         Congruent(a, b), Congruent(y, z)
  PROVE  Facing(a, y) = Facing(b, z)
BY PrincipalSame DEF Facing

\* Facing is a pair of angles in range.
LEMMA FacingIs ==
  ASSUME NEW a \in Int, NEW y \in Int
  PROVE  /\ DOMAIN Facing(a, y) = {"angle", "yaw"}
         /\ Facing(a, y).angle \in JointRange /\ Facing(a, y).yaw \in JointRange
         /\ Congruent(Facing(a, y).angle, a) /\ Congruent(Facing(a, y).yaw, y)
<1>1. \A x \in -HalfTurn + 1 .. HalfTurn : x \in JointRange
  BY TurnFact DEF JointRange, Turn
<1>2. QED
  BY <1>1, PrincipalIs DEF Facing

\* The pose read is that of the joints, whichever way the gripper points.
LEMMA PoseIs ==
  ASSUME sign \in SignConvention, NEW j \in SixJoints \union FewJoints, NEW d \in BOOLEAN
  PROVE  PoseOf(j, d) = [angle |-> Angle(j), yaw |-> Yaw(j)]
<1>1. Yaw(j) \in Int
  BY AnglesAre, TurnFact DEF JointRange
<1>2. -(-Yaw(j)) = Yaw(j)
  BY <1>1
<1>3. YawFromOrientation(Orientation(j, d)) = Yaw(j)
  BY <1>2 DEF YawFromOrientation, Orientation
<1>4. QED
  BY <1>3 DEF PoseOf

\* A pre-rotation lands in range, and on its goal if it has one.
LEMMA PreRotateKeeps ==
  ASSUME Inv, NEW ta \in Int, NEW ty \in Int, PreRotate(ta, ty)
  PROVE  Inv'
<1> USE DEF Inv, TypeOK
<1> DEFINE r == PreRotatedJoints(seen, pose.angle, pose.yaw, ta, ty, sign)
<1>1. /\ seen \in SixJoints \union FewJoints
      /\ jointPositions' = r
      /\ sign' = sign /\ seen' = NoJoints /\ pose' = NoPose
      /\ pose.angle \in Int /\ pose.yaw \in Int
  BY TurnFact DEF PreRotate, MoveToJointPositions, JointRange
<1> HIDE DEF r
<1>2. r \in SixJoints \union FewJoints
  <2>1. CASE seen \in SixJoints
    BY <1>1, <2>1, PreRotatedIs DEF r
  <2>2. CASE seen \in FewJoints
    BY <1>1, <2>2 DEF r, PreRotatedJoints, FewJoints
  <2>3. QED
    BY <1>1, <2>1, <2>2
<1>3. goal' = NoPose \/ goal' = Facing(ta, ty)
  BY DEF PreRotate
<1>4. goal' /= NoPose => goal' = Facing(Angle(r), Yaw(r))
  <2> SUFFICES ASSUME goal' /= NoPose PROVE goal' = Facing(Angle(r), Yaw(r))
    OBVIOUS
  <2>1. /\ goal' = Facing(ta, ty) /\ 5 \in DOMAIN seen
        /\ pose = Facing(Angle(seen), Yaw(seen))
    BY DEF PreRotate
  <2>2. seen \in SixJoints /\ Wrist(seen) = seen[5]
    BY <1>1, <2>1 DEF FewJoints, Wrist
  <2>3. /\ seen[0] \in Int /\ seen[5] \in Int
        /\ sign * seen[0] + BaseOffset \in Int /\ sign * (seen[0] + seen[5]) + YawOffset \in Int
        /\ Angle(seen) \in Int /\ Yaw(seen) \in Int
        /\ Congruent(Angle(seen), sign * seen[0] + BaseOffset)
        /\ Congruent(Yaw(seen), sign * (seen[0] + seen[5]) + YawOffset)
    BY <2>2, AnglesAre, TurnFact DEF JointRange, SixJoints
  <2>4. Congruent(pose.angle, Angle(seen)) /\ Congruent(pose.yaw, Yaw(seen))
    BY <2>1, <2>3, FacingIs
  <2>5. /\ Congruent(pose.angle, sign * seen[0] + BaseOffset)
        /\ Congruent(pose.yaw, sign * (seen[0] + seen[5]) + YawOffset)
    BY <1>1, <2>3, <2>4, CongruentTransitive
  <2>6. /\ r \in SixJoints
        /\ Congruent(sign * r[0] + BaseOffset, ta)
        /\ Congruent(sign * (r[0] + r[5]) + YawOffset, ty)
    BY <1>1, <2>2, <2>5, PreRotatedIs DEF r
  <2>7. Wrist(r) = r[5]
    BY <2>6 DEF Wrist, SixJoints
  <2>8. /\ sign * r[0] + BaseOffset \in Int /\ sign * (r[0] + r[5]) + YawOffset \in Int
        /\ Angle(r) \in Int /\ Yaw(r) \in Int
        /\ Congruent(Angle(r), sign * r[0] + BaseOffset)
        /\ Congruent(Yaw(r), sign * (r[0] + r[5]) + YawOffset)
    BY <2>6, <2>7, AnglesAre, TurnFact DEF JointRange
  <2>9. Congruent(Angle(r), ta) /\ Congruent(Yaw(r), ty)
    BY <2>6, <2>8, CongruentTransitive
  <2>10. QED
    BY <2>1, <2>8, <2>9, FacingSame
<1>5. goal' /= NoPose => /\ DOMAIN goal' = {"angle", "yaw"}
                         /\ goal'.angle \in JointRange /\ goal'.yaw \in JointRange
  BY <1>3, FacingIs
<1>6. QED
  BY <1>1, <1>2, <1>4, <1>5 DEF OnGoal, Angle, Yaw

\* So does a replay.
LEMMA ReplayKeeps ==
  ASSUME Inv, NEW saved \in SixJoints, NEW ty \in Int, Replay(saved, ty)
  PROVE  Inv'
<1> USE DEF Inv, TypeOK
<1>1. PICK d \in BOOLEAN :
        jointPositions' = AlignStartJointsToPlaceYaw(saved, PoseOf(saved, d).yaw, ty, sign)
  BY DEF Replay, MoveToJointPositions
<1> DEFINE r == AlignStartJointsToPlaceYaw(saved, Yaw(saved), ty, sign)
<1>2. jointPositions' = r
  BY <1>1, PoseIs
<1>3. Wrist(saved) = saved[5]
  BY DEF Wrist, SixJoints
<1>4. /\ Angle(saved) \in Int /\ Yaw(saved) \in Int
      /\ Congruent(Yaw(saved), sign * (saved[0] + saved[5]) + YawOffset)
  BY <1>3, AnglesAre, TurnFact DEF JointRange
<1>5. /\ r \in SixJoints /\ r[0] = saved[0]
      /\ Congruent(sign * (r[0] + r[5]) + YawOffset, ty)
  BY <1>4, AlignedIs
<1> HIDE DEF r
<1>6. Wrist(r) = r[5]
  BY <1>5 DEF Wrist, SixJoints
<1>7. /\ sign * (r[0] + r[5]) + YawOffset \in Int
      /\ Yaw(r) \in Int /\ Congruent(Yaw(r), sign * (r[0] + r[5]) + YawOffset)
  BY <1>5, <1>6, AnglesAre, TurnFact DEF JointRange
<1>8. Congruent(Yaw(r), ty)
  BY <1>5, <1>7, CongruentTransitive
<1>9. Angle(r) = Angle(saved) /\ Congruent(Angle(r), Angle(r))
  BY <1>4, <1>5, CongruentReflexive DEF Angle
<1>10. goal' = Facing(Angle(r), Yaw(r))
  BY <1>4, <1>7, <1>8, <1>9, FacingSame DEF Replay
<1>11. /\ DOMAIN goal' = {"angle", "yaw"}
       /\ goal'.angle \in JointRange /\ goal'.yaw \in JointRange
  BY <1>4, <1>7, <1>9, <1>10, FacingIs
<1>12. QED
  BY <1>2, <1>5, <1>10, <1>11 DEF Replay, OnGoal, Angle, Yaw

\* Inv is inductive.
LEMMA InvCorrect == Spec => []Inv
<1>1. Init => Inv
  BY DEF Init, Inv, TypeOK, OnGoal
<1>2. Inv /\ [Next]_vars => Inv'
  <2> SUFFICES ASSUME Inv, [Next]_vars PROVE Inv'
    OBVIOUS
  <2>1. CASE ReadJoints
    BY <2>1 DEF ReadJoints, Inv, TypeOK, OnGoal, Angle, Yaw
  <2>2. CASE ReadPose
    <3>1. PICK d \in BOOLEAN : pose' = PoseOf(jointPositions, d)
      BY <2>2 DEF ReadPose
    <3>2. pose' = [angle |-> Angle(jointPositions), yaw |-> Yaw(jointPositions)]
      BY <3>1, PoseIs DEF Inv, TypeOK
    <3>3. Angle(jointPositions) \in JointRange /\ Yaw(jointPositions) \in JointRange
      BY AnglesAre DEF Inv, TypeOK
    <3>4. QED
      BY <2>2, <3>2, <3>3 DEF ReadPose, Inv, TypeOK, OnGoal, Angle, Yaw
  <2>3. ASSUME NEW ta \in -HalfTurn .. HalfTurn, NEW ty \in JointRange, PreRotate(ta, ty)
        PROVE  Inv'
    <3>1. ta \in Int /\ ty \in Int
      BY TurnFact DEF JointRange
    <3>2. QED
      BY <2>3, <3>1, PreRotateKeeps
  <2>4. ASSUME NEW saved \in SixJoints, NEW ty \in JointRange, Replay(saved, ty)
        PROVE  Inv'
    <3>1. ty \in Int
      BY TurnFact DEF JointRange
    <3>2. QED
      BY <2>4, <3>1, ReplayKeeps
  <2>5. ASSUME NEW j \in Near(jointPositions), Jog(j) PROVE Inv'
    <3>1. j \in SixJoints \union FewJoints
      BY DEF Near
    <3>2. jointPositions' = j \/ jointPositions' = jointPositions
      <4>1. \A path \in {<<>>, <<jointPositions, j>>} :
              path /= <<>> => path[Len(path)] = j
        OBVIOUS
      <4>2. QED
        BY <2>5, <4>1 DEF Jog, SetJointPositions, GoToInputs, MoveThroughJointPositions,
                          MoveToJointPositions
    <3>3. QED
      BY <2>5, <3>1, <3>2 DEF Jog, Inv, TypeOK, OnGoal
  <2>6. CASE UNCHANGED vars
    BY <2>6 DEF vars, Inv, TypeOK, OnGoal, Angle, Yaw
  <2>7. QED
    BY <2>1, <2>2, <2>3, <2>4, <2>5, <2>6 DEF Next
<1>3. QED
  BY <1>1, <1>2, PTL DEF Spec

\* No joint is ever commanded out of its range, however many rotations add up
\* (joints.go:167-179).
THEOREM JointsInRange == Spec => []TypeOK
<1>1. Inv => TypeOK
  BY DEF Inv
<1>2. QED
  BY <1>1, InvCorrect, PTL

\* Every pre-rotation from a consistent reading and every replay faces its goal
\* (joints.go:30-46, 112-121).
THEOREM GoalIsFaced == Spec => []OnGoal
<1>1. Inv => OnGoal
  BY DEF Inv
<1>2. QED
  BY <1>1, InvCorrect, PTL

-----------------------------------------------------------------------------
(***************************************************************************)
(* The way the base takes.                                                 *)
(***************************************************************************)

\* Of the positions in range that a turn of at most half a turn is congruent to,
\* the wrapped one is nearest.
LEMMA WrappedIsNearest ==
  ASSUME NEW x \in JointRange, NEW d \in -HalfTurn .. HalfTurn, NEW b \in JointRange,
         (b - wrapJointRotation(x + d)) % Turn = 0
  PROVE  Abs(wrapJointRotation(x + d) - x) <= Abs(b - x)
<1> DEFINE n == wrapJointRotation(x + d)
<1>1. x \in Int /\ d \in Int /\ b \in Int /\ x + d \in Int
      /\ x <= Turn /\ -Turn <= x /\ b <= Turn /\ -Turn <= b
      /\ d + d <= Turn /\ -Turn <= d + d
  BY TurnFact DEF JointRange, Turn
<1>2. /\ n \in Int /\ n <= Turn /\ -Turn <= n
      /\ x + d \in JointRange => n = x + d
      /\ x + d > Turn => n > 0
      /\ x + d < -Turn => n < 0
      /\ Congruent(n, x + d)
  BY <1>1, RotationIs, TurnFact DEF JointRange
<1>3. (b - n) % Turn = 0
  OBVIOUS
<1> HIDE DEF n
<1>4. PICK k \in Int : b = n + k * Turn
  <2> DEFINE e == b - n
  <2>1. e \in Int /\ e % Turn = 0
    BY <1>1, <1>2, <1>3
  <2> HIDE DEF e
  <2>2. e = (e \div Turn) * Turn /\ e \div Turn \in Int
    BY <2>1, TurnFact
  <2>3. b = n + e
    BY <1>1, <1>2 DEF e
  <2>4. QED
    BY <2>2, <2>3
<1>5. PICK z \in Int : z = k * Turn
  BY TurnFact
<1>6. (k = 0 => z = 0) /\ (k >= 1 => z >= Turn) /\ (k <= -1 => z <= -Turn)
  BY <1>5, TurnFact
<1>7. z = 0 \/ z >= Turn \/ z <= -Turn
  BY <1>6
<1>8. b = n + z
  BY <1>4, <1>5
<1>9. Turn \in Int
  BY TurnFact
<1> USE DEF Abs
<1>10. CASE x + d \in JointRange
  BY <1>1, <1>2, <1>7, <1>8, <1>9, <1>10 DEF n
<1>11. CASE x + d > Turn
  <2>1. n = x + d - Turn
    <3>1. Congruent(x + d, x + d + -Turn)
      <4>1. x + d = x + d + -Turn + 1 * Turn
        BY <1>1, <1>9
      <4>2. QED
        BY <4>1 DEF Congruent
    <3>2. Congruent(n, x + d + -Turn)
      BY <1>1, <1>2, <1>9, <3>1, CongruentTransitive
    <3>3. n - (x + d + -Turn) < Turn /\ (x + d + -Turn) - n < Turn
      BY <1>1, <1>2, <1>9, <1>11
    <3>4. x + d + -Turn \in Int
      BY <1>1, <1>9
    <3>5. n = x + d + -Turn
      BY <1>2, <3>2, <3>3, <3>4, CongruentClose
    <3>6. QED
      BY <1>1, <1>9, <3>5
  <2>2. QED
    BY <1>1, <1>7, <1>8, <1>9, <1>11, <2>1 DEF n
<1>12. CASE x + d < -Turn
  <2>1. n = x + d + Turn
    <3>1. Congruent(x + d, x + d + Turn)
      <4>1. x + d = x + d + Turn + (-1) * Turn
        BY <1>1, <1>9
      <4>2. QED
        BY <4>1 DEF Congruent
    <3>2. x + d + Turn \in Int
      BY <1>1, <1>9
    <3>3. Congruent(n, x + d + Turn)
      BY <1>1, <1>2, <3>1, <3>2, CongruentTransitive
    <3>4. n - (x + d + Turn) < Turn /\ (x + d + Turn) - n < Turn
      BY <1>1, <1>2, <1>9, <1>12
    <3>5. QED
      BY <1>2, <3>2, <3>3, <3>4, CongruentClose
  <2>2. QED
    BY <1>1, <1>7, <1>8, <1>9, <1>12, <2>1 DEF n
<1>13. QED
  BY <1>1, <1>10, <1>11, <1>12, <1>9 DEF JointRange

\* From where the caller saw it, the base takes the shortest way its range leaves it
\* (joints.go:66-70).
THEOREM ShortestWay == Spec => BaseTakesShortestWay
<1> DEFINE Short == \A b \in JointRange :
                      (b - jointPositions'[0]) % Turn = 0 =>
                        Abs(jointPositions'[0] - seen[0]) <= Abs(b - seen[0])
<1>1. ASSUME Inv, [Next]_vars, pose /= NoPose, pose' = NoPose
      PROVE  Short
  <2>1. PICK ta \in -HalfTurn .. HalfTurn, ty \in JointRange : PreRotate(ta, ty)
    BY <1>1 DEF Next, ReadJoints, ReadPose, Replay, Jog, vars
  <2> DEFINE d0 == wrapToShortestPath(ta - pose.angle)
  <2>2. /\ seen \in SixJoints \union FewJoints /\ sign \in {-1, 1}
        /\ ta - pose.angle \in Int
        /\ jointPositions' = PreRotatedJoints(seen, pose.angle, pose.yaw, ta, ty, sign)
    BY <1>1, <2>1, TurnFact DEF Inv, TypeOK, PreRotate, MoveToJointPositions, JointRange,
                                SignConvention
  <2>3. CASE seen \in FewJoints
    <3>1. jointPositions' = seen /\ seen[0] \in Int
      BY <2>2, <2>3, TurnFact DEF PreRotatedJoints, FewJoints, JointRange
    <3>2. seen[0] - seen[0] = 0
      BY <3>1
    <3>3. \A b \in JointRange : b - seen[0] \in Int
      BY <3>1, TurnFact DEF JointRange
    <3>4. \A i \in Int : Abs(0) <= Abs(i)
      BY DEF Abs
    <3>5. QED
      BY <3>1, <3>2, <3>3, <3>4
  <2>4. CASE seen \in SixJoints
    <3>1. d0 \in -HalfTurn .. HalfTurn
      BY <2>2, PathIs
    <3> HIDE DEF d0
    <3>2. sign * d0 \in -HalfTurn .. HalfTurn
      <4>1. CASE sign = 1
        BY <3>1, <4>1, TurnFact
      <4>2. CASE sign = -1
        BY <3>1, <4>2, TurnFact
      <4>3. QED
        BY <2>2, <4>1, <4>2
    <3>3. seen[0] \in JointRange /\ 0 \in DOMAIN seen /\ 5 \in DOMAIN seen
      BY <2>4 DEF SixJoints
    <3>4. jointPositions'[0] = wrapJointRotation(seen[0] + sign * d0)
      BY <2>2, <3>3 DEF PreRotatedJoints, d0
    <3>5. QED
      BY <3>2, <3>3, <3>4, WrappedIsNearest
  <2>5. QED
    BY <2>2, <2>3, <2>4
<1>2. Inv /\ [Next]_vars => (pose /= NoPose /\ pose' = NoPose => Short)
  BY <1>1
<1>3. QED
  BY <1>2, InvCorrect, PTL DEF Spec, BaseTakesShortestWay
=============================================================================
