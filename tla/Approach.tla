------------------------------ MODULE Approach ------------------------------
(***************************************************************************)
(* Pre-rotation as its documentation has callers do it (src/kinematics/    *)
(* joints.go): read the arm's joints and the pose of its end effector,     *)
(* compute the joints that face the target, and command them.  The arm is  *)
(* the double in src/fakes/arm.go, whose joints others set and move too,   *)
(* also between the two reads.                                             *)
(*                                                                         *)
(* External, as the sign convention describes it (joints.go:10-28): how    *)
(* the end effector turns with the base and the wrist.  How far it reaches *)
(* is left out, and so are the arm's call counters, the arguments it       *)
(* records and the errors its overrides return, which come too late to     *)
(* change where its joints are.                                            *)
(***************************************************************************)
EXTENDS Joints, Sequences

CONSTANTS
  BaseOffset, YawOffset,  \* angle and yaw of the end effector at zero joints
  NoJoints, NoPose        \* nothing read yet

ASSUME OffsetAssumption == BaseOffset \in Int /\ YawOffset \in Int

VARIABLES
  sign,            \* the arm's sign convention
  jointPositions,  \* a.jointPositions
  seen,            \* the joints the caller read, or NoJoints
  pose,            \* the pose it read after that, or NoPose
  goal             \* what the arm was last made to face, or NoPose

vars == <<sign, jointPositions, seen, pose, goal>>

\* A joint may be anywhere within a turn to either side.
JointRange == -Turn .. Turn
SixJoints == [{0, 5} -> JointRange]
FewJoints == [{0} -> JointRange]

\* The angle in (-pi, pi] that is the same direction.
Principal(a) == ((a + HalfTurn - 1) % Turn) - HalfTurn + 1

Abs(n) == IF n < 0 THEN -n ELSE n
Wrist(j) == IF 5 \in DOMAIN j THEN j[5] ELSE 0
Angle(j) == Principal(sign * j[0] + BaseOffset)
Yaw(j) == Principal(sign * (j[0] + Wrist(j)) + YawOffset)

\* A gripper that points down turns about its own axis the other way round.
Orientation(j, down) == [down |-> down, theta |-> IF down THEN -Yaw(j) ELSE Yaw(j)]

\* The pose as the helpers' callers pass it on.
PoseOf(j, down) ==
  [angle |-> Angle(j), yaw |-> YawFromOrientation(Orientation(j, down))]

Facing(angle, yaw) == [angle |-> Principal(angle), yaw |-> Principal(yaw)]

Init ==
  /\ sign \in SignConvention
  /\ jointPositions \in SixJoints \union FewJoints
  /\ seen = NoJoints /\ pose = NoPose
  /\ goal = NoPose

-----------------------------------------------------------------------------
(***************************************************************************)
(* The arm.                                                                *)
(***************************************************************************)

SetJointPositions(j) == jointPositions' = j

\* The joints are the new ones even if an override then fails the move.
MoveToJointPositions(j) == jointPositions' = j

GoToInputs(inputs) ==
  IF inputs = <<>> THEN UNCHANGED jointPositions
  ELSE MoveToJointPositions(inputs[Len(inputs)])

\* An override replaces the move.
MoveThroughJointPositions(positions) ==
  UNCHANGED jointPositions \/ GoToInputs(positions)

-----------------------------------------------------------------------------
(***************************************************************************)
(* The caller, and everybody else.                                         *)
(***************************************************************************)

ReadJoints ==
  /\ seen = NoJoints
  /\ seen' = jointPositions
  /\ UNCHANGED <<sign, jointPositions, pose, goal>>

ReadPose ==
  /\ seen /= NoJoints /\ pose = NoPose
  /\ \E down \in BOOLEAN : pose' = PoseOf(jointPositions, down)
  /\ UNCHANGED <<sign, jointPositions, seen, goal>>

\* The base is to turn towards the target, the gripper to the yaw there.  Nothing
\* is promised if the arm moved between the reads, or lacks a wrist.
PreRotate(angle, yaw) ==
  /\ pose /= NoPose
  /\ MoveToJointPositions(
       PreRotatedJoints(seen, pose.angle, pose.yaw, angle, yaw, sign))
  /\ goal' = IF pose = Facing(Angle(seen), Yaw(seen)) /\ 5 \in DOMAIN seen
             THEN Facing(angle, yaw) ELSE NoPose
  /\ seen' = NoJoints /\ pose' = NoPose
  /\ UNCHANGED sign

\* Saved joints are replayed at another yaw.
Replay(saved, yaw) ==
  /\ seen = NoJoints
  /\ \E down \in BOOLEAN :
       MoveToJointPositions(
         AlignStartJointsToPlaceYaw(saved, PoseOf(saved, down).yaw, yaw, sign))
  /\ goal' = Facing(Angle(saved), yaw)
  /\ UNCHANGED <<sign, seen, pose>>

\* Somebody else moves the arm to j or sets it there.
Jog(j) ==
  /\ \/ SetJointPositions(j)
     \/ \E path \in {<<>>, <<jointPositions, j>>} :
          GoToInputs(path) \/ MoveThroughJointPositions(path)
  /\ goal' = NoPose
  /\ UNCHANGED <<sign, seen, pose>>

\* A step of a hand jog: one joint by one unit.
Near(j) == {[j EXCEPT ![i] = @ + d] : i \in DOMAIN j, d \in {-1, 1}}
             \intersect (SixJoints \union FewJoints)

Next ==
  \/ ReadJoints \/ ReadPose
  \/ \E angle \in -HalfTurn .. HalfTurn, yaw \in JointRange : PreRotate(angle, yaw)
  \/ \E saved \in SixJoints, yaw \in JointRange :
       DOMAIN jointPositions = {0, 5} /\ Replay(saved, yaw)
  \/ \E j \in Near(jointPositions) : Jog(j)

Spec == Init /\ [][Next]_vars

-----------------------------------------------------------------------------

\* Every variable has its type; no joint is ever commanded beyond a turn to either
\* side, however many rotations add up (joints.go:167-179).
TypeOK ==
  /\ sign \in SignConvention
  /\ jointPositions \in SixJoints \union FewJoints
  /\ seen \in SixJoints \union FewJoints \union {NoJoints}
  /\ \A p \in {pose, goal} \ {NoPose} :
       DOMAIN p = {"angle", "yaw"} /\ p.angle \in JointRange /\ p.yaw \in JointRange

\* An arm commanded from a consistent reading faces the target and has the yaw
\* asked for, wherever it started, by whatever sign convention, and through every
\* wrap of the base's delta, the yaw's delta and the two joints
\* (joints.go:30-46, 65-72, 112-121).
OnGoal ==
  goal /= NoPose => goal = Facing(Angle(jointPositions), Yaw(jointPositions))

\* From where the caller saw it, the base takes the shortest way that stays in its
\* range to face that way (joints.go:66-70).
BaseTakesShortestWay ==
  [][pose /= NoPose /\ pose' = NoPose =>
       \A b \in JointRange :
         (b - jointPositions'[0]) % Turn = 0 =>
           Abs(jointPositions'[0] - seen[0]) <= Abs(b - seen[0])]_vars
=============================================================================
