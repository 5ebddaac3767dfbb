------------------------------- MODULE Joints -------------------------------
(***************************************************************************)
(* The joint-space helpers of src/kinematics/joints.go and orientation.go: *)
(* pure functions on angles.                                               *)
(*                                                                         *)
(* An angle is a whole number of units of which HalfTurn make up pi, so    *)
(* that rounding is left out.  A configuration is a function on the        *)
(* indices of joints that matters here: 0, the base, and 5, the wrist,     *)
(* which an arm of fewer than six joints lacks.  The joints between them   *)
(* are copied.                                                             *)
(***************************************************************************)
EXTENDS Integers

CONSTANT HalfTurn

ASSUME HalfTurnAssumption == HalfTurn \in Nat \ {0}

Turn == 2 * HalfTurn

\* SignConventionURStyle, SignConventionFlipped.
SignConvention == {-1, 1}

-----------------------------------------------------------------------------

\* for v > bound { v -= 2*math.Pi }
Lowered(v, bound) ==
  IF v > bound THEN v - Turn * ((v - bound + Turn - 1) \div Turn) ELSE v

\* The mirrored loop.
Raised(v, bound) == -Lowered(-v, -bound)

\* A plausible slip: angles are left as they are.
Unwrapped(d) == d

\* Into [-pi, pi]; both ends stay as they are.
wrapToShortestPath(d) == Raised(Lowered(d, HalfTurn), -HalfTurn)

\* Into [-2pi, 2pi].
wrapJointRotation(v) == Raised(Lowered(v, Turn), -Turn)

\* The yaw of a gripper that points down is counted the other way round.
YawFromOrientation(o) == IF o.down THEN -o.theta ELSE o.theta

\* A plausible slip: the wrist turns by the yaw asked for, as if the base did not
\* turn it as well.
PreRotatedJointsAlone(joints, angle, yaw, targetAngle, targetYaw, sign) ==
  LET deltaJ0 == sign * wrapToShortestPath(targetAngle - angle)
      deltaJ5 == sign * wrapToShortestPath(targetYaw - yaw)
  IN  IF 5 \notin DOMAIN joints THEN joints
      ELSE [joints EXCEPT ![0] = wrapJointRotation(@ + deltaJ0),
                          ![5] = wrapJointRotation(@ + deltaJ5)]

\* The angles are those of the end effector's and the target's x and y.
PreRotatedJoints(joints, angle, yaw, targetAngle, targetYaw, sign) ==
  LET deltaJ0 == sign * wrapToShortestPath(targetAngle - angle)
      deltaJ5 == sign * wrapToShortestPath(targetYaw - yaw) - deltaJ0
  IN  IF 5 \notin DOMAIN joints THEN joints
      ELSE [joints EXCEPT ![0] = wrapJointRotation(@ + deltaJ0),
                          ![5] = wrapJointRotation(@ + deltaJ5)]

AlignStartJointsToPlaceYaw(joints, yaw, targetYaw, sign) ==
  IF 5 \notin DOMAIN joints THEN joints
  ELSE [joints EXCEPT ![5] =
          wrapJointRotation(@ + sign * wrapToShortestPath(targetYaw - yaw))]
=============================================================================
