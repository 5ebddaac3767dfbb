------------------------------ MODULE Planning ------------------------------
(***************************************************************************)
(* Plan-only requests and their preview: verify.Plan and                   *)
(* verify.TrajectoryToEEPoses (src/verify/plan.go, trajectory.go), the     *)
(* chaining of plans with kinematics.LastTrajectoryJoints                  *)
(* (src/kinematics/trajectory.go), and the waypoints                       *)
(* viz.TrajectoryTransforms puts into the scene (src/viz/plan.go).         *)
(*                                                                         *)
(* One caller plans for one arm, again and again.  It either passes a nil  *)
(* Extra map every time or one map of its own, which every request built   *)
(* from it then shares.  It takes a preview down before it plans again or  *)
(* draws the next.  The motion service, the arm and its forward            *)
(* kinematics are external: the service plans from the start state of the  *)
(* request, or from the joints the arm has when it gets to it.             *)
(*                                                                         *)
(* A trajectory is, step by step, the arm's configuration, whichever of    *)
(* its two wire shapes it came in; NoJoints stands for a step the arm has  *)
(* no part in.  The pose of a waypoint is the configuration it shows.      *)
(***************************************************************************)
EXTENDS Integers, Sequences, FiniteSets

CONSTANTS
  Config,         \* joint configurations of the arm
  NoJoints,       \* nil in place of a configuration
  Unsolved,       \* configurations at which forward kinematics fails
  MaxPointsArg,   \* what callers pass as maxPoints, besides -1
  DefaultEEPointDownsample,
  MaxSteps        \* bound on the length of a trajectory

ASSUME ConfigAssumption == NoJoints \notin Config /\ Unsolved \subseteq Config

ASSUME PointsAssumption ==
  /\ MaxPointsArg \subseteq Nat
  /\ DefaultEEPointDownsample \in Nat \ {0}
  /\ MaxSteps \in Nat \ {0}

VARIABLES
  joints,     \* where the arm is
  shares,     \* whether the caller's req.Extra is a map of its own, not nil
  extra,      \* the contents of that map
  request,    \* Extra as the request in flight carries it, or NoRequest
  asked,      \* where the caller wants the latest plan to start
  result,     \* the caller's PlanResult
  scene,      \* the waypoints in the scene: by index, what each shows
  shown,      \* how many the caller believes are there
  drawn       \* how they were made from the trajectory, or NotDrawn

vars == <<joints, shares, extra, request, asked, result, scene, shown, drawn>>

SeqsOf(S) == UNION {[1 .. n -> S] : n \in 0 .. MaxSteps}
Trajectory == SeqsOf(Config \union {NoJoints})
Last(p) == p[Len(p)]

Timeout == {0, 15}

\* Negative: keep every step.  Below -1, though, TrajectoryToEEPoses panics,
\* because it makes a slice of capacity maxPoints + 1.
MaxPoints == MaxPointsArg \union {-1}

NoRequest == [timeout |-> -1]
Nothing == [feasible |-> FALSE, trajectory |-> <<>>]
NotDrawn == [maxPoints |-> -2]
Previews == [maxPoints : MaxPoints, failed : BOOLEAN]

\* The indices of the uuids "<prefix>-traj-<index>".
Waypoint == 0 .. MaxSteps

Init ==
  /\ joints \in Config
  /\ shares \in BOOLEAN
  /\ extra = <<>>
  /\ request = NoRequest
  /\ asked = NoJoints
  /\ result = Nothing
  /\ scene = [i \in Waypoint |-> NoJoints]
  /\ shown = 0
  /\ drawn = NotDrawn

-----------------------------------------------------------------------------
(***************************************************************************)
(* Planning.                                                               *)
(***************************************************************************)

\* map[key] = value
Put(map, key, value) ==
  [k \in DOMAIN map \union {key} |-> IF k = key THEN value ELSE map[k]]

WithTimeout(map, timeoutSecs) ==
  IF timeoutSecs > 0 THEN Put(map, "timeout", timeoutSecs) ELSE map

\* A plausible slip: a start state already there is kept.
MarshalPlanRequestKeeps(start, timeoutSecs) ==
  WithTimeout(IF start = NoJoints \/ "start_state" \in DOMAIN extra THEN extra
              ELSE Put(extra, "start_state", start), timeoutSecs)

\* A plausible slip: no check whether there are start joints.
MarshalPlanRequestAlways(start, timeoutSecs) ==
  WithTimeout(Put(extra, "start_state", start), timeoutSecs)

\* Extra, with the keys MarshalPlanRequest writes into it.
MarshalPlanRequest(start, timeoutSecs) ==
  WithTimeout(IF start = NoJoints THEN extra ELSE Put(extra, "start_state", start),
              timeoutSecs)

\* nil when the last step is not the arm's, though earlier ones may be.
LastTrajectoryJoints(p) == IF p = <<>> THEN NoJoints ELSE Last(p)

\* The n-th smallest element of S, and the elements of p at the indices in S.
Nth(S, n) == CHOOSE i \in S : Cardinality({j \in S : j <= i}) = n
Picked(p, S) == [n \in 1 .. Cardinality(S) |-> p[Nth(S, n)]]

\* jointStepsFromTrajectory: the arm's own steps.
JointSteps(p) == Picked(p, {i \in DOMAIN p : p[i] /= NoJoints})

\* A plausible slip: the map made in place of a nil one is kept and used again.
RequestKeepsMap(start, wanted, timeoutSecs) ==
  /\ request = NoRequest /\ drawn = NotDrawn
  /\ LET e == MarshalPlanRequest(start, timeoutSecs) IN
       extra' = e /\ request' \in {e, NoRequest}
  /\ result' = Nothing
  /\ asked' = wanted
  /\ UNCHANGED <<joints, shares, scene, shown, drawn>>

\* Plan, up to its DoCommand.  The keys go into the caller's map, when it has
\* one, even if the request cannot be built after that.  The result at hand is
\* not looked at again.
Request(start, wanted, timeoutSecs) ==
  /\ request = NoRequest /\ drawn = NotDrawn
  /\ LET e == MarshalPlanRequest(start, timeoutSecs) IN
       /\ extra' = IF shares THEN e ELSE extra
       /\ request' \in {e, NoRequest}
  /\ result' = Nothing
  /\ asked' = wanted
  /\ UNCHANGED <<joints, shares, scene, shown, drawn>>

\* Plan from a configuration of the caller's choice, or from where the arm is.
PlanFrom(start, timeoutSecs) == Request(start, start, timeoutSecs)

\* Plan on from where the arm is at the end of the trajectory at hand, if there
\* is an end to be had.
PlanOn(timeoutSecs) ==
  LET end == LastTrajectoryJoints(result.trajectory)
  IN  /\ end /= NoJoints
      /\ Request(end, Last(JointSteps(result.trajectory)), timeoutSecs)

\* The steps p start at c, as far as they go.
StartAt(p, c) == p /= <<>> => p[1] = c

\* What the planner finds: a path of the arm from the start state on.
Planned(p) ==
  StartAt(JointSteps(p), IF "start_state" \in DOMAIN request
                         THEN request.start_state ELSE joints)

\* A partial plan is not feasible; a response without a trajectory is.  Whatever
\* key extractTrajectory finds the trajectory under, p is what it finds.
ParsePlanResponse(partial, p) == [feasible |-> ~partial, trajectory |-> p]

\* The DoCommand returns, or fails.
Answered ==
  /\ request /= NoRequest
  /\ request' = NoRequest
  /\ \/ result' = Nothing
     \/ \E partial \in BOOLEAN, p \in Trajectory :
          Planned(p) /\ result' = ParsePlanResponse(partial, p)
  /\ UNCHANGED <<joints, shares, extra, asked, scene, shown, drawn>>

\* The arm moves, on whoever's behalf.
Move(c) ==
  /\ joints' = c
  /\ UNCHANGED <<shares, extra, request, asked, result, scene, shown, drawn>>

-----------------------------------------------------------------------------
(***************************************************************************)
(* The preview of a trajectory.                                            *)
(***************************************************************************)

\* A plausible slip: the division rounds down.
StrideDown(n, maxPoints) ==
  IF maxPoints > 0 /\ n > maxPoints THEN n \div maxPoints ELSE 1

\* The loop looks at every Stride-th step, from the first on.
Stride(n, maxPoints) ==
  IF maxPoints > 0 /\ n > maxPoints THEN (n + maxPoints - 1) \div maxPoints ELSE 1

CapOf(maxPoints) == IF maxPoints = 0 THEN DefaultEEPointDownsample ELSE maxPoints

\* The steps of p that are a stride d apart; those forward kinematics fails at are
\* left out.
Apart(n, d) == {i \in 1 .. n : (i - 1) % d = 0}
Solved(p, S) == {i \in S : p[i] \notin Unsolved}

\* The last step comes again at the end.  There are no poses at all when the arm
\* has no kinematics to offer, which its Kinematics reports as an error.
TrajectoryToEEPoses(trajectory, maxPoints, failed) ==
  LET p    == JointSteps(trajectory)
      kept == Apart(Len(p), Stride(Len(p), CapOf(maxPoints)))
  IN  IF p = <<>> \/ failed THEN <<>>
      ELSE IF Last(p) \in Unsolved THEN Picked(p, Solved(p, kept))
      ELSE Append(Picked(p, Solved(p, kept)), Last(p))

\* A plausible slip: one uuid too few.
TrajectoryUUIDsShort(count) == 0 .. count - 2

TrajectoryUUIDs(count) == 0 .. count - 1

\* Set every transform of TrajectoryTransforms.
ShowPreview(maxPoints, failed) ==
  /\ request = NoRequest /\ drawn = NotDrawn
  /\ LET poses == TrajectoryToEEPoses(result.trajectory, maxPoints, failed) IN
       /\ scene' = [i \in Waypoint |-> IF i < Len(poses) THEN poses[i + 1]
                                                        ELSE scene[i]]
       /\ shown' = Len(poses)
  /\ drawn' = [maxPoints |-> maxPoints, failed |-> failed]
  /\ UNCHANGED <<joints, shares, extra, request, asked, result>>

\* Remove as many waypoints as there were poses.
ClearPreview ==
  /\ scene' = [i \in Waypoint |-> IF i \in TrajectoryUUIDs(shown) THEN NoJoints
                                                                  ELSE scene[i]]
  /\ shown' = 0 /\ drawn' = NotDrawn
  /\ UNCHANGED <<joints, shares, extra, request, asked, result>>

Next ==
  \/ \E start \in Config \union {NoJoints}, t \in Timeout : PlanFrom(start, t)
  \/ \E t \in Timeout : PlanOn(t)
  \/ Answered
  \/ \E c \in Config : Move(c)
  \/ \E m \in MaxPoints, failed \in BOOLEAN : ShowPreview(m, failed)
  \/ ClearPreview

Spec == Init /\ [][Next]_vars

-----------------------------------------------------------------------------

\* Every variable has its type; a start state on its way to the planner is one.
TypeOK ==
  /\ joints \in Config /\ shares \in BOOLEAN
  /\ \A e \in {extra, request} \ {NoRequest} :
       /\ DOMAIN e \subseteq {"start_state", "timeout"}
       /\ "start_state" \in DOMAIN e => e.start_state \in Config
       /\ "timeout" \in DOMAIN e => e.timeout \in Timeout \ {0}
  /\ asked \in Config \union {NoJoints}
  /\ result.feasible \in BOOLEAN /\ result.trajectory \in Trajectory
  /\ scene \in [Waypoint -> Config \union {NoJoints}]
  /\ shown \in 0 .. MaxSteps + 1
  /\ drawn \in Previews \union {NotDrawn}

\* A plan starts where the caller asked, be it the end of the trajectory it is
\* chained onto, so that the two are one; wherever the arm is by then and
\* whatever earlier requests left in the caller's Extra
\* (kinematics/trajectory.go:17-20, verify/plan.go:58-61).
StartsAsAsked ==
  request = NoRequest /\ asked /= NoJoints
    => StartAt(JointSteps(result.trajectory), asked)

\* The waypoints in the scene are those of the preview on show, none left from
\* a longer one before it (viz/plan.go:43-63, 99-109).
SceneIsShown == \A i \in Waypoint : scene[i] /= NoJoints <=> i < shown

\* The preview follows the trajectory.  Its waypoints are the arm's steps a stride
\* apart from the first on, in their order, less those forward kinematics fails
\* at, and then the goal, which the cap does not count; the stride is the finest
\* at which the steps are no more than the cap, so 1 when every step is asked
\* for.  Nothing is shown without kinematics (verify/trajectory.go:28-35).
PreviewFollowsPath ==
  drawn /= NotDrawn =>
    LET p        == JointSteps(result.trajectory)
        n        == Len(p)
        cap      == CapOf(drawn.maxPoints)
        Fits(d)  == cap > 0 => Cardinality(Apart(n, d)) <= cap
        Marks(d) == Solved(p, Apart(n, d))
    IN  IF n = 0 \/ drawn.failed THEN shown = 0
        ELSE \E d \in 1 .. n :
               /\ Fits(d) /\ \A e \in 1 .. d - 1 : ~Fits(e)
               /\ \A i \in Marks(d) :
                    scene[Cardinality({j \in Marks(d) : j < i})] = p[i]
               /\ IF p[n] \in Unsolved THEN shown = Cardinality(Marks(d))
                  ELSE /\ shown = Cardinality(Marks(d)) + 1
                       /\ scene[shown - 1] = p[n]

\* A plan without start joints starts at the joints the arm has when it is made,
\* not where an earlier one did (verify/plan.go:58-61, 74-77).  A caller that
\* hands in a map of its own is not promised that: the code leaves the start
\* state of an earlier request in it.
NilStartIsCurrent ==
  [][request /= NoRequest /\ request' = NoRequest /\ asked = NoJoints /\ ~shares
       => StartAt(JointSteps(result'.trajectory), joints)]_vars
=============================================================================
