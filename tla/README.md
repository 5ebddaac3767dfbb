# viamkit in TLA+

A verification development of the stateful parts of viamkit, the toolkit for
Viam robot-cell modules: TLA+ modules translated from the Go sources under
`src/`, model-checked with TLC on small instances, and theorems about them
checked with TLAPS for every value of their constants. `PROJECT.json` maps each
definition to the lines it models and lists runs, mutants, findings, hazards
and theorems.

## The system

A cell module is built from a few independent packages. Nothing in the toolkit
owns all of them: the module's own code passes a context from `lifecycle` to
`statemachine.Run`, calls `RequestExit` from a watchdog's `OnFail`, wraps a
cycle in the tracker's `Start` and `End`, and writes transforms into the store.
The one composition the repository spells out is the module in `lifecycle`'s
package comment (lifecycle.go:23-67); `Cell` models it.

| Component | State | Operations | How it interacts |
|---|---|---|---|
| `statemachine` | current state, `running`, `lastErr`, pending entry hook, pending exit request, three time stamps; under `m.mu` | `Run`, `Step`, `Goto`, `Reset`, `RequestExit`, accessors | calls handlers, hooks and `OnTransition` with the lock released; its context comes from the caller |
| `lifecycle` | the loop context and its cancel function, `closed`; under `l.mu` | `Ctx`, `EnsureLive`, `Stop`, `CleanupCtx`, `CtxOrCleanup`, `Close` | hands out contexts that operations run under |
| `watchdog` | `cancel`, `done`, `running`; under `w.mu`; one goroutine per `Start` | `Start`, `Stop`, `Running` | calls `check`, `shouldExit`, `OnFail`, `OnTransient` from its goroutine |
| `viz` store | the transforms, one bounded channel | `Set`, `Remove`, `Clear`, `ListUUIDs`, `GetTransform`, streams, `DoCommand` | sends each change on the channel after unlocking, or drops it |
| `cycle` | the cycle in flight, a window of durations, a count; under `t.mu` | `Start`, `End`, `Cancel`, `Reset`, `Stats` | called once per handler cycle |
| planning and preview (`verify`, `kinematics/trajectory.go`, `viz/plan.go`) | none of its own; the caller's `Extra` map, result and scene | `Plan`, `LastTrajectoryJoints`, `TrajectoryToEEPoses`, `TrajectoryTransforms`, `TrajectoryUUIDs` | one `DoCommand` to the motion service, `Set` and `Remove` on the store |
| kinematics joints (`joints.go`, `orientation.go`) | none; the caller's two readings of an arm | `PreRotatedJoints`, `AlignStartJointsToPlaceYaw`, the wraps, `YawFromOrientation` | the caller reads the arm's joints, then its pose, and commands what it computes from both |
| cell module | which `Run`s were started and on which context; where `Reconfigure` and `Close` are | construction, `Reconfigure`, `Close` | a `Lifecycle`, a `Machine` run by goroutines of its own, a peer and an arm |
| `fakes` | the arm's joints; counters, canned answers | test doubles | the arm stands for the real one in `Approach` |
| planner errors, viz builders, `worldstate`, `geom` | none | pure functions | |
| `contracts` | none | wire types and one-call clients | the pack sequencer behind them lives elsewhere |
| `operatorapp` | none | a static file handler | |

What is hard in this code:

- *Concurrency.* Everything under a mutex is short, and the interesting work
  happens between critical sections: a machine's handlers and callbacks, the
  wait for a watchdog's previous goroutine, the choice in `CtxOrCleanup`, the
  send of a change, the start of a `Run` while another unwinds.
- *Order.* An exit request against the end of the handler, the run or its
  context; two changes of one transform sent in the other order.
- *Failure.* A handler or hook that fails, is cancelled, or both; a full
  channel; a trajectory some of whose poses cannot be solved.
- *Stale readings.* Joints and pose read by two calls; the start state of an
  earlier request in a map the caller uses again.
- *Numbers.* Angles wrapped twice, at half a turn and at a full one; strides and
  caps; interpolation at the ends of a window.
- *Progress.* A cancelled call must return, `Close` must end what runs, `Stop`
  must not wait for ever, and writers must not wait for readers.

What makes each component correct: the machine dispatches on the state it is
in, at most one `Run` is in flight, errors and exit requests are neither lost
nor invented, and a cancelled call returns; no operation escapes `Stop` and
`Close`, and the module's teardown ends; one watchdog polls at a time and `Stop` is thorough; a subscriber that
missed nothing sees what the store holds, and writers never block; the window
is the latest cycles and the statistics describe them; a plan starts where it
was asked to and its preview shows all of it and nothing else; an arm faces what
it was rotated to, within its range and by the shortest way.

## Modules

| Module | Models | Steps |
|---|---|---|
| `StateMachine` | `machine.go`, `options.go` | one action per critical section; a frame `call[g]` holds the control point and live locals of the call goroutine `g` has in flight |
| `MCStateMachine` | values for its constants: who calls what | |
| `RunContract` | what `machine.go` promises of `Run`: the abstract specification of a shared machine | enter, be refused, be accepted, be stopped, leave |
| `Lifecycle` | `lifecycle.go` | one action per method; `CtxOrCleanup` is two, since it unlocks in between |
| `Cell` | the module in `lifecycle.go`'s package comment: `Lifecycle` and `RunContract` composed | one action per statement of `Reconfigure` and `Close` that may block or unlocks; a loop enters, is refused by, or leaves `Run` |
| `Watchdog` | `watchdog.go` | `Start` is up to four steps (read, cancel, wait, spawn), `Stop` three, a run's goroutine one per poll, check, callback and half of the deferred function |
| `VizStore` | `viz/store.go` | a change is one step, each send another, `DoCommand`'s remove one per uuid |
| `Cycle` | `cycle.go` | one action per method; `Stats` is an operator |
| `Planning` | `verify`, `kinematics/trajectory.go`, `viz/plan.go` | a request, its answer, a move of the arm, showing and clearing a preview |
| `Joints` | `joints.go`, `orientation.go`: pure operators on angles | |
| `Approach` | the arm of `fakes/arm.go` and a caller of `Joints` | the two reads, a command, a replay of saved joints, anybody else's move |
| `StateMachineProofs`, `CellProofs` (of `Lifecycle` and `Cell`), `WatchdogProofs`, `VizStoreProofs`, `CycleProofs`, `PlanningProofs`, `ApproachProofs` | | theorems |
| `Counting` | | lemmas the proofs share: least and greatest elements, how many of a set of numbers are up to i, moving a set of numbers one place |

Definitions carry the names of the code. A definition introduced by "A plausible
slip" is not part of a model: it is the changed form of the definition that
follows it, and shows which property notices the change.

**StateMachine.** `check`, `entry`, `read`, `take`, `record`, `transit`, `route`
and `finish` are the machine's own critical sections in the order of `Run` and
`Step`; at `entryHook`, `handle`, `exitHook` and `fire` user code runs unlocked,
and anything may happen meanwhile. `Run` and `Step` share the actions and differ
where the code differs: `Step` does not set `running`, does not look at its
context, and returns instead of looping. Errors are abstracted to the classes
the code tells apart; user code returns any but `ErrAlreadyRunning`, which it
could only have from a call of its own, and the machine treats it as any fault.
Exit requests may name any state at any time. A goroutine that calls `Run` twice
is a goroutine that comes back to `idle`. The critical section of `fireExit` only
reads a time stamp that nobody can change meanwhile, and is part of the step
before the hook. `heard` is history: of each state, how often the observer was
told of an arrival less how often of a departure.

`ApartSpec` lets no call begin while a `Step` is in progress, and otherwise
leaves all goroutines at it: it is the use of the machine that its package
comment allows, and `sm_dual` shows what `Spec` adds to it.

**Lifecycle.** A loop context is the number under which it was minted. The
user's operations are modelled because what a lifecycle promises concerns them:
where each runs and what it takes to end it.

**RunContract and Cell.** `RunContract` knows nothing of states, handlers or
errors: who is in `Run`, whether its context is cancelled, and whose last call
was answered with `ErrAlreadyRunning`. `StateMachine!Contract` is the refinement
mapping. `Cell` uses the contract in place of the machine and `Lifecycle` itself,
whose users are the cell's loops, its teardown calls and its operators: a loop
goroutine that was started on a context is a user under that context until `Run`
returns, and the contract's `stopped` is read off the lifecycle's `cancelled`.
The `go` statement chooses the context; the goroutine gets to `Run` later. The
contract's liveness, that a stopped `Run` returns, is `CancelledCallReturns` of
the machine (TLC cannot evaluate `ENABLED` under a refinement mapping, so it is
checked there in the machine's own terms) and an assumption of `Cell`.

**Watchdog.** `w.cancel` and `w.done` are assigned together and belong to the
run spawned last, so `latest` stands for both. A select with both cases ready
takes either.

**VizStore.** `view` and `missed` are history of what a subscriber can know;
`dropped` and `balance` count what was lost and announced, `UnderWay` what is
still to be sent or received. The `set` verb that
`DoCommand`'s comment lists (store.go:230) does not exist in the code, and
neither in the model.

**Cycle.** `log` is history: all durations since `Reset`. Percentiles are
computed in hundredths with integers, rounded to nearest as in the code; the
sorted copy is its order statistics, `Sorted(s, k)`, and the sum that `Stats`
loops over is a recursive function.

**Planning.** The motion service, the arm and forward kinematics are external.
They enter as nondeterministic choices: the service returns any trajectory in
which the arm begins where the request says, or nothing; the arm's kinematics can
be had or not, and of its configurations some cannot be solved. A step of a
trajectory may lack the arm: `JointSteps` skips such steps, whereas
`LastTrajectoryJoints` looks at the last step alone, and the caller chains a plan
only if it finds joints there. A map in Go is shared by reference: `shares`
says whether the caller's `Extra` is a map of its own, which is then changed by
each request. The caller does one thing after another: it takes down a preview,
as `TrajectoryUUIDs` is documented to be used, before it draws or plans again.
Loops that append what they keep are described by their result: `Picked(p, S)`
is p at the indices in S. `extractTrajectory`'s search through the keys of a
response is collapsed to the trajectory it finds; which of several it would
prefer is left out.

**Joints and Approach.** Angles are whole numbers of which `HalfTurn` make up pi,
so rounding is left out and every wrap is exact. A configuration has the two
joints the code changes, the base and the wrist; the wrist is missing in an arm
of fewer than six joints, which the code leaves where it is. How the end effector
turns with the two joints is external, stated once as the comments on the sign
convention do (joints.go:10-28). `goal` is history: what the arm was last told to
face, forgotten when somebody else moves it or when the readings were taken
around somebody else's move.

## Runs

| Run | Checks | Distinct states, about |
|---|---|---|
| `sm_apart` | two goroutines, `Run` and `Step` against `Run` and `Reset`, no call begins during a `Step`; a state with both hooks, an error state with an entry hook, an unregistered state; requests and cancellation come from outside | 270 thousand |
| `sm_step` | two goroutines, `Run` against all methods, errors surface, the clock runs; the machine implements `RunContract` | 2 million |
| `cell` | two goroutines reconfigure and close, two run loops, one operates; three loop contexts | 16 thousand |
| `watchdog` | one starter, two stoppers, three runs | 110 thousand |
| `viz` | two writers, two transforms, two `Set`s, a channel of one, one subscriber | 60 thousand |
| `cycle` | a window of four, six cycles, nine ticks | 63 thousand |
| `plan` | three configurations, one of them unsolvable, trajectories of up to five steps, each with or without the arm, caps 2, 3 (the default) and none | 460 thousand |
| `arm` | quarter turns, every base and wrist position within a turn to either side, both sign conventions, with and without a wrist | 225 thousand |
| `sm_dual`, `cell_reconf`, `wd_orphan`, `viz_resync` | one claim of a comment each, violated; see Findings | |

**Bounds, and why they are enough.** `MaxTime` (machine): stamps are only
compared, so two instants distinguish older from current; `sm_apart` leaves time
out, as nothing it checks reads a stamp. Its states are one of each kind the
code tells apart: handled with both hooks, handled error state with an entry
hook, unregistered; the terminal one is in `sm_step`. Its goroutines call `Run`
both, so that they compete for the flag, one of them `Step` and the other
`Reset`; `Goto`, whose guard is `Reset`'s, is in `sm_step`. `MaxCtx` = 3: a context, its replacement and
the replacement of that, so that an orphan can be neither first nor last; each
`Reconfigure` under way has one set aside for it (`RoomForContexts`), so that the
bound never stops one half-way. Two loops are enough for one to be in `Run` and
one to come; two managers for `Reconfigure` against `Reconfigure` and `Close`.
`MaxRuns` = 3: the same for watchdog runs; when they are used up no `Start`
succeeds, which is a bound of the model and not an end of the program, and every
started run and call still has to finish. `BufferSize` = 1 makes every second
change meet a full channel, and two `Set`s let two writers replace, remove and
reorder changes of one transform. `Window` = 4 with six cycles fills the window
and rolls it twice; at four samples p50 and p95 both interpolate. `MaxSteps` = 5
against a cap of 2 and of 3 gives strides of one, two and three, that divide the
path and that do not, and the two solvable configurations make a waypoint out of
place show. `HalfTurn` = 2 is the
coarsest circle on which a quarter turn, a half turn (where the shortest way is
not unique) and a full turn (the end of the joints' range) all differ; the
offsets are arbitrary and odd, and the theorems hold for every resolution.

**Fairness.** `FairSpec` (`FairApartSpec` of the machine) assumes only what the Go scheduler and the callers owe.
`StateMachine`: a goroutine inside the machine's own code runs on, and user code
returns once its context is cancelled; a handler under a live context may hang
for ever. `Lifecycle`: an operation under a cancelled context or a cleanup
context (which has a timeout) returns; under a live loop context it may hang.
`Cell`: the same of its teardown calls and operators, and that a stopped `Run`
returns; a `Run` on a live context may last for ever. Fairness of
`ReconfigureStarts` is strong because in the model it waits while both loop
goroutines are in use, where a `go` statement never does.
`Watchdog`: goroutines run, check and callbacks return, and the select that
finds both a tick and `ctx.Done()` ready takes `Done` eventually, because Go
chooses at random: strong fairness of that one step. `VizStore`: a writer inside
a call runs on; nothing is asked of subscribers. Runs without liveness
properties use `Spec`.

No run turns deadlock checking off.

## What is proved

The theorems hold for all constants that satisfy the `ASSUME`s of the component
module, which say no more than that the constants have their types and bounds
are natural numbers. Every safety invariant and action property that a passing
run checks is the conclusion of a theorem.

Induction over data is done by hand where it is needed: of the counterexamples,
a set of natural numbers, `Counting!Least` gives the least, and the step to it
from its predecessor is the induction step. A function defined by recursion is
first shown to exist in the same way (`CycleProofs!SumsExist`).

- **StateMachine.** `Shape` says of each frame what its control point implies of
  its locals (for instance that a `Run` at its exit hook left a hooked state, and
  a request is only remembered after it was taken). It is needed because
  `TypeOK` alone is not inductive: whether the next state of a frame is a state
  depends on where the frame is. Each operator that builds a frame is shown to
  keep the shape, each action then keeps `TInv`, and `TypeCorrect` and
  `RedirectKept` follow. With `OneRunLoop` added (`RunInv`) the flag counts the
  runs in flight: `RunsNeverOverlap`. `DispatchIsNeverStale` and
  `SurfacedErrorIsRecorded` are theorems of `ApartSpec`, for any number of
  goroutines, since of `Spec` they are false: that is the finding `sm_dual`.
  `StepsApart` says that nobody else is active during a `Step`; with the flag,
  which keeps a second `Run`, `Goto` and `Reset` out during a `Run`, whoever
  dispatches is alone, so what it read stays current (`DispatchInv`), and the
  claim that `sm_dual` refutes is true (`HandlersExclude`). `RequestsAreKept` is an action property
  from `TInv`, and `HistoryIsConsistent` needs `Stamped`: the current state's
  history entry is `enteredAt`, and none is later.
  `ObserverHearsAll` holds for any goroutines, overlapping `Step`s included:
  `OnTransition` is called unlocked and in any order, so it is stated as a balance
  of each state, what was heard and what is about to be against whether the
  machine is in it; a step that changes the state adds one frame about to fire,
  and firing moves it from one side to the other (`TallyKept`). `CycleClockIsKept` needs only that the clock is set while
  `running`.
- **RunContract.** `MachineKeepsContract`: the machine's initial states map to the
  contract's and every step to a step of it or a stutter. Beyond `RunInv` it needs
  that no call in flight carries `ErrAlreadyRunning`, so that no handler's or
  hook's error passes for a refusal (`NeverBusy`), and that a `Run` keeps its
  context. `OneRunLoop`, which the contract implies of the abstract machine, is
  proved too (`RunsNeverOverlap`) and not run on its own.
- **Lifecycle and Cell.** `Inv` adds to `TypeOK` that the contexts below `minted`
  but for the current one are cancelled, that the current one is after `Close`,
  and that operations use minted contexts. `CellUsesLifecycle`: every step of the
  cell is a step of `Lifecycle` or leaves it alone, so its two results hold in
  the cell. `RefusalPasses` then follows from `Inv` and the cell's own typing: of
  two contexts in use, one is the current one and the other is cancelled.
- **Watchdog.** `BaseInv` holds for any number of starters: a run not yet spawned
  is untouched, a run that failed never polls again, and callers cancel a run that
  exists before they wait for it. So a run reports its failure once even when a
  racing `Start` orphaned it (`FailureReportedOnce`), and what anybody waits for
  is a cancelled run, which waits for nobody (`WaitsAreShort`, the part of
  `CallsReturn` that is a safety property). `Inv` adds that only the latest run
  can be short of the lock in its deferred function, that `running` is true
  exactly then, and that whoever waits in `Start` waits for it. What follows from
  it, `NoOrphans`, `RunningIsTrue` and `StopIsThorough`, assumes `SingleStarter`;
  two concurrent starters break the property (`wd_orphan`), while any number of
  goroutines may call `Stop`.
- **VizStore.** `Inv` says that of a transform a subscriber missed nothing of, at
  most one writer has changes yet to send, the last change under way, if there is
  one, carries what the store holds, and otherwise the view does. It holds for any
  number of writers and competing streams, which TLC checks only for one.
  `AnnouncementsAddUp` counts: a change is in a writer's hands, in the channel, or
  received or dropped; each step moves one announcement on, and a critical section
  makes exactly those that its change of the map calls for (`UnlockAddsUp`).
  Finiteness of what is counted is part of the invariant, so the set of writers
  may be infinite.
- **Cycle.** `Inv` is `TypeOK /\ WindowIsLatest`, inductive together and not
  alone: the window's length keeps `End` from evicting too early or too late.
  `StatsAreFaithful` is then about one sequence, the window: the k-th order
  statistic exists, has at most k samples below it and n - 1 - k above it
  (`SortedIs`), and rises with k; interpolation stays between neighbours and rises
  with the remainder (`MixIs`); so a percentile leaves its share, rounded up, on
  either side (`PercentileSplits`) and rises with p (`PercentilesRise`). The sum
  lies between n times the least and n times the greatest (`TotalBetween`), by
  induction on the prefix summed.
- **Planning.** `PlanInv` says that a request in flight carries the start its
  caller asked for, whatever an earlier one left in a shared map, and that a map
  made in place of a nil one carries none that was not asked for; the rest is
  that the answer starts where the request says.
  `PreviewInv` carries the two properties of the preview with the types they need.
  A plan is chained onto the last of the arm's steps when the last step of the
  trajectory is the arm's (`JointStepsAre`).
  Waypoint i is the i-th pose that could be solved (`RankIs`, `PosesAre`), there are
  `shown` of them, and clearing removes as many uuids as were set, so
  `NoWaypointIsLeft`. `PreviewIsFaithful` does not know the code's division: it
  counts the steps a stride apart (`ApartCounts`, by a bijection) and shows that for
  any length and cap the rounded-up quotient is the least stride at which they fit
  (`StrideIs`).
- **Approach.** Angles are compared up to whole turns: the wraps change an angle by
  whole turns only, sums and mirror images respect that, and the pose depends on
  nothing else, so a command from a consistent reading reaches its goal
  (`GoalIsFaced`). `JointsInRange` is the range of the wrap, and `ShortestWay`
  compares the base's move with every position in range that differs by whole
  turns.

Only model-checked: the liveness properties, since the provers handle neither
`ENABLED` nor fairness. They are `CancelledCallReturns` and `RequestPickedUp` of the
machine, `CloseEndsOperations` and `TeardownReturns` of the cell, `CallsReturn` and
`CancelledRunEnds` of the watchdog, and `CallsReturn` of the store. The claims that
the violation runs refute are proved where the condition under which they hold can
be stated of the model: `RunStepExclusive` of `ApartSpec`, `OneWatcher` under
`SingleStarter`.

## Findings

Each has a run in which TLC finds the behaviour, and is quoted in `PROJECT.json`.

1. `sm_dual`: `Step` and `Run` are documented as mutually exclusive, but `Step`
   only tests `running` and unlocks. A `Run` that begins after the test
   dispatches at the same time.
2. `cell_reconf`: `Reconfigure` as the package comment gives it only cancels the
   old loop's context and starts the new loop in a goroutine. In the trace the
   loop the constructor started has not been scheduled when `Reconfigure` stops
   its context; it gets to `Run` after that, on a cancelled context, and before the
   new loop, which is refused. Nobody sees the error, the old loop returns at
   once, and no loop is left. An old `Run` still in a handler does the same.
3. `wd_orphan`: the owner's `Start` finds a run, cancels it and waits for it to
   end. When that run has cleared `running`, the operator's `Start` finds none and
   spawns at once; when it has closed `done`, the owner spawns too, without
   looking at `running` again. Both runs poll, and `Stop` reaches only the later.
4. `viz_resync`: changes queued before a drop are older than the state a resync
   reads, and applied after it they roll it back.

Smaller divergences met on the way, which no run is spent on:
`TimeInState` is documented to be the time since `Reset` after one (machine.go:570),
but a `Reset` of a machine already in its initial state returns early
(297-299, 524) and leaves the stamp (`HistoryAgrees` takes the code's side: the
stamp is that of the last entry); the tracker's count is documented as one of its
whole life (cycle.go:51-52, 133-134, 191-192), but `Reset` clears it, as its own
comment says (141-149), and `WindowIsLatest` counts from there;
`ParsePlanResponse` calls a response without a trajectory feasible
(verify/plan.go:130-136) where `PlanResult` says it does not (24-29);
`TrajectoryToEEPoses` with `maxPoints` below -1 makes a slice of negative
capacity (verify/trajectory.go:60), and the goal may appear twice, which exceeds
the cap by one; the comment on `DefaultEEPointDownsample` (12-15) applies it to
every non-positive `maxPoints`, the code to 0 alone; `resolveVerbLocked` in
`fakes/resource.go` ranges over a map although its comment calls the choice
deterministic. A taken exit request is lost when the exit hook of the state being
left fails on the cancelled context, although machine.go:241-244 promises the
requested state (`RedirectDroppedOnlyByExitHook` says that nothing else loses
one). `start_state` is written into the caller's `Extra` map
(verify/plan.go:74-94), so a later plan with nil start joints and the same map
does not start from the current ones, as 61 says it does; the model has it, and
`NilStartIsCurrent` is stated for callers that share no map. The fake arm records the joints of a
move before an override's error although the comment speaks of a successful one
(fakes/arm.go:208-219). The wrist's delta is not wrapped after the base's share
is taken off (joints.go:104), so the wrist, unlike the base, may turn farther
than it has to. A watchdog whose `OnFail` calls the lifecycle's `Stop` cancels
whatever loop is current by then, which after a `Reconfigure` is the fresh one.

## Not modelled

The pure packages (`worldstate`, `geom`, viz builders, planner errors) have no
state and no order of calls; `contracts` is wire types and clients of a service
that is not in the repository; `operatorapp` is I/O; of the fakes all but the
arm's joints are recorders. `InterpolateJointPath` and `TrajectoryToJointPath`
are pure and used by nothing in the repository. Floats, rendering options,
messages and labels are abstracted everywhere. User callbacks that call back into
the component they run under (a handler that calls `Reset`, `OnFail` that calls
`Stop`) are left out, except `RequestExit`, which anyone may call at any time.
`BufferSize` 0 is left out: a rendezvous channel would need the reader's control
point. The watchdog is not part of `Cell`: the package comment does not show one,
and its effect there, a `Stop` at any time, is `OperatorStops`.

## Plan

Written so far, in this order: `StateMachine`, `Lifecycle`, `Watchdog`,
`VizStore`, `Cycle`, `Planning`, `RunContract`, `Cell`, `Joints` with `Approach`,
each with its proofs. Next:

1. An abstract store (a map and the changes each subscriber has yet to see) that
   `VizStore` refines while nothing is dropped.
2. `Recovery`: a watchdog, a machine and a lifecycle joined by `OnFail`
   (`RequestExit`, then `Stop`): does a loss always end in the error state, and
   when does the `Stop` reach a fresh loop instead?
3. The safety part of the other liveness properties, as `WaitsAreShort` is of the
   watchdog's: what a cancelled `Run` and a teardown call may still wait for.
