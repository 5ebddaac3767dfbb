-------------------------------- MODULE Cell --------------------------------
(***************************************************************************)
(* The cell module of lifecycle's package comment (src/lifecycle/          *)
(* lifecycle.go:23-67): one lifecycle.Lifecycle, one statemachine.Machine, *)
(* a peer and an arm.  The lifecycle is module Lifecycle itself, of which  *)
(* every goroutine of the cell is a user; the machine is what RunContract  *)
(* promises of Run and nothing more.                                       *)
(*                                                                         *)
(*   Loop      goroutines started by go m.sm.Run(...), used again once     *)
(*             they are over                                               *)
(*   Manager   goroutines in Reconfigure or Close                          *)
(*   Operator  everybody else: DoCommand handlers, RPCs under way          *)
(***************************************************************************)
EXTENDS Lifecycle, FiniteSets

CONSTANTS Loop, Manager, Operator

ASSUME CellAssumption ==
  /\ User = Loop \union Manager \union Operator
  /\ Loop \intersect Manager = {} /\ Manager \intersect Operator = {}
  /\ Loop \intersect Operator = {}
  /\ IsFiniteSet(Manager)

VARIABLES
  inside,   \* the loop in m.sm.Run, if there is one
  refused,  \* loops whose last Run returned ErrAlreadyRunning
  at,       \* where each manager is in Reconfigure or Close
  built     \* newCellModule has returned

cellVars == <<loopCtx, minted, cancelled, closed, op, inside, refused, at, built>>
lifeVars == <<loopCtx, minted, cancelled, closed>>

\* The machine, told by the context of a loop whether its Run is stopped.
Machine == INSTANCE RunContract WITH
  Caller <- Loop, stopped <- {l \in inside : op[l].ctx \in cancelled}

Place == {"idle", "stopped", "telling", "told", "closed", "parking"}

Goes(m, from, to) == at[m] = from /\ at' = [at EXCEPT ![m] = to]

\* Started by a go statement and not over yet.
Started(l) == op[l].at = "loop"

InitCell ==
  /\ Init
  /\ inside = {} /\ refused = {}
  /\ at = [m \in Manager |-> "idle"]
  /\ built = FALSE

-----------------------------------------------------------------------------
(***************************************************************************)
(* The module's methods.                                                   *)
(***************************************************************************)

\* newCellModule: go m.sm.Run(m.life.Ctx()).
Construct ==
  /\ ~built /\ built' = TRUE
  /\ \E l \in Loop : Ctx(l)
  /\ UNCHANGED <<inside, refused, at>>

\* Each Reconfigure under way will mint a context: the bound on contexts leaves
\* room for it.
Restarting == {m \in Manager : at[m] \in {"stopped", "telling", "told"}}
RoomForContexts == minted + Cardinality(Restarting) < MaxCtx

\* Reconfigure: m.life.Stop() ...
ReconfigureStops(m) ==
  /\ built /\ RoomForContexts
  /\ Goes(m, "idle", "stopped")
  /\ Stop
  /\ UNCHANGED <<inside, refused, built>>

\* A plausible slip: the peer is called under a live loop context, which has no
\* timeout.
ReconfigureTellsLive(m) ==
  /\ Goes(m, "stopped", "telling")
  /\ EnsureLive(m)
  /\ UNCHANGED <<inside, refused, built>>

\* ... the call to the peer, under a cleanup context ...
ReconfigureTells(m) ==
  /\ Goes(m, "stopped", "telling")
  /\ CleanupCtx(m)
  /\ UNCHANGED <<inside, refused, built>>

\* ... which ends with an answer or by its timeout ...
PeerReturns(m) ==
  /\ Goes(m, "telling", "told")
  /\ Return(m)
  /\ UNCHANGED <<inside, refused, built>>

\* ... and go m.sm.Run(m.life.EnsureLive()): the context is chosen here, the
\* goroutine gets to Run when it is scheduled.
ReconfigureStarts(m) ==
  /\ Goes(m, "told", "idle")
  /\ \E l \in Loop : EnsureLive(l)
  /\ UNCHANGED <<inside, refused, built>>

\* Close: m.life.Close(), then the arm is parked under a cleanup context.
CloseCloses(m) ==
  /\ built
  /\ Goes(m, "idle", "closed")
  /\ Close
  /\ UNCHANGED <<inside, refused, built>>

CloseParks(m) ==
  /\ Goes(m, "closed", "parking")
  /\ CleanupCtx(m)
  /\ UNCHANGED <<inside, refused, built>>

ArmReturns(m) ==
  /\ Goes(m, "parking", "idle")
  /\ Return(m)
  /\ UNCHANGED <<inside, refused, built>>

-----------------------------------------------------------------------------
(***************************************************************************)
(* The loops, by the contract of Run.                                      *)
(***************************************************************************)

Enters(l) ==
  /\ Started(l) /\ l \notin inside
  /\ UNCHANGED <<lifeVars, op, at, built>>
  /\ Machine!Enter(l)

\* Run returns ErrAlreadyRunning and the goroutine is over.
IsRefused(l) ==
  /\ Started(l) /\ l \notin inside
  /\ Return(l)
  /\ UNCHANGED <<at, built>>
  /\ Machine!Refuse(l)

\* Run returns: stopped, or of its own accord.
Leaves(l) ==
  /\ Return(l)
  /\ UNCHANGED <<at, built>>
  /\ Machine!Leave(l)

-----------------------------------------------------------------------------
(***************************************************************************)
(* Operators use the lifecycle as they like; a watchdog or an operator's   *)
(* stop button calls Stop at any time.                                     *)
(***************************************************************************)

Operate(u) ==
  /\ \/ Ctx(u) \/ CleanupCtx(u) \/ CtxOrCleanupRead(u) \/ CtxOrCleanupChoose(u)
     \/ Return(u) \/ (EnsureLive(u) /\ minted' + Cardinality(Restarting) <= MaxCtx)
  /\ UNCHANGED <<inside, refused, at, built>>

OperatorStops == Stop /\ UNCHANGED <<inside, refused, at, built>>

NextCell ==
  \/ Construct \/ OperatorStops
  \/ \E m \in Manager :
       \/ ReconfigureStops(m) \/ ReconfigureTells(m) \/ PeerReturns(m)
       \/ ReconfigureStarts(m)
       \/ CloseCloses(m) \/ CloseParks(m) \/ ArmReturns(m)
  \/ \E l \in Loop : Enters(l) \/ IsRefused(l) \/ Leaves(l)
  \/ \E u \in Operator : Operate(u)

CellSpec == InitCell /\ [][NextCell]_cellVars

\* Goroutines are scheduled, cleanup contexts time out, and a stopped Run
\* returns (RunContract!StoppedRunsReturn).  A call under a live loop context
\* may hang, and so may a Run.  A go statement never blocks; fairness is strong
\* there since in the model it waits while all of Loop, a bound, is in use.
CellFairness ==
  /\ \A m \in Manager :
       /\ WF_cellVars(ReconfigureTells(m)) /\ WF_cellVars(CloseParks(m))
       /\ SF_cellVars(ReconfigureStarts(m))
       /\ WF_cellVars(op[m].at = "cleanup" /\ (PeerReturns(m) \/ ArmReturns(m)))
  /\ \A l \in Loop :
       /\ WF_cellVars(Enters(l) \/ IsRefused(l))
       /\ WF_cellVars(op[l].ctx \in cancelled /\ Leaves(l))
  /\ \A u \in Operator :
       /\ WF_cellVars(CtxOrCleanupChoose(u) /\ Operate(u))
       /\ WF_cellVars((op[u].at = "cleanup" \/ op[u].ctx \in cancelled)
                      /\ Return(u) /\ Operate(u))

FairCellSpec == CellSpec /\ CellFairness

-----------------------------------------------------------------------------

\* Every variable has its type, what is in Run was started, and the calls that
\* managers wait for are under cleanup contexts.
CellTypeOK ==
  /\ TypeOK
  /\ inside \subseteq Loop /\ refused \subseteq Loop
  /\ \A l \in inside : Started(l)
  /\ \A m \in Manager :
       op[m] = IF at[m] \in {"telling", "parking"} THEN OnCleanup ELSE None
  /\ at \in [Manager -> Place]
  /\ built \in BOOLEAN

\* A started loop is over without having been in Run: ErrAlreadyRunning.
TurnedAway(l) == Started(l) /\ l \notin inside /\ op'[l] = None

\* A loop that was started on a live context is only ever turned away by a Run on
\* that same context or by one that is cancelled and about to return: no Run
\* survives out of reach of Stop to lock every later loop out
\* (lifecycle.go:42-56, machine.go:180-185).
RefusedByUnwinding ==
  [][\A l \in Loop : TurnedAway(l) /\ Live(op[l].ctx) =>
       \E k \in inside : op[k].ctx \in cancelled \/ op[k].ctx = op[l].ctx]_cellVars

\* Reconfigure and Close return, whatever the peer or the arm does: cleanup
\* contexts are bounded (lifecycle.go:7-17, 46-52, 62-65).
TeardownReturns == \A m \in Manager : at[m] /= "idle" ~> at[m] = "idle"

-----------------------------------------------------------------------------
(***************************************************************************)
(* What the package comment says of Reconfigure.                           *)
(***************************************************************************)

\* "then start a fresh loop" (lifecycle.go:42-43): the Run that Reconfigure starts
\* on a live context is not turned away, as it is when the loop that Reconfigure
\* stopped is still, or only now, in Run.
FreshLoopStarts ==
  [][\A l \in Loop : TurnedAway(l) => op[l].ctx \in cancelled]_cellVars
=============================================================================
