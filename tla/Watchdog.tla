------------------------------ MODULE Watchdog ------------------------------
(***************************************************************************)
(* watchdog.Watchdog (src/watchdog/watchdog.go): goroutines call Start and *)
(* Stop; every Start spawns a run, numbered in order, that polls a check   *)
(* until it is cancelled, no longer needed, or the check reports a loss.   *)
(*                                                                         *)
(* w.cancel and w.done are always assigned together and belong to the run  *)
(* spawned last, so one variable, `latest', stands for both.  A run's      *)
(* context is done once that cancel function was called or its parent is.  *)
(* The check and the callbacks are user code that runs without w.mu; they  *)
(* do not call Start or Stop themselves.                                   *)
(***************************************************************************)
EXTENDS Integers, FiniteSets

CONSTANTS
  Starter,   \* goroutines that call Start
  Stopper,   \* goroutines that call Stop
  MaxRuns    \* bound on the runs spawned

ASSUME RunsAssumption == MaxRuns \in Nat \ {0}

Caller == Starter \union Stopper
Run == 1 .. MaxRuns

VARIABLES
  latest,     \* the run w.cancel and w.done belong to; 0 before the first
  running,    \* w.running
  phase,      \* where each run is
  stopped,    \* the runs whose cancel function was called
  parentDone, \* the runs whose parent context is cancelled
  failed,     \* the runs that have fired OnFail
  pc,         \* where each caller is inside Start or Stop
  target      \* the run whose end a caller waits for (prevDone, done)

vars == <<latest, running, phase, stopped, parentDone, failed, pc, target>>

Phase == {"none", "select", "check", "onTransient", "onFail", "exit", "cleared",
          "done"}
Pc == {"idle", "startCancel", "startWait", "spawn", "stopCancel", "stopWait"}

\* The runs whose context is cancelled.
Cancelled == stopped \union parentDone

\* A run is active until it starts its deferred function.
Active == {r \in Run : phase[r] \in {"select", "check", "onTransient", "onFail"}}

Init ==
  /\ latest = 0
  /\ running = FALSE
  /\ phase = [r \in Run |-> "none"]
  /\ stopped = {} /\ parentDone = {} /\ failed = {}
  /\ pc = [c \in Caller |-> "idle"]
  /\ target = [c \in Caller |-> 0]

-----------------------------------------------------------------------------
(***************************************************************************)
(* Start and Stop.                                                         *)
(***************************************************************************)

Goes(c, to) == pc' = [pc EXCEPT ![c] = to]

\* The last critical section of Start.  latest < MaxRuns bounds the model.
Spawn(c) ==
  /\ latest < MaxRuns
  /\ latest' = latest + 1
  /\ running' = TRUE
  /\ phase' = [phase EXCEPT ![latest + 1] = "select"]
  /\ Goes(c, "idle")

\* A plausible slip: Start does not look for a run already there.
StartBlindly(c) ==
  /\ pc[c] = "idle" /\ c \in Starter
  /\ Spawn(c)
  /\ UNCHANGED <<stopped, parentDone, failed, target>>

\* Start, with a run in place: remember it and unlock; otherwise spawn at once.
Start(c) ==
  /\ pc[c] = "idle" /\ c \in Starter
  /\ IF running
     THEN /\ target' = [target EXCEPT ![c] = latest]
          /\ Goes(c, "startCancel")
          /\ UNCHANGED <<latest, running, phase>>
     ELSE Spawn(c) /\ UNCHANGED target
  /\ UNCHANGED <<stopped, parentDone, failed>>

\* Start cancels the run it found, and Stop the one it read, without the lock.
CancelTarget(c) ==
  /\ pc[c] \in {"startCancel", "stopCancel"}
  /\ stopped' = stopped \union {target[c]}
  /\ Goes(c, IF pc[c] = "startCancel" THEN "startWait" ELSE "stopWait")
  /\ UNCHANGED <<latest, running, phase, parentDone, failed, target>>

\* A plausible slip: cancel without waiting for the goroutine.
AwaitNothing(c) ==
  /\ pc[c] \in {"startWait", "stopWait"}
  /\ Goes(c, IF pc[c] = "startWait" THEN "spawn" ELSE "idle")
  /\ target' = [target EXCEPT ![c] = 0]
  /\ UNCHANGED <<latest, running, phase, stopped, parentDone, failed>>

\* <-prevDone in Start, <-done in Stop.
AwaitDone(c) ==
  /\ pc[c] \in {"startWait", "stopWait"}
  /\ phase[target[c]] = "done"
  /\ Goes(c, IF pc[c] = "startWait" THEN "spawn" ELSE "idle")
  /\ target' = [target EXCEPT ![c] = 0]
  /\ UNCHANGED <<latest, running, phase, stopped, parentDone, failed>>

\* Start locks again and spawns, without looking at running a second time.
StartAnew(c) ==
  /\ pc[c] = "spawn"
  /\ Spawn(c)
  /\ UNCHANGED <<stopped, parentDone, failed, target>>

\* A plausible slip: Stop without the check for a run.
StopUnchecked(c) ==
  /\ pc[c] = "idle" /\ c \in Stopper
  /\ target' = [target EXCEPT ![c] = latest]
  /\ Goes(c, "stopCancel")
  /\ UNCHANGED <<latest, running, phase, stopped, parentDone, failed>>

\* Stop waits for the run spawned last, if there ever was one.
Stop(c) ==
  /\ pc[c] = "idle" /\ c \in Stopper
  /\ latest /= 0
  /\ target' = [target EXCEPT ![c] = latest]
  /\ Goes(c, "stopCancel")
  /\ UNCHANGED <<latest, running, phase, stopped, parentDone, failed>>

\* The parent context of a run is cancelled.
ParentCancelled(r) ==
  /\ phase[r] /= "none" /\ r \notin parentDone
  /\ parentDone' = parentDone \union {r}
  /\ UNCHANGED <<latest, running, phase, stopped, failed, pc, target>>

-----------------------------------------------------------------------------
(***************************************************************************)
(* A run.                                                                  *)
(***************************************************************************)

Moves(r, from, to) == phase[r] = from /\ phase' = [phase EXCEPT ![r] = to]

\* A plausible slip: the poll loop does not watch its context.
SelectDoneIgnored(r) == FALSE /\ Moves(r, "select", "exit")

\* The select takes ctx.Done(): with a tick ready too, it takes either.
SelectDone(r) ==
  /\ r \in Cancelled
  /\ Moves(r, "select", "exit")
  /\ UNCHANGED <<latest, running, stopped, parentDone, failed, pc, target>>

\* The select takes a tick; shouldExit decides whether to check.
SelectTick(r) ==
  /\ \/ Moves(r, "select", "exit")
     \/ Moves(r, "select", "check")
  /\ UNCHANGED <<latest, running, stopped, parentDone, failed, pc, target>>

\* check returns Healthy, Transient or Lost, also after a cancellation.
CheckReturns(r) ==
  /\ \/ Moves(r, "check", "select") /\ UNCHANGED failed
     \/ Moves(r, "check", "onTransient") /\ UNCHANGED failed
     \/ Moves(r, "check", "onFail") /\ failed' = failed \union {r}
  /\ UNCHANGED <<latest, running, stopped, parentDone, pc, target>>

\* A plausible slip: after a loss the run keeps polling.
CallbackReturnsToPolling(r) ==
  /\ \/ Moves(r, "onTransient", "select")
     \/ Moves(r, "onFail", "select")
  /\ UNCHANGED <<latest, running, stopped, parentDone, failed, pc, target>>

\* After OnTransient the run polls on, after OnFail it ends.
CallbackReturns(r) ==
  /\ \/ Moves(r, "onTransient", "select")
     \/ Moves(r, "onFail", "exit")
  /\ UNCHANGED <<latest, running, stopped, parentDone, failed, pc, target>>

\* The deferred function clears w.running under the lock ...
ClearRunning(r) ==
  /\ Moves(r, "exit", "cleared")
  /\ running' = FALSE
  /\ UNCHANGED <<latest, stopped, parentDone, failed, pc, target>>

\* A plausible slip: done is closed by the loop's other exits only.
CloseDoneUnlessFailed(r) ==
  /\ r \notin failed
  /\ Moves(r, "cleared", "done")
  /\ UNCHANGED <<latest, running, stopped, parentDone, failed, pc, target>>

\* ... and then closes done.
CloseDone(r) ==
  /\ Moves(r, "cleared", "done")
  /\ UNCHANGED <<latest, running, stopped, parentDone, failed, pc, target>>

Next ==
  \/ \E c \in Caller : \/ Start(c) \/ CancelTarget(c) \/ AwaitDone(c)
                       \/ StartAnew(c) \/ Stop(c)
  \/ \E r \in Run : \/ ParentCancelled(r) \/ SelectDone(r) \/ SelectTick(r)
                    \/ CheckReturns(r) \/ CallbackReturns(r)
                    \/ ClearRunning(r) \/ CloseDone(r)

Spec == Init /\ [][Next]_vars

\* Goroutines are scheduled; check and the callbacks return.  select chooses
\* at random among what is ready, so it takes ctx.Done() sooner or later
\* however often a tick is ready too: strong fairness.
Fairness ==
  /\ \A c \in Caller : WF_vars(CancelTarget(c)) /\ WF_vars(AwaitDone(c))
  /\ \A r \in Run :
       /\ SF_vars(SelectDone(r))
       /\ WF_vars(CheckReturns(r)) /\ WF_vars(CallbackReturns(r))
       /\ WF_vars(ClearRunning(r)) /\ WF_vars(CloseDone(r))

FairSpec == Spec /\ Fairness

-----------------------------------------------------------------------------

\* Every variable has its type.
TypeOK ==
  /\ latest \in 0 .. MaxRuns
  /\ running \in BOOLEAN
  /\ phase \in [Run -> Phase]
  /\ stopped \subseteq Run /\ parentDone \subseteq Run /\ failed \subseteq Run
  /\ pc \in [Caller -> Pc]
  /\ target \in [Caller -> 0 .. MaxRuns]

\* At most one run polls at a time, the one Start spawned last, so it is the
\* one Stop can reach: no orphan watchdogs (watchdog.go:13-17, 158-159).
OneWatcher == \A r \in Active : r = latest

\* Running() tells whether a run is polling, but for the moment between a run's
\* last look at its loop and its deferred function (watchdog.go:213-225).
RunningAgrees ==
  /\ Active /= {} => running
  /\ running => latest /= 0 /\ phase[latest] \notin {"none", "cleared", "done"}

\* When Stop returns, every run spawned before it was called is over and will
\* fire no callback any more (watchdog.go:197-210).
StopSettles ==
  [][\A c \in Caller : pc[c] = "stopWait" /\ pc'[c] = "idle"
       => \A r \in 1 .. target[c] : phase[r] \in {"cleared", "done"}]_vars

\* OnFail fires at most once in a run (watchdog.go:44-45, 129-131).
OnFailOnce ==
  [][\A r \in Run : phase[r] /= "onFail" /\ phase'[r] = "onFail" => r \notin failed]_vars

\* Start and Stop return, however the run they wait for got cancelled
\* (watchdog.go:177-184, 204-209).
CallsReturn == \A c \in Caller : pc[c] \in {"startWait", "stopWait"}
                                   ~> pc[c] \in {"spawn", "idle"}

\* A run whose context is cancelled ends (watchdog.go:162-164).
CancelledRunEnds == \A r \in Run : r \in Cancelled ~> phase[r] = "done"
=============================================================================
