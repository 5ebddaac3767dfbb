--------------------------- MODULE WatchdogProofs ---------------------------
(***************************************************************************)
(* Proofs about Watchdog, for any bound on the runs. With any number of    *)
(* goroutines that start and stop it a run reports its failure once, and   *)
(* nobody waits for a run that was not cancelled. With at most one that    *)
(* starts it, the run a Start found in place stays the last one while      *)
(* Start waits for it, so its end leaves nobody polling.                   *)
(***************************************************************************)
EXTENDS Watchdog, TLAPS

\* Whoever waits in Start or Stop waits for a run that was spawned and cancelled.
Awaits(c) == pc[c] \in {"startWait", "stopWait"}
AwaitedIsStopped ==
  \A c \in Caller : Awaits(c) => target[c] \in stopped /\ phase[target[c]] /= "none"

\* What holds with any number of starters: a run not yet spawned is untouched,
\* callers pick runs that exist and cancel them before they wait, and a run that
\* failed never polls again.
BaseInv ==
  /\ TypeOK
  /\ running => latest /= 0
  /\ \A c \in Caller :
       /\ pc[c] \in {"startCancel", "startWait", "stopCancel", "stopWait"} =>
            target[c] \in 1 .. latest
       /\ Awaits(c) => target[c] \in stopped
  /\ \A r \in Run : phase[r] = "none" <=> r > latest
  /\ \A r \in failed : phase[r] \in {"onFail", "exit", "cleared", "done"}

\* Spawning takes a number no run has had.
LEMMA SpawnKeepsBase ==
  ASSUME BaseInv, NEW c \in Caller, Spawn(c),
         UNCHANGED <<stopped, parentDone, failed, target>>
  PROVE  BaseInv'
<1> USE RunsAssumption DEF BaseInv, TypeOK, Run, Awaits
<1>1. /\ latest' = latest + 1 /\ latest' \in Run /\ latest \in 0 .. MaxRuns
      /\ phase' = [phase EXCEPT ![latest'] = "select"] /\ running'
      /\ pc' = [pc EXCEPT ![c] = "idle"]
  BY DEF Spawn, Goes
<1>2. TypeOK'
  BY <1>1 DEF Spawn, Phase, Pc
<1>3. phase[latest'] = "none" /\ latest' \notin failed
  BY <1>1
<1>4. \A r \in failed' : phase'[r] \in {"onFail", "exit", "cleared", "done"}
  BY <1>1, <1>3
<1>5. \A r \in Run : phase'[r] = "none" <=> r > latest'
  BY <1>1
<1>6. \A d \in Caller :
        /\ pc'[d] \in {"startCancel", "startWait", "stopCancel", "stopWait"} =>
             target'[d] \in 1 .. latest'
        /\ Awaits(d)' => target'[d] \in stopped'
  BY <1>1
<1>7. QED
  BY <1>1, <1>2, <1>4, <1>5, <1>6

\* A run that moves on keeps it, if it only polls again when it has not failed.
LEMMA MoveKeepsBase ==
  ASSUME BaseInv, NEW r \in Run, NEW from \in Phase, NEW to \in Phase,
         Moves(r, from, to), from /= "none", to /= "none", failed' \subseteq failed \union {r},
         r \in failed' => to \in {"onFail", "exit", "cleared", "done"},
         running' \in {running, FALSE},
         UNCHANGED <<latest, stopped, parentDone, pc, target>>
  PROVE  BaseInv'
<1> USE RunsAssumption DEF BaseInv, TypeOK, Run, Moves, Awaits
<1>1. TypeOK'
  <2>1. phase' \in [Run -> Phase]
    OBVIOUS
  <2>2. running' \in BOOLEAN /\ failed' \subseteq Run
    OBVIOUS
  <2>3. QED
    BY <2>1, <2>2
<1>2. \A s \in failed' : phase'[s] \in {"onFail", "exit", "cleared", "done"}
  OBVIOUS
<1>3. \A s \in Run : phase'[s] = "none" <=> s > latest'
  OBVIOUS
<1>4. (running' => latest' /= 0) /\ UNCHANGED <<pc, target>>
  OBVIOUS
<1>5. QED
  BY <1>1, <1>2, <1>3, <1>4

\* BaseInv is inductive, whoever starts the watchdog.
LEMMA BaseCorrect == Spec => []BaseInv
<1>1. Init => BaseInv
  <2> SUFFICES ASSUME Init PROVE BaseInv
    OBVIOUS
  <2>1. latest \in 0 .. MaxRuns /\ target \in [Caller -> 0 .. MaxRuns]
    BY RunsAssumption DEF Init
  <2>2. phase \in [Run -> Phase] /\ pc \in [Caller -> Pc] /\ running \in BOOLEAN
    BY DEF Init, Phase, Pc
  <2>3. TypeOK
    BY <2>1, <2>2 DEF TypeOK, Init
  <2>4. \A r \in Run : phase[r] = "none" /\ r > latest
    BY RunsAssumption DEF Init, Run
  <2>5. \A c \in Caller : pc[c] = "idle"
    BY DEF Init
  <2>6. QED
    BY <2>3, <2>4, <2>5 DEF BaseInv, Init, Awaits
<1>2. BaseInv /\ [Next]_vars => BaseInv'
  <2> SUFFICES ASSUME BaseInv, [Next]_vars PROVE BaseInv'
    OBVIOUS
  <2>1. ASSUME NEW c \in Caller, Start(c) PROVE BaseInv'
    <3>1. CASE running
      BY <2>1, <3>1, RunsAssumption DEF Start, Goes, BaseInv, TypeOK, Pc, Run, Awaits
    <3>2. CASE ~running
      BY <2>1, <3>2, SpawnKeepsBase DEF Start
    <3>3. QED
      BY <3>1, <3>2
  <2>2. ASSUME NEW c \in Caller, CancelTarget(c) PROVE BaseInv'
    <3>1. target[c] \in Run
      BY <2>2, RunsAssumption DEF CancelTarget, BaseInv, TypeOK, Run
    <3>2. pc' \in [Caller -> Pc]
      BY <2>2 DEF CancelTarget, Goes, BaseInv, TypeOK, Pc
    <3>3. TypeOK'
      BY <2>2, <3>1, <3>2 DEF CancelTarget, BaseInv, TypeOK
    <3>4. \A d \in Caller : target'[d] = target[d]
                            /\ (d /= c => pc'[d] = pc[d])
      BY <2>2 DEF CancelTarget, Goes, BaseInv, TypeOK
    <3>5. target[c] \in 1 .. latest /\ target[c] \in stopped'
      BY <2>2 DEF CancelTarget, BaseInv
    <3>6. QED
      BY <2>2, <3>3, <3>4, <3>5 DEF CancelTarget, BaseInv, Awaits
  <2>3. ASSUME NEW c \in Caller, AwaitDone(c) PROVE BaseInv'
    BY <2>3, RunsAssumption DEF AwaitDone, Goes, BaseInv, TypeOK, Pc, Run, Awaits
  <2>4. ASSUME NEW c \in Caller, StartAnew(c) PROVE BaseInv'
    BY <2>4, SpawnKeepsBase DEF StartAnew
  <2>5. ASSUME NEW c \in Caller, Stop(c) PROVE BaseInv'
    BY <2>5, RunsAssumption DEF Stop, Goes, BaseInv, TypeOK, Pc, Run, Awaits
  <2>6. ASSUME NEW r \in Run, ParentCancelled(r) PROVE BaseInv'
    BY <2>6 DEF ParentCancelled, BaseInv, TypeOK, Awaits
  <2>7. ASSUME NEW r \in Run,
               SelectDone(r) \/ SelectTick(r) \/ CheckReturns(r) \/ CallbackReturns(r)
                 \/ ClearRunning(r) \/ CloseDone(r)
        PROVE  BaseInv'
    <3>1. PICK from \in Phase, to \in Phase :
            /\ Moves(r, from, to) /\ from /= "none" /\ to /= "none"
            /\ failed' = failed \/ (to = "onFail" /\ failed' = failed \union {r})
            /\ to \in {"select", "check", "onTransient"} =>
                 from \in {"select", "check", "onTransient"}
      BY <2>7 DEF SelectDone, SelectTick, CheckReturns, CallbackReturns, ClearRunning,
         CloseDone, Phase
    <3>2. UNCHANGED <<latest, stopped, parentDone, pc, target>>
          /\ running' \in {running, FALSE}
      BY <2>7 DEF SelectDone, SelectTick, CheckReturns, CallbackReturns, ClearRunning,
         CloseDone
    <3>3. r \in failed => phase[r] \in {"onFail", "exit", "cleared", "done"}
      BY DEF BaseInv
    <3>4. to \in {"onFail", "exit", "cleared", "done", "select", "check", "onTransient"}
      BY <2>7, <3>1 DEF SelectDone, SelectTick, CheckReturns, CallbackReturns,
         ClearRunning, CloseDone, Moves, BaseInv, TypeOK
    <3>5. r \in failed' => to \in {"onFail", "exit", "cleared", "done"}
      BY <3>1, <3>3, <3>4 DEF Moves
    <3>6. failed' \subseteq failed \union {r}
      BY <3>1
    <3>7. QED
      BY <3>1, <3>2, <3>5, <3>6, MoveKeepsBase
  <2>8. CASE UNCHANGED vars
    BY <2>8 DEF vars, BaseInv, TypeOK, Awaits
  <2>9. QED
    BY <2>1, <2>2, <2>3, <2>4, <2>5, <2>6, <2>7, <2>8 DEF Next
<1>3. QED
  BY <1>1, <1>2, PTL DEF Spec

\* The watchdog's variables keep their types, whoever starts it.
THEOREM WatchdogTyped == Spec => []TypeOK
<1>1. BaseInv => TypeOK
  BY DEF BaseInv
<1>2. QED
  BY <1>1, BaseCorrect, PTL

\* Start and Stop only wait for a run that exists and whose context they have
\* cancelled, however the watchdog was started and stopped meanwhile; a run waits
\* for nobody, so they cannot wait on each other (watchdog.go:174-183, 199-209).
THEOREM WaitsAreShort == Spec => []AwaitedIsStopped
<1>1. BaseInv => AwaitedIsStopped
  <2> SUFFICES ASSUME BaseInv, NEW c \in Caller, Awaits(c)
               PROVE  target[c] \in stopped /\ phase[target[c]] /= "none"
    BY DEF AwaitedIsStopped
  <2>1. target[c] \in stopped /\ target[c] \in 1 .. latest /\ target[c] \in Run
    BY DEF BaseInv, Awaits, TypeOK
  <2>2. latest \in Nat /\ ~(target[c] > latest)
    BY <2>1, RunsAssumption DEF BaseInv, TypeOK
  <2>3. QED
    BY <2>1, <2>2 DEF BaseInv
<1>2. QED
  BY <1>1, BaseCorrect, PTL

\* OnFail fires at most once in a run, whoever starts the watchdog: also in a run
\* that a racing Start orphaned (watchdog.go:44-45, 129-131).
THEOREM FailureReportedOnce == Spec => OnFailOnce
<1> DEFINE Once == \A r \in Run : phase[r] /= "onFail" /\ phase'[r] = "onFail"
                                   => r \notin failed
<1>1. BaseInv /\ [Next]_vars => Once
  <2> SUFFICES ASSUME BaseInv, [Next]_vars, NEW r \in Run,
                      phase[r] /= "onFail", phase'[r] = "onFail"
               PROVE  r \notin failed
    OBVIOUS
  <2>1. CheckReturns(r)
    BY RunsAssumption
       DEF Next, vars, Start, CancelTarget, AwaitDone, StartAnew, Stop, Spawn, Goes,
       ParentCancelled, SelectDone, SelectTick, CheckReturns, CallbackReturns,
       ClearRunning, CloseDone, Moves, BaseInv, TypeOK, Run
  <2>2. phase[r] = "check"
    BY <2>1 DEF CheckReturns, Moves
  <2>3. QED
    BY <2>2 DEF BaseInv
<1>2. QED
  BY <1>1, BaseCorrect, PTL DEF Spec, OnFailOnce

-----------------------------------------------------------------------------

SingleStarter == \A c, d \in Starter : c = d

\* A run that has not yet passed the lock of its deferred function.
Busy(r) == phase[r] \in {"select", "check", "onTransient", "onFail", "exit"}

\* Only the run spawned last is busy, and `running' says whether it is; a Start
\* that waits does so for that run, and finds no one busy afterwards.
Inv ==
  /\ TypeOK
  /\ \A r \in Run : phase[r] = "none" <=> r > latest
  /\ \A r \in Run : Busy(r) => r = latest /\ running
  /\ running => latest /= 0 /\ Busy(latest)
  /\ \A c \in Caller :
       /\ pc[c] \in {"startCancel", "startWait", "spawn"} => c \in Starter
       /\ pc[c] \in {"startCancel", "startWait"} => target[c] = latest
       /\ pc[c] \in {"startCancel", "startWait", "stopCancel", "stopWait"} =>
            target[c] \in 1 .. latest
       /\ pc[c] = "spawn" => ~running

\* Spawning is safe when no run is busy.
LEMMA SpawnKeepsInv ==
  ASSUME SingleStarter, Inv, ~running, NEW c \in Starter, Spawn(c),
         pc[c] \in {"idle", "spawn"},
         UNCHANGED <<stopped, parentDone, failed, target>>
  PROVE  Inv'
<1> USE RunsAssumption DEF Inv, TypeOK, Run, Caller
<1>1. /\ latest' = latest + 1 /\ latest' \in Run /\ latest \in 0 .. MaxRuns
      /\ phase' = [phase EXCEPT ![latest'] = "select"] /\ running'
      /\ pc' = [pc EXCEPT ![c] = "idle"]
  BY DEF Spawn, Goes
<1>2. \A r \in Run : ~Busy(r)
  OBVIOUS
<1>3. TypeOK'
  BY <1>1 DEF Spawn, Phase, Pc
<1>4. \A r \in Run : phase'[r] = "none" <=> r > latest'
  BY <1>1
<1>5. \A r \in Run : Busy(r)' => r = latest' /\ running'
  BY <1>1, <1>2 DEF Busy
<1>6. latest' /= 0 /\ Busy(latest)'
  BY <1>1 DEF Busy
<1>7. \A d \in Caller :
       /\ pc'[d] \in {"startCancel", "startWait", "spawn"} => d \in Starter
       /\ pc'[d] \in {"startCancel", "startWait"} => target'[d] = latest'
       /\ pc'[d] \in {"startCancel", "startWait", "stopCancel", "stopWait"} =>
            target'[d] \in 1 .. latest'
       /\ pc'[d] = "spawn" => ~running'
  BY <1>1 DEF SingleStarter
<1>8. QED
  BY <1>3, <1>4, <1>5, <1>6, <1>7

\* A run that moves on without losing the lock's verdict keeps the invariant.
LEMMA MoveKeepsInv ==
  ASSUME Inv, NEW r \in Run, NEW from \in Phase, NEW to \in Phase, Moves(r, from, to),
         to /= "none",
         from \in {"select", "check", "onTransient", "onFail"},
         to \in {"select", "check", "onTransient", "onFail", "exit"},
         UNCHANGED <<latest, running, stopped, parentDone, pc, target>>,
         failed' \subseteq Run
  PROVE  Inv'
BY RunsAssumption DEF Inv, TypeOK, Run, Moves, Busy, Phase

\* Inv is inductive when a single goroutine starts the watchdog.
LEMMA InvCorrect == ASSUME SingleStarter PROVE Spec => []Inv
<1>1. Init => Inv
  <2> SUFFICES ASSUME Init PROVE Inv
    OBVIOUS
  <2>1. TypeOK
    <3>1. latest \in 0 .. MaxRuns /\ target \in [Caller -> 0 .. MaxRuns]
      BY RunsAssumption DEF Init
    <3>2. phase \in [Run -> Phase] /\ pc \in [Caller -> Pc]
      BY DEF Init, Phase, Pc
    <3>3. stopped \subseteq Run /\ parentDone \subseteq Run /\ failed \subseteq Run
      BY DEF Init
    <3>4. running \in BOOLEAN
      BY DEF Init
    <3>5. QED
      BY <3>1, <3>2, <3>3, <3>4 DEF TypeOK
  <2>2. /\ \A r \in Run : phase[r] = "none" /\ r > latest
        /\ \A c \in Caller : pc[c] = "idle"
        /\ ~running
    BY RunsAssumption DEF Init, Run
  <2>3. QED
    BY <2>1, <2>2 DEF Inv, Busy
<1>2. Inv /\ [Next]_vars => Inv'
  <2> SUFFICES ASSUME Inv, [Next]_vars PROVE Inv'
    OBVIOUS
  <2>1. ASSUME NEW c \in Caller, Start(c) PROVE Inv'
    <3>1. CASE running
      BY <2>1, <3>1, RunsAssumption
         DEF Start, Goes, Inv, TypeOK, Busy, Run, Pc, Caller
    <3>2. CASE ~running
      BY <2>1, <3>2, SpawnKeepsInv DEF Start
    <3>3. QED
      BY <3>1, <3>2
  <2>2. ASSUME NEW c \in Caller, CancelTarget(c) PROVE Inv'
    <3>1. /\ stopped' = stopped \union {target[c]}
          /\ pc[c] \in {"startCancel", "stopCancel"}
          /\ pc' = [pc EXCEPT ![c] = IF pc[c] = "startCancel" THEN "startWait"
                                                             ELSE "stopWait"]
          /\ UNCHANGED <<latest, running, phase, parentDone, failed, target>>
      BY <2>2 DEF CancelTarget, Goes
    <3>2. target[c] \in Run
      <4>1. target[c] \in 1 .. latest /\ latest \in 0 .. MaxRuns
        BY <3>1 DEF Inv, TypeOK
      <4>2. QED
        BY <4>1, RunsAssumption DEF Run
    <3>3. TypeOK'
      <4>1. stopped' \subseteq Run
        BY <3>1, <3>2 DEF Inv, TypeOK
      <4>2. pc' \in [Caller -> Pc]
        BY <3>1 DEF Inv, TypeOK, Pc
      <4>3. QED
        BY <3>1, <4>1, <4>2 DEF Inv, TypeOK
    <3>4. CASE pc[c] = "startCancel"
      BY <3>1, <3>3, <3>4 DEF Inv, TypeOK, Busy
    <3>5. CASE pc[c] = "stopCancel"
      BY <3>1, <3>3, <3>5 DEF Inv, TypeOK, Busy
    <3>6. QED
      BY <3>1, <3>4, <3>5
  <2>3. ASSUME NEW c \in Caller, AwaitDone(c) PROVE Inv'
    <3>1. pc[c] = "startWait" => ~running
      BY <2>3 DEF AwaitDone, Inv, Busy
    <3>2. QED
      BY <2>3, <3>1, RunsAssumption
         DEF AwaitDone, Goes, Inv, TypeOK, Busy, Run, Pc, Caller
  <2>4. ASSUME NEW c \in Caller, StartAnew(c) PROVE Inv'
    BY <2>4, SpawnKeepsInv DEF StartAnew, Inv
  <2>5. ASSUME NEW c \in Caller, Stop(c) PROVE Inv'
    BY <2>5, RunsAssumption DEF Stop, Goes, Inv, TypeOK, Busy, Run, Pc, Caller
  <2>6. ASSUME NEW r \in Run, ParentCancelled(r) PROVE Inv'
    BY <2>6 DEF ParentCancelled, Inv, TypeOK, Busy
  <2>7. ASSUME NEW r \in Run, SelectDone(r) \/ SelectTick(r) PROVE Inv'
    BY <2>7, MoveKeepsInv DEF SelectDone, SelectTick, Phase, Inv, TypeOK
  <2>8. ASSUME NEW r \in Run, CheckReturns(r) PROVE Inv'
    BY <2>8, MoveKeepsInv DEF CheckReturns, Phase, Inv, TypeOK
  <2>9. ASSUME NEW r \in Run, CallbackReturns(r) PROVE Inv'
    BY <2>9, MoveKeepsInv DEF CallbackReturns, Phase, Inv, TypeOK
  <2>10. ASSUME NEW r \in Run, ClearRunning(r) PROVE Inv'
    BY <2>10, RunsAssumption DEF ClearRunning, Moves, Inv, TypeOK, Busy, Run, Phase
  <2>11. ASSUME NEW r \in Run, CloseDone(r) PROVE Inv'
    BY <2>11, RunsAssumption DEF CloseDone, Moves, Inv, TypeOK, Busy, Run, Phase
  <2>12. CASE UNCHANGED vars
    BY <2>12 DEF vars, Inv, TypeOK, Busy
  <2>13. QED
    BY <2>1, <2>2, <2>3, <2>4, <2>5, <2>6, <2>7, <2>8, <2>9, <2>10, <2>11, <2>12
       DEF Next
<1>3. QED
  BY <1>1, <1>2, PTL DEF Spec

\* With one starter there is never an orphan: the only run that polls is the
\* one Stop and the next Start reach (watchdog.go:158-195).
THEOREM NoOrphans == ASSUME SingleStarter PROVE Spec => []OneWatcher
<1>1. Inv => OneWatcher
  BY DEF Inv, OneWatcher, Active, Busy
<1>2. QED
  BY <1>1, InvCorrect, PTL

\* With one starter Running() tells the truth (watchdog.go:213-225).
THEOREM RunningIsTrue == ASSUME SingleStarter PROVE Spec => []RunningAgrees
<1>1. Inv => RunningAgrees
  BY DEF Inv, RunningAgrees, Active, Busy
<1>2. QED
  BY <1>1, InvCorrect, PTL

\* With one starter, nothing spawned before a Stop outlives it
\* (watchdog.go:197-210).
THEOREM StopIsThorough == ASSUME SingleStarter PROVE Spec => StopSettles
<1> DEFINE Settled == \A c \in Caller : pc[c] = "stopWait" /\ pc'[c] = "idle"
                        => \A r \in 1 .. target[c] : phase[r] \in {"cleared", "done"}
<1>1. Inv /\ [Next]_vars => Settled
  <2> SUFFICES ASSUME Inv, [Next]_vars, NEW c \in Caller,
                      pc[c] = "stopWait", pc'[c] = "idle",
                      NEW r \in 1 .. target[c]
               PROVE  phase[r] \in {"cleared", "done"}
    OBVIOUS
  <2>1. AwaitDone(c)
    BY DEF Next, vars, Start, CancelTarget, AwaitDone, StartAnew, Stop, Spawn, Goes,
       ParentCancelled, SelectDone, SelectTick, CheckReturns, CallbackReturns,
       ClearRunning, CloseDone, Inv, TypeOK
  <2>2. phase[target[c]] = "done" /\ target[c] \in 1 .. latest /\ target[c] \in Run
    BY <2>1, RunsAssumption DEF AwaitDone, Inv, TypeOK, Run
  <2>3. r \in Run /\ phase[r] /= "none"
    BY <2>2, RunsAssumption DEF Inv, TypeOK, Run
  <2>4. ~Busy(r)
    BY <2>2, <2>3 DEF Inv, Busy, Run
  <2>5. QED
    BY <2>3, <2>4 DEF Busy, Inv, TypeOK, Phase
<1>2. QED
  BY <1>1, InvCorrect, PTL DEF Spec, StopSettles
=============================================================================
