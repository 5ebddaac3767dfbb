---------------------------- MODULE StateMachine ----------------------------
(***************************************************************************)
(* statemachine.Machine (src/statemachine/machine.go): one machine shared  *)
(* by goroutines that call Run, Step, Goto, Reset and RequestExit.         *)
(*                                                                         *)
(* Every critical section of m.mu is one step.  Handlers, entry hooks,     *)
(* exit hooks and the OnTransition callback run with m.mu released, so     *)
(* each has a control point of its own at which other goroutines may act.  *)
(* A call in flight is a record call[g]: its control point and the local   *)
(* variables of Run or Step that are still live there.                     *)
(*                                                                         *)
(* Error values are abstracted to the classes the code tells apart, time   *)
(* to a clock that ticks at will up to MaxTime.                            *)
(***************************************************************************)
EXTENDS Integers, FiniteSets

CONSTANTS
  State,        \* every value of type S that may reach the machine
  Initial,      \* New's initial state
  Handled,      \* states with a handler (WithHandler)
  Terminal,     \* states declared terminal (WithTerminal)
  ErrorState,   \* WithErrorState's state, or NoState when not configured
  NoState,
  EntryHooked,  \* states with a WithOnEntry hook
  ExitHooked,   \* states with a WithOnExit hook
  Caller,       \* goroutines that use the machine
  Calls,        \* Calls[g]: the methods goroutine g calls
  MaxTime       \* bound on the clock

Method == {"Run", "Step", "Goto", "Reset"}

\* The registered states.
States == Handled \union Terminal

\* What New's options configure.  New checks none of it, so the initial state
\* and the error state need not be registered.
Configured ==
  /\ Initial \in State
  /\ Handled \subseteq State /\ Terminal \subseteq State
  /\ EntryHooked \subseteq State /\ ExitHooked \subseteq State
  /\ ErrorState \in State \union {NoState}

ASSUME StateAssumption == NoState \notin State /\ Configured

ASSUME CallerAssumption == Calls \in [Caller -> SUBSET Method]

ASSUME TimeAssumption == MaxTime \in Nat

VARIABLES
  current,       \* m.current
  running,       \* m.running
  lastErr,       \* m.lastErr
  needsOnEntry,  \* m.needsOnEntry
  exitRequest,   \* the pending RequestExit: m.exitRequest and m.exitReason
  cycleStart,    \* m.cycleStartedAt
  enteredAt,     \* m.stateEnteredAt
  lastSeen,      \* m.lastSeen
  call,          \* the call each goroutine has in flight
  heard,         \* what the OnTransition callback was told, as a tally: how
                 \* often that a state was entered, less how often it was left
  now            \* the clock

clocks == <<cycleStart, enteredAt, lastSeen>>
vars == <<current, running, lastErr, needsOnEntry, exitRequest, clocks,
          call, heard, now>>

NoTime == -1
Time == 0 .. MaxTime

\* One for state t, nothing for any other.
Only(s, t) == IF s = t THEN 1 ELSE 0

\* What a handler or hook may return: nil, cancellation, or any other error.  A
\* handler that calls Goto and passes ErrAlreadyRunning on returns a fault too:
\* Run and Step look at nothing but errors.Is(err, context.Canceled).  The
\* model's "ErrAlreadyRunning" is the machine's own refusal.
UserErr == {"nil", "Canceled", "fault"}
Reason  == {"nil", "reason"}
Err == UserErr \union Reason
         \union {"noHandler", "unknownState", "ErrAlreadyRunning"}

NoRequest == [state |-> NoState, reason |-> "nil"]
Request == [state : State, reason : Reason]

Pc == {"idle", "check", "entry", "entryHook", "read", "noHandler", "handle",
       "take", "record", "exitHook", "transit", "route", "fire", "finish"}

Frame == [pc : Pc, kind : Method \union {"none"},
          state : State \union {NoState},     \* `current`; in a callback: from
          next : State \union {NoState},      \* `next`; in a callback: to
          err : Err,                          \* `err`; when idle: the result
          redirect : State \union {NoState},  \* the exit request just taken
          cancelled : BOOLEAN]                \* ctx.Err() /= nil

Returned(e) ==
  [pc |-> "idle", kind |-> "none", state |-> NoState, next |-> NoState,
   err |-> e, redirect |-> NoState, cancelled |-> FALSE]

Begun(m, pc) == [Returned("nil") EXCEPT !.pc = pc, !.kind = m]

InFlight(g, m) == call[g].pc /= "idle" /\ call[g].kind = m
Stepping == \E g \in Caller : InFlight(g, "Step")

At(g, pc) == call[g].pc = pc
Becomes(g, f) == call' = [call EXCEPT ![g] = f]
MayCall(g, m) == At(g, "idle") /\ m \in Calls[g]

-----------------------------------------------------------------------------

Init ==
  /\ current = Initial
  /\ running = FALSE
  /\ lastErr = "nil"
  /\ needsOnEntry = TRUE
  /\ exitRequest = NoRequest
  /\ cycleStart = NoTime
  /\ enteredAt = 0
  /\ lastSeen = [s \in State |-> IF s = Initial THEN 0 ELSE NoTime]
  /\ call = [g \in Caller |-> Returned("nil")]
  /\ heard = [s \in State |-> Only(s, Initial)]
  /\ now = 0

(***************************************************************************)
(* Pieces shared by the calls.                                             *)
(***************************************************************************)

\* A plausible slip: the history entry is written for the state being left.
SetCurrentStampsOld(s) ==
  /\ current' = s
  /\ enteredAt' = IF s = current THEN enteredAt ELSE now
  /\ lastSeen' = IF s = current THEN lastSeen
                                ELSE [lastSeen EXCEPT ![current] = now]

\* transitionLocked, without its needsOnEntry: a self-loop stamps nothing.
SetCurrent(s) ==
  /\ current' = s
  /\ enteredAt' = IF s = current THEN enteredAt ELSE now
  /\ lastSeen' = IF s = current THEN lastSeen
                                ELSE [lastSeen EXCEPT ![s] = now]

\* The timers; TimeSinceState is NoTime for a state never entered.
TimeInState == now - enteredAt
TimeSinceState(s) == IF lastSeen[s] = NoTime THEN NoTime ELSE now - lastSeen[s]

TransitionLocked(s) ==
  /\ SetCurrent(s)
  /\ needsOnEntry' = (needsOnEntry \/ s /= current)

\* The top of Run's loop; the locals of the last iteration are dead.
LoopTop(f) == [Begun("Run", "check") EXCEPT !.cancelled = f.cancelled]

\* Where a call goes on once its transition has been announced.
Resume(f) == IF f.kind = "Run" THEN LoopTop(f) ELSE Returned(f.err)

\* A plausible slip: transitions into the error state are not announced.
AnnouncedUnlessRouted(f, s) ==
  IF s /= current /\ f.err = "nil"
  THEN [f EXCEPT !.pc = "fire", !.state = current, !.next = s]
  ELSE Resume(f)

\* After transitionLocked(s): fire OnTransition, if the state really changed.
Announced(f, s) ==
  IF s /= current
  THEN [f EXCEPT !.pc = "fire", !.state = current, !.next = s]
  ELSE Resume(f)

\* A handler or hook failed with e.  Run treats cancellation as a clean stop;
\* Step does not look.
Failed(f, e) ==
  IF f.kind = "Run" /\ (e = "Canceled" \/ f.cancelled)
  THEN [f EXCEPT !.pc = "finish", !.err = "nil"]
  ELSE [f EXCEPT !.pc = "route", !.err = e]

\* With the handler's outcome settled on next state n: the exit hook runs if
\* the state is really left.  fireExit's critical section only reads (the hook,
\* and the time it is passed), so it is no step of its own.
Leaving(f, n) ==
  [f EXCEPT !.pc = IF n /= f.state /\ f.state \in ExitHooked
                   THEN "exitHook" ELSE "transit",
            !.next = n, !.err = "nil"]
-----------------------------------------------------------------------------
(***************************************************************************)
(* The calls' entry points.                                                *)
(***************************************************************************)

\* Run, up to its deferred function and its loop.
RunStarts(g) ==
  /\ running' = TRUE
  /\ lastErr' = "nil"
  /\ cycleStart' = IF cycleStart = NoTime THEN now ELSE cycleStart
  /\ Becomes(g, Begun("Run", "check"))
  /\ UNCHANGED <<current, needsOnEntry, exitRequest, enteredAt, lastSeen,
                 heard, now>>

\* A plausible slip: Run does not look whether one is in flight.
StartRunUnguarded(g) == MayCall(g, "Run") /\ RunStarts(g)

StartRun(g) == MayCall(g, "Run") /\ ~running /\ RunStarts(g)

\* A plausible slip: Step does not look whether a Run is in flight.
StartStepUnguarded(g) ==
  /\ MayCall(g, "Step")
  /\ Becomes(g, Begun("Step", "entry"))
  /\ UNCHANGED <<current, running, lastErr, needsOnEntry, exitRequest, clocks,
                 heard, now>>

\* Step checks running and unlocks; it does not set it.
StartStep(g) ==
  /\ MayCall(g, "Step") /\ ~running
  /\ Becomes(g, Begun("Step", "entry"))
  /\ UNCHANGED <<current, running, lastErr, needsOnEntry, exitRequest, clocks,
                 heard, now>>

\* Run, Step, Goto and Reset return ErrAlreadyRunning while a Run is in flight.
Refused(g) ==
  /\ \E m \in Method : MayCall(g, m)
  /\ running
  /\ Becomes(g, Returned("ErrAlreadyRunning"))
  /\ UNCHANGED <<current, running, lastErr, needsOnEntry, exitRequest, clocks,
                 heard, now>>

\* Goto: forces the state of an idle machine; only a registered state will do.
Goto(g, s) ==
  /\ MayCall(g, "Goto") /\ ~running
  /\ IF s \in States
     THEN /\ TransitionLocked(s)
          /\ Becomes(g, Announced(Begun("Goto", "idle"), s))
     ELSE /\ Becomes(g, Returned("unknownState"))
          /\ UNCHANGED <<current, enteredAt, lastSeen, needsOnEntry>>
  /\ UNCHANGED <<running, lastErr, exitRequest, cycleStart, heard, now>>

\* Reset: back to the initial state, whose entry hook is due again even if
\* the machine is already there.
Restart(g) ==
  /\ lastErr' = "nil"
  /\ cycleStart' = NoTime
  /\ exitRequest' = NoRequest
  /\ SetCurrent(Initial)
  /\ needsOnEntry' = TRUE
  /\ Becomes(g, Announced(Begun("Reset", "idle"), Initial))
  /\ UNCHANGED <<running, heard, now>>

\* A plausible slip: no check for a Run in flight.
ResetUnguarded(g) == MayCall(g, "Reset") /\ Restart(g)

Reset(g) == MayCall(g, "Reset") /\ ~running /\ Restart(g)

\* RequestExit, by any goroutine at any time, for any state at all.
RequestExit(s, reason) ==
  /\ exitRequest' = [state |-> s, reason |-> reason]
  /\ UNCHANGED <<current, running, lastErr, needsOnEntry, clocks, call, heard,
                 now>>

-----------------------------------------------------------------------------
(***************************************************************************)
(* Steps of a Run or Step in flight.                                       *)
(***************************************************************************)

\* A plausible slip: the loop leaves cancellation to the handlers.
CheckCtxNever(g) ==
  /\ At(g, "check")
  /\ Becomes(g, [call[g] EXCEPT !.pc = "entry"])
  /\ UNCHANGED <<current, running, lastErr, needsOnEntry, exitRequest, clocks,
                 heard, now>>

\* The ctx.Err() check at the top of Run's loop.
CheckCtx(g) ==
  /\ At(g, "check")
  /\ Becomes(g, [call[g] EXCEPT !.pc = IF call[g].cancelled THEN "finish"
                                                           ELSE "entry"])
  /\ UNCHANGED <<current, running, lastErr, needsOnEntry, exitRequest, clocks,
                 heard, now>>

\* fireEntryIfNeeded's critical section: the flag is cleared before the hook.
FireEntryIfNeeded(g) ==
  /\ At(g, "entry")
  /\ needsOnEntry' = FALSE
  /\ Becomes(g, [call[g] EXCEPT
                   !.pc = IF needsOnEntry /\ current \in EntryHooked
                          THEN "entryHook" ELSE "read"])
  /\ UNCHANGED <<current, running, lastErr, exitRequest, clocks, heard, now>>

EntryHookReturns(g) ==
  /\ At(g, "entryHook")
  /\ \E e \in UserErr :
       Becomes(g, IF e = "nil" THEN [call[g] EXCEPT !.pc = "read"]
                               ELSE Failed(call[g], e))
  /\ UNCHANGED <<current, running, lastErr, needsOnEntry, exitRequest, clocks,
                 heard, now>>

\* Read the state to dispatch on: a terminal one ends the call, one without a
\* handler is an error (which only Run records on lastErr).
ReadCurrent(g) ==
  /\ At(g, "read")
  /\ LET f == call[g]
         done == current \in Terminal
         step == f.kind = "Step"
     IN Becomes(g,
          CASE done /\ ~step -> [f EXCEPT !.pc = "finish"]
            [] done /\ step -> Returned("nil")
            [] ~done /\ current \in Handled ->
                 [f EXCEPT !.pc = "handle", !.state = current]
            [] ~done /\ current \notin Handled /\ ~step ->
                 [f EXCEPT !.pc = "noHandler", !.err = "noHandler"]
            [] ~done /\ current \notin Handled /\ step ->
                 Returned("noHandler"))
  /\ UNCHANGED <<current, running, lastErr, needsOnEntry, exitRequest, clocks,
                 heard, now>>

\* Run has no handler for the state: record that and stop.
NoHandler(g) ==
  /\ At(g, "noHandler")
  /\ lastErr' = call[g].err
  /\ Becomes(g, [call[g] EXCEPT !.pc = "finish"])
  /\ UNCHANGED <<current, running, needsOnEntry, exitRequest, clocks, heard, now>>

\* The handler returns any next state with any error.
HandlerReturns(g) ==
  /\ At(g, "handle")
  /\ \E n \in State, e \in UserErr :
       Becomes(g, [call[g] EXCEPT !.pc = "take", !.next = n, !.err = e])
  /\ UNCHANGED <<current, running, lastErr, needsOnEntry, exitRequest, clocks,
                 heard, now>>

\* What the iteration does without an exit request.
Unredirected(f) == IF f.err /= "nil" THEN Failed(f, f.err) ELSE Leaving(f, f.next)

\* A plausible slip: the handler's error still ends the iteration.
RedirectedAndFailed(f, r) ==
  Unredirected([f EXCEPT !.next = r.state, !.redirect = r.state])

\* What it does with exit request r: r.state replaces the handler's next state,
\* and the reason, or else the handler's error, is recorded first.
Redirected(f, r) ==
  LET taken == [f EXCEPT !.redirect = r.state]
      why == IF r.reason /= "nil" THEN r.reason ELSE f.err
  IN IF why = "nil" THEN Leaving(taken, r.state)
                    ELSE [taken EXCEPT !.pc = "record", !.err = why]

\* A plausible slip: the zero value of S is taken for a request.
TakeExitRequestUngated(g) ==
  /\ At(g, "take")
  /\ Becomes(g, Redirected(call[g], exitRequest))
  /\ exitRequest' = NoRequest
  /\ UNCHANGED <<current, running, lastErr, needsOnEntry, clocks, heard, now>>

\* A plausible slip: the handler's error is looked at before the request.
TakeExitRequestLate(g) ==
  /\ At(g, "take")
  /\ Becomes(g, IF call[g].err = "nil" /\ exitRequest /= NoRequest
                THEN Redirected(call[g], exitRequest)
                ELSE Unredirected(call[g]))
  /\ exitRequest' = IF call[g].err = "nil" THEN NoRequest ELSE exitRequest
  /\ UNCHANGED <<current, running, lastErr, needsOnEntry, clocks, heard, now>>

\* takeExitRequest, and what its result decides.
TakeExitRequest(g) ==
  /\ At(g, "take")
  /\ Becomes(g, IF exitRequest = NoRequest THEN Unredirected(call[g])
                                          ELSE Redirected(call[g], exitRequest))
  /\ exitRequest' = NoRequest
  /\ UNCHANGED <<current, running, lastErr, needsOnEntry, clocks, heard, now>>

\* The separate critical section that puts the reason on lastErr.
RecordReason(g) ==
  /\ At(g, "record")
  /\ lastErr' = call[g].err
  /\ Becomes(g, Leaving(call[g], call[g].redirect))
  /\ UNCHANGED <<current, running, needsOnEntry, exitRequest, clocks, heard, now>>

ExitHookReturns(g) ==
  /\ At(g, "exitHook")
  /\ \E e \in UserErr :
       Becomes(g, IF e = "nil" THEN [call[g] EXCEPT !.pc = "transit"]
                               ELSE Failed(call[g], e))
  /\ UNCHANGED <<current, running, lastErr, needsOnEntry, exitRequest, clocks,
                 heard, now>>

\* transitionLocked(next) at the end of an iteration.
Transit(g) ==
  /\ At(g, "transit")
  /\ TransitionLocked(call[g].next)
  /\ Becomes(g, Announced([call[g] EXCEPT !.redirect = NoState], call[g].next))
  /\ UNCHANGED <<running, lastErr, exitRequest, cycleStart, heard, now>>

\* What becomes of a call whose error is routed: it moves to the error state, or
\* it ends with the error.  Run loops on after the move, Step returns the error.
Routed(g) ==
  IF ErrorState = NoState
  THEN /\ Becomes(g, IF call[g].kind = "Run"
                     THEN [call[g] EXCEPT !.pc = "finish"]
                     ELSE Returned(call[g].err))
       /\ UNCHANGED <<current, enteredAt, lastSeen, needsOnEntry>>
  ELSE /\ TransitionLocked(ErrorState)
       /\ Becomes(g, Announced(call[g], ErrorState))

RecordErrorAndRoute(g) ==
  /\ At(g, "route")
  /\ lastErr' = call[g].err
  /\ Routed(g)
  /\ UNCHANGED <<running, exitRequest, cycleStart, heard, now>>

\* The OnTransition callback, invoked with m.mu released.
Fire(g) ==
  /\ At(g, "fire")
  /\ heard' = [s \in State |-> heard[s] + Only(s, call[g].next)
                                       - Only(s, call[g].state)]
  /\ Becomes(g, Resume(call[g]))
  /\ UNCHANGED <<current, running, lastErr, needsOnEntry, exitRequest, clocks,
                 now>>

\* A plausible slip: the end of a Run discards a request still pending.
FinishForgets(g) ==
  /\ At(g, "finish")
  /\ running' = FALSE
  /\ exitRequest' = NoRequest
  /\ Becomes(g, Returned(call[g].err))
  /\ UNCHANGED <<current, lastErr, needsOnEntry, clocks, heard, now>>

\* Run's deferred function.
Finish(g) ==
  /\ At(g, "finish")
  /\ running' = FALSE
  /\ Becomes(g, Returned(call[g].err))
  /\ UNCHANGED <<current, lastErr, needsOnEntry, exitRequest, clocks, heard, now>>

-----------------------------------------------------------------------------
(***************************************************************************)
(* The environment.                                                        *)
(***************************************************************************)

\* The owner of a call's context cancels it.
Cancel(g) ==
  /\ call[g].kind \in {"Run", "Step"} /\ ~call[g].cancelled
  /\ Becomes(g, [call[g] EXCEPT !.cancelled = TRUE])
  /\ UNCHANGED <<current, running, lastErr, needsOnEntry, exitRequest, clocks,
                 heard, now>>

Tick ==
  /\ now < MaxTime
  /\ now' = now + 1
  /\ UNCHANGED <<current, running, lastErr, needsOnEntry, exitRequest, clocks,
                 call, heard>>

Begin(g) ==
  \/ StartRun(g) \/ StartStep(g) \/ Refused(g) \/ Reset(g)
  \/ \E s \in State : Goto(g, s)

\* The machine's own steps: they only need the goroutine to be scheduled.
Advance(g) ==
  \/ CheckCtx(g) \/ FireEntryIfNeeded(g) \/ ReadCurrent(g) \/ NoHandler(g)
  \/ TakeExitRequest(g) \/ RecordReason(g) \/ Transit(g)
  \/ RecordErrorAndRoute(g) \/ Fire(g) \/ Finish(g)

\* User code returning to the machine.
UserReturns(g) ==
  \/ EntryHookReturns(g) \/ HandlerReturns(g) \/ ExitHookReturns(g)

Next ==
  \/ \E g \in Caller : Begin(g) \/ Advance(g) \/ UserReturns(g) \/ Cancel(g)
  \/ \E s \in State, r \in Reason : RequestExit(s, r)
  \/ Tick

Spec == Init /\ [][Next]_vars

\* Goroutines are scheduled, and user code returns once its context is
\* cancelled.  Nothing says that a handler returns otherwise.
Fairness ==
  \A g \in Caller : /\ WF_vars(Advance(g))
                    /\ WF_vars(call[g].cancelled /\ UserReturns(g))

\* What the callers see to, because Step does not: no call begins while a Step
\* is in flight.  A Step has the machine to itself but for callbacks still to
\* return from an earlier Goto or Reset; Run, Goto, Reset and RequestExit
\* interleave as they like.
ApartNext ==
  \/ \E g \in Caller : Begin(g) /\ ~Stepping
  \/ \E g \in Caller : Advance(g) \/ UserReturns(g) \/ Cancel(g)
  \/ \E s \in State, r \in Reason : RequestExit(s, r)
  \/ Tick

ApartSpec == Init /\ [][ApartNext]_vars

FairApartSpec == ApartSpec /\ Fairness

-----------------------------------------------------------------------------
(***************************************************************************)
(* Properties.                                                             *)
(***************************************************************************)

\* Every variable of the machine and of its callers has its type.
TypeOK ==
  /\ current \in State
  /\ running \in BOOLEAN
  /\ lastErr \in Err
  /\ needsOnEntry \in BOOLEAN
  /\ exitRequest \in Request \union {NoRequest}
  /\ cycleStart \in Time \union {NoTime}
  /\ enteredAt \in Time
  /\ lastSeen \in [State -> Time \union {NoTime}]
  /\ call \in [Caller -> Frame]
  /\ heard \in [State -> Int]
  /\ now \in Time

\* The running flag is up exactly while a Run call is between its entry and
\* its return, and there is never a second such call, whatever else is called
\* (Run, machine.go:180-199).
OneRunLoop ==
  /\ running = \E g \in Caller : InFlight(g, "Run")
  /\ \A g, h \in Caller : InFlight(g, "Run") /\ InFlight(h, "Run") => g = h

\* Control points at which a call acts on the state it read for dispatch.
Dispatched(g) ==
  call[g].pc \in {"handle", "take", "record", "exitHook", "transit"}

\* From the read of the current state to the end of the iteration, a Run acts
\* on the state the machine is really in, so its handler, its exit hook and
\* its transition all belong to that state; and by then the state's entry hook
\* has been started (Run, machine.go:209-285).
NoStaleDispatch ==
  \A g \in Caller : Dispatched(g) => call[g].state = current /\ ~needsOnEntry

\* An error Run is about to return is the one LastError reports
\* (machine.go:209-234, 258-279, 315-326).
SurfacedErrorRecorded ==
  \A g \in Caller : At(g, "finish") /\ call[g].err /= "nil"
                      => lastErr = call[g].err

Arriving(s)  == {g \in Caller : At(g, "fire") /\ call[g].next = s}
Departing(s) == {g \in Caller : At(g, "fire") /\ call[g].state = s}

\* Every change of state is announced once and for what it is, whoever makes it
\* and in whichever order the callbacks get to run: what the observer has been
\* told, with what it is about to be told, adds up to having entered the
\* current state and left every other as often as it was entered
\* (machine.go:296, 311-326, 421-425, 494-499, 527-531, options.go:83-94).
TransitionsAddUp ==
  \A s \in State : heard[s] + Cardinality(Arriving(s)) - Cardinality(Departing(s))
                    = Only(s, current)

\* Once a Run or Step has taken an exit request, the only thing that keeps it
\* from landing in the requested state is a failing exit hook of the state it
\* leaves (machine.go:245-279).
RedirectDroppedOnlyByExitHook ==
  \A g \in Caller :
    At(g, "route") \/ At(g, "finish") =>
      call[g].redirect = NoState \/ call[g].state \in ExitHooked

\* A pending exit request leaves the machine only by being taken after a
\* handler returned, or by a Reset; in particular it survives the end of a Run
\* and the start of the next one (machine.go:467-481, 520-523).
RequestKeptUntilTaken ==
  [][exitRequest /= NoRequest /\ exitRequest' = NoRequest =>
       \/ \E g \in Caller : At(g, "take") /\ ~At(g, "take")'
       \/ ~running /\ current' = Initial /\ needsOnEntry']_vars

\* The cycle clock is set throughout every Run, never restarts while one is in
\* flight, and once set is only ever cleared, so that a pause and resume
\* measure the same cycle (machine.go:83-86, 190-192, 517).
CycleClock ==
  [][/\ running' => cycleStart' /= NoTime
     /\ cycleStart /= NoTime => \/ cycleStart' = cycleStart
                                \/ cycleStart' = NoTime /\ ~running]_vars

\* The timers agree: the current state is the one most recently entered, for
\* which TimeSinceState equals TimeInState (machine.go:294-309, 564-568,
\* 592-605).  Entered is what transitionLocked calls it: a Reset of a machine
\* that is already in its initial state enters nothing and restamps nothing,
\* although line 570 has TimeInState count from a Reset.
HistoryAgrees ==
  /\ TimeInState >= 0
  /\ TimeSinceState(current) = TimeInState
  /\ \A s \in State : TimeSinceState(s) = NoTime \/ TimeSinceState(s) >= TimeInState

\* A call whose context is cancelled returns (machine.go:202-204, 211, 259, 272).
CancelledCallReturns ==
  \A g \in Caller : call[g].cancelled ~> At(g, "idle")

\* A request staged while a cancelled handler is still executing is picked up
\* (machine.go:238-245): the watchdog idiom RequestExit, then Stop.
RequestPickedUp ==
  \A g \in Caller :
    At(g, "handle") /\ call[g].cancelled /\ exitRequest /= NoRequest
      ~> exitRequest = NoRequest

-----------------------------------------------------------------------------
(***************************************************************************)
(* The machine implements the contract of Run.                             *)
(***************************************************************************)

Contract == INSTANCE RunContract WITH
  inside  <- {g \in Caller : InFlight(g, "Run")},
  stopped <- {g \in Caller : InFlight(g, "Run") /\ call[g].cancelled},
  refused <- {g \in Caller : At(g, "idle") /\ call[g].err = "ErrAlreadyRunning"}

\* Seen by its callers the machine only ever does what RunContract allows: a Run
\* begins when no other is in flight, ErrAlreadyRunning is returned exactly to
\* those who call while another goroutine is in Run, and never to the one inside,
\* whatever handlers and hooks return; an ErrAlreadyRunning a handler passes on
\* is a fault here, though Run's caller cannot tell the two apart (machine.go:157-158, 180-199, 364-376,
\* 484-490, 509-515).
KeepsContract == Contract!Spec

-----------------------------------------------------------------------------
(***************************************************************************)
(* What a comment of the source promises and the code does not keep.       *)
(***************************************************************************)

\* "Run and Step are mutually exclusive" (machine.go:42-43): no two goroutines
\* execute a handler at the same time.
RunStepExclusive ==
  \A g, h \in Caller : At(g, "handle") /\ At(h, "handle") => g = h
=============================================================================
