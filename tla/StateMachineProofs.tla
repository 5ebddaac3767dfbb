------------------------- MODULE StateMachineProofs -------------------------
(***************************************************************************)
(* Proofs about StateMachine, for every set of states, hooks, callers and  *)
(* methods.                                                                *)
(*                                                                         *)
(* The argument: each frame has a shape (what its control point says of    *)
(* its locals), and every operator that builds a frame keeps the shape.    *)
(* Given the shapes, `running' counts the Run calls in flight, so two Runs *)
(* never overlap; when no call begins during a Step either, whoever moves  *)
(* the machine is alone in it, and the state it dispatched on stays        *)
(* current.  What the observer was told and what the frames are still to   *)
(* tell it are counted together.  At the end, the refinement of            *)
(* RunContract, step by step.                                              *)
(***************************************************************************)
EXTENDS StateMachine, FiniteSetTheorems, TLAPS

USE DEF Configured

Locals == {"check", "entry", "entryHook", "read", "handle", "exitHook",
           "transit"}

\* What a frame's control point says of its locals.
Shape(f) ==
  /\ f.pc = "idle" <=> f.kind = "none"
  /\ f.kind \in {"Goto", "Reset"} => f.pc = "fire"
  /\ f.pc \in {"check", "noHandler", "finish"} => f.kind = "Run"
  /\ f.pc \in {"take", "exitHook", "transit", "fire"} => f.next \in State
  /\ f.pc = "record" => f.redirect \in State
  /\ f.pc \in Locals => f.err = "nil"
  /\ f.pc \in {"check", "entry", "entryHook", "read", "noHandler", "handle",
               "take"} => f.redirect = NoState
  /\ f.pc = "exitHook" => f.state \in ExitHooked
  /\ f.pc \in {"route", "finish"} =>
       f.redirect = NoState \/ f.state \in ExitHooked

GoodFrame == {f \in Frame : Shape(f)}

TInv ==
  /\ TypeOK
  /\ call \in [Caller -> GoodFrame]

-----------------------------------------------------------------------------
(***************************************************************************)
(* The operators that build frames keep the shape, and the kind of call    *)
(* unless they end it.                                                     *)
(***************************************************************************)

\* A returned call is an idle frame.
LEMMA ReturnedGood ==
  ASSUME NEW e \in Err
  PROVE  Returned(e) \in GoodFrame /\ Returned(e).kind = "none"
BY StateAssumption DEF Returned, GoodFrame, Frame, Shape, Pc, Locals, Method

\* The first frames of Run and Step.
LEMMA BegunGood ==
  /\ Begun("Run", "check") \in GoodFrame /\ Begun("Run", "check").kind = "Run"
  /\ Begun("Step", "entry") \in GoodFrame /\ Begun("Step", "entry").kind = "Step"
BY DEF Begun, Returned, GoodFrame, Frame, Shape, Pc, Locals, Method, Err, UserErr, Reason

\* The top of Run's loop is a Run.
LEMMA LoopTopGood ==
  ASSUME NEW f \in Frame
  PROVE  LoopTop(f) \in GoodFrame /\ LoopTop(f).kind = "Run"
BY DEF LoopTop, Begun, Returned, GoodFrame, Frame, Shape, Pc, Locals, Method, Err,
       UserErr, Reason

\* After its transition a call goes on as the same kind, or is over.
LEMMA ResumeGood ==
  ASSUME NEW f \in Frame
  PROVE  /\ Resume(f) \in GoodFrame
         /\ f.kind = "Run" => Resume(f).kind = "Run"
         /\ f.kind /= "Run" => Resume(f).kind = "none"
         /\ Resume(f).pc \in {"check", "idle"}
<1>1. f.err \in Err
  BY DEF Frame
<1>2. CASE f.kind = "Run"
  BY <1>2, LoopTopGood DEF Resume, LoopTop, Begun, Returned
<1>3. CASE f.kind /= "Run"
  BY <1>1, <1>3, ReturnedGood DEF Resume, Returned
<1>4. QED
  BY <1>2, <1>3

\* So does a call that announces its transition.
LEMMA AnnouncedGood ==
  ASSUME NEW f \in Frame, NEW s \in State, f.kind /= "none", current \in State
  PROVE  /\ Announced(f, s) \in GoodFrame
         /\ f.kind = "Run" => Announced(f, s).kind = "Run"
         /\ Announced(f, s).kind \in {f.kind, "none"}
         /\ Announced(f, s).pc \in {"check", "idle", "fire"}
<1>1. CASE s /= current
  BY <1>1 DEF Announced, GoodFrame, Frame, Shape, Pc, Locals, Method
<1>2. CASE s = current
  BY <1>2, ResumeGood DEF Announced
<1>3. QED
  BY <1>1, <1>2

\* A failed handler or hook ends the iteration.
LEMMA FailedGood ==
  ASSUME NEW f \in Frame, NEW e \in Err, f.kind \in {"Run", "Step"},
         f.redirect = NoState \/ f.state \in ExitHooked
  PROVE  /\ Failed(f, e) \in GoodFrame
         /\ Failed(f, e).kind = f.kind
         /\ Failed(f, e).pc \in {"finish", "route"}
         /\ Failed(f, e).pc = "finish" => Failed(f, e).err = "nil"
BY DEF Failed, GoodFrame, Frame, Shape, Pc, Locals, Method, Err, UserErr, Reason

\* With next state n the iteration goes on to the exit hook or the transition.
LEMMA LeavingGood ==
  ASSUME NEW f \in Frame, NEW n \in State, f.kind \in {"Run", "Step"}
  PROVE  /\ Leaving(f, n) \in GoodFrame
         /\ Leaving(f, n).kind = f.kind
         /\ Leaving(f, n).state = f.state
         /\ Leaving(f, n).pc \in {"exitHook", "transit"}
<1>1. CASE n /= f.state /\ f.state \in ExitHooked
  <2>1. Leaving(f, n) = [f EXCEPT !.pc = "exitHook", !.next = n, !.err = "nil"]
    BY <1>1 DEF Leaving
  <2>2. QED
    BY <1>1, <2>1 DEF GoodFrame, Frame, Shape, Pc, Locals, Method, Err, UserErr, Reason
<1>2. CASE ~(n /= f.state /\ f.state \in ExitHooked)
  <2>1. Leaving(f, n) = [f EXCEPT !.pc = "transit", !.next = n, !.err = "nil"]
    BY <1>2 DEF Leaving
  <2>2. QED
    BY <2>1 DEF GoodFrame, Frame, Shape, Pc, Locals, Method, Err, UserErr, Reason
<1>3. QED
  BY <1>1, <1>2

\* Without a request, the handler's own outcome decides.
LEMMA UnredirectedGood ==
  ASSUME NEW f \in Frame, f.kind \in {"Run", "Step"}, f.redirect = NoState,
         f.next \in State
  PROVE  /\ Unredirected(f) \in GoodFrame
         /\ Unredirected(f).kind = f.kind
         /\ Unredirected(f).pc \in {"finish", "route", "exitHook", "transit"}
         /\ Unredirected(f).pc \in {"exitHook", "transit"} =>
              Unredirected(f).state = f.state
         /\ Unredirected(f).pc = "finish" => Unredirected(f).err = "nil"
<1>1. f.err \in Err
  BY DEF Frame
<1>2. QED
  BY <1>1, FailedGood, LeavingGood DEF Unredirected

\* A call that has a reason to record keeps its redirect meanwhile.
LEMMA RecordGood ==
  ASSUME NEW f \in Frame, NEW e \in Err, f.kind \in {"Run", "Step"},
         f.redirect \in State
  PROVE  /\ [f EXCEPT !.pc = "record", !.err = e] \in GoodFrame
         /\ [f EXCEPT !.pc = "record", !.err = e].kind = f.kind
         /\ [f EXCEPT !.pc = "record", !.err = e].state = f.state
         /\ [f EXCEPT !.pc = "record", !.err = e].pc = "record"
BY DEF GoodFrame, Frame, Shape, Pc, Locals, Method

\* With a request, its state is the next one.
LEMMA RedirectedGood ==
  ASSUME NEW f \in Frame, NEW r \in Request, f.kind \in {"Run", "Step"}
  PROVE  /\ Redirected(f, r) \in GoodFrame
         /\ Redirected(f, r).kind = f.kind
         /\ Redirected(f, r).state = f.state
         /\ Redirected(f, r).pc \in {"record", "exitHook", "transit"}
<1> DEFINE taken == [f EXCEPT !.redirect = r.state]
           why == IF r.reason /= "nil" THEN r.reason ELSE f.err
<1>1. taken \in Frame /\ taken.kind = f.kind /\ taken.state = f.state
      /\ taken.redirect = r.state /\ r.state \in State
  BY DEF Frame, Request
<1>2. why \in Err
  BY DEF Frame, Request, Err, Reason
<1>3. Redirected(f, r) = IF why = "nil" THEN Leaving(taken, r.state)
                         ELSE [taken EXCEPT !.pc = "record", !.err = why]
  BY DEF Redirected
<1> HIDE DEF taken, why
<1>4. CASE why = "nil"
  BY <1>1, <1>3, <1>4, LeavingGood
<1>5. CASE why /= "nil"
  <2> DEFINE h == [taken EXCEPT !.pc = "record", !.err = why]
  <2>1. taken.kind \in {"Run", "Step"} /\ taken.redirect \in State
    BY <1>1
  <2>2. h \in GoodFrame /\ h.kind = taken.kind /\ h.state = taken.state /\ h.pc = "record"
    BY <1>1, <1>2, <2>1, RecordGood
  <2>3. Redirected(f, r) = h
    BY <1>3, <1>5
  <2> HIDE DEF h
  <2>4. QED
    BY <1>1, <2>2, <2>3
<1>6. QED
  BY <1>4, <1>5
-----------------------------------------------------------------------------
(***************************************************************************)
(* What each action does to the frames, and that it keeps the types.       *)
(***************************************************************************)

\* Goroutine g replaces its own frame by f.
Reframes(g, f) ==
  /\ f \in GoodFrame
  /\ call' = [call EXCEPT ![g] = f]

\* A step of g inside a call: its kind stays, or a call other than Run ends.
InCall(g) ==
  /\ call[g].kind \in Method
  /\ \E f \in GoodFrame :
       /\ Reframes(g, f)
       /\ f.kind = call[g].kind \/ (call[g].kind /= "Run" /\ f.kind = "none")
  /\ running' = running

\* transitionLocked keeps the types of the variables it assigns.
LEMMA SetCurrentType ==
  ASSUME TypeOK, NEW s \in State, SetCurrent(s)
  PROVE  /\ current' \in State /\ enteredAt' \in Time
         /\ lastSeen' \in [State -> Time \union {NoTime}]
BY DEF TypeOK, SetCurrent

\* A frame of the current state is good.
LEMMA FrameGood ==
  ASSUME TInv, NEW g \in Caller
  PROVE  call[g] \in Frame /\ Shape(call[g]) /\ call[g] \in GoodFrame
BY DEF TInv, GoodFrame

\* The entry points keep the types; only StartRun leaves a Run in flight.
LEMMA BeginEffect ==
  ASSUME TInv, NEW g \in Caller, Begin(g)
  PROVE  /\ TypeOK'
         /\ \E f \in GoodFrame :
              /\ Reframes(g, f)
              /\ call[g].kind = "none"
              /\ f.kind = "Run" <=> StartRun(g)
              /\ f.kind /= "none" => f.kind \in Calls[g]
              /\ f.pc \in {"idle", "check", "entry", "fire"}
         /\ running' <=> running \/ StartRun(g)
<1>0. call[g].kind = "none"
  BY FrameGood DEF Begin, StartRun, StartStep, Refused, Goto, Reset, MayCall, At, Shape
<1>1. CASE StartRun(g)
  <2>1. Reframes(g, Begun("Run", "check")) /\ "Run" \in Calls[g]
    BY <1>1, BegunGood DEF StartRun, RunStarts, Becomes, Reframes, MayCall
  <2>2. TypeOK'
    BY <1>1, <2>1, BegunGood DEF StartRun, RunStarts, TypeOK, TInv, Reframes, GoodFrame, Err, UserErr
  <2>3. Begun("Run", "check").pc = "check"
    BY DEF Begun, Returned
  <2>4. running' = TRUE
    BY <1>1 DEF StartRun, RunStarts
  <2>5. QED
    BY <1>0, <1>1, <2>1, <2>2, <2>3, <2>4, BegunGood
<1>2. CASE StartStep(g)
  <2>1. Reframes(g, Begun("Step", "entry")) /\ "Step" \in Calls[g]
    BY <1>2, BegunGood DEF StartStep, Becomes, Reframes, MayCall
  <2>2. TypeOK'
    BY <1>2, <2>1, BegunGood DEF StartStep, TypeOK, TInv, Reframes, GoodFrame, clocks
  <2>3. Begun("Step", "entry").pc = "entry"
    BY DEF Begun, Returned
  <2>4. (running' <=> running) /\ ~running
    BY <1>2 DEF StartStep
  <2>5. ~StartRun(g)
    BY <2>4 DEF StartRun, RunStarts
  <2>6. QED
    BY <1>0, <2>1, <2>2, <2>3, <2>4, <2>5, BegunGood
<1>3. CASE Refused(g)
  <2>0. "ErrAlreadyRunning" \in Err
    BY DEF Err
  <2>1. Reframes(g, Returned("ErrAlreadyRunning"))
    BY <1>3, <2>0, ReturnedGood DEF Refused, Becomes, Reframes
  <2>2. TypeOK'
    BY <1>3, <2>1 DEF Refused, TypeOK, TInv, Reframes, GoodFrame, clocks
  <2>3. Returned("ErrAlreadyRunning").pc = "idle"
    BY DEF Returned
  <2>4. running' /\ running
    BY <1>3 DEF Refused
  <2>5. ~StartRun(g)
    BY <2>4 DEF StartRun
  <2>6. QED
    BY <1>0, <2>0, <2>1, <2>2, <2>3, <2>4, <2>5, ReturnedGood
<1>4. CASE Reset(g)
  <2> DEFINE b == Begun("Reset", "idle")
  <2>1. b \in Frame /\ b.kind = "Reset"
    BY DEF Begun, Returned, Frame, Pc, Method, Err, UserErr
  <2>2. Announced(b, Initial) \in GoodFrame
        /\ Announced(b, Initial).kind \in {"Reset", "none"}
        /\ Announced(b, Initial).pc \in {"check", "idle", "fire"}
    BY <2>1, StateAssumption, AnnouncedGood DEF TInv, TypeOK
  <2>3. Reframes(g, Announced(b, Initial)) /\ "Reset" \in Calls[g]
    BY <1>4, <2>2 DEF Reset, Restart, Becomes, Reframes, MayCall
  <2>4. TypeOK'
    BY <1>4, <2>3, StateAssumption, SetCurrentType
       DEF Reset, Restart, TypeOK, TInv, Reframes, GoodFrame, Err, UserErr
  <2>5. (running' <=> running) /\ ~running
    BY <1>4 DEF Reset, Restart
  <2>6. ~StartRun(g)
    BY <2>5 DEF StartRun, RunStarts
  <2>7. QED
    BY <1>0, <2>2, <2>3, <2>4, <2>5, <2>6
<1>5. CASE \E s \in State : Goto(g, s)
  <2> PICK s \in State : Goto(g, s)
    BY <1>5
  <2> DEFINE b == Begun("Goto", "idle")
             a == IF s \in States THEN Announced(b, s)
                                                   ELSE Returned("unknownState")
  <2>1. b \in Frame /\ b.kind = "Goto" /\ "unknownState" \in Err
    BY DEF Begun, Returned, Frame, Pc, Method, Err, UserErr
  <2>2. a \in GoodFrame /\ a.kind \in {"Goto", "none"}
        /\ a.pc \in {"check", "idle", "fire"}
    <3>1. Returned("unknownState").pc = "idle"
      BY DEF Returned
    <3>2. QED
      BY <2>1, <3>1, AnnouncedGood, ReturnedGood DEF TInv, TypeOK
  <2>3. Reframes(g, a) /\ "Goto" \in Calls[g]
    BY <2>2 DEF Goto, Becomes, Reframes, MayCall
  <2>4. current' \in State /\ enteredAt' \in Time
        /\ lastSeen' \in [State -> Time \union {NoTime}] /\ needsOnEntry' \in BOOLEAN
    BY SetCurrentType DEF Goto, TransitionLocked, TypeOK, TInv
  <2>5. TypeOK'
    BY <2>3, <2>4 DEF Goto, TypeOK, TInv, Reframes, GoodFrame
  <2>6. (running' <=> running) /\ ~running
    BY DEF Goto
  <2>7. ~StartRun(g)
    BY <2>6 DEF StartRun, RunStarts
  <2>8. QED
    BY <1>0, <2>2, <2>3, <2>5, <2>6, <2>7
<1>6. QED
  BY <1>1, <1>2, <1>3, <1>4, <1>5 DEF Begin
\* What makes a step of g one inside its call.
LEMMA InCallIntro ==
  ASSUME NEW g \in Caller, NEW f \in GoodFrame,
         call' = [call EXCEPT ![g] = f], running' = running,
         call[g].kind \in Method, call[g].pc /= "finish",
         f.kind = call[g].kind \/ (call[g].kind /= "Run" /\ f.kind = "none")
  PROVE  InCall(g) /\ ~Finish(g)
<1>1. ~Finish(g)
  BY DEF Finish, At
<1>2. Reframes(g, f)
  BY DEF Reframes
<1>3. QED
  BY <1>1, <1>2 DEF InCall

\* The machine's own steps keep the types and stay in their call, but for
\* Run's deferred function, which ends it.
LEMMA AdvanceEffect ==
  ASSUME TInv, NEW g \in Caller, Advance(g)
  PROVE  /\ TypeOK'
         /\ ~Finish(g) => InCall(g)
         /\ Finish(g) => /\ Reframes(g, Returned(call[g].err))
                         /\ call[g].kind = "Run" /\ running' = FALSE
<1> DEFINE f == call[g]
<1>0. f \in Frame /\ Shape(f) /\ f.err \in Err
  BY FrameGood DEF Frame
<1>1. CASE CheckCtx(g)
  <2> DEFINE h == [f EXCEPT !.pc = IF f.cancelled THEN "finish" ELSE "entry"]
  <2>1. f.pc = "check" /\ call' = [call EXCEPT ![g] = h]
    BY <1>1 DEF CheckCtx, At, Becomes
  <2>2. h \in GoodFrame /\ h.kind = f.kind
    BY <1>0, <2>1 DEF GoodFrame, Frame, Shape, Pc, Locals, Method
  <2>3. TypeOK'
    BY <1>1, <2>1, <2>2 DEF CheckCtx, TypeOK, TInv, GoodFrame, clocks
  <2>4. InCall(g) /\ ~Finish(g)
    <3>1. running' = running
      BY <1>1 DEF CheckCtx
    <3>2. f.kind \in Method
      BY <1>0, <2>1 DEF Shape, Frame, Method
    <3>3. QED
      BY <2>1, <2>2, <3>1, <3>2, InCallIntro
  <2>5. QED
    BY <2>3, <2>4
<1>2. CASE FireEntryIfNeeded(g)
  <2> DEFINE h == [f EXCEPT !.pc = IF needsOnEntry /\ current \in EntryHooked
                                   THEN "entryHook" ELSE "read"]
  <2>1. f.pc = "entry" /\ call' = [call EXCEPT ![g] = h]
    BY <1>2 DEF FireEntryIfNeeded, At, Becomes
  <2>2. h \in GoodFrame /\ h.kind = f.kind
    BY <1>0, <2>1 DEF GoodFrame, Frame, Shape, Pc, Locals, Method
  <2>3. TypeOK'
    BY <1>2, <2>1, <2>2 DEF FireEntryIfNeeded, TypeOK, TInv, GoodFrame, clocks
  <2>4. InCall(g) /\ ~Finish(g)
    <3>1. running' = running
      BY <1>2 DEF FireEntryIfNeeded
    <3>2. f.kind \in Method
      BY <1>0, <2>1 DEF Shape, Frame, Method
    <3>3. QED
      BY <2>1, <2>2, <3>1, <3>2, InCallIntro
  <2>5. QED
    BY <2>3, <2>4
<1>3. CASE ReadCurrent(g)
  <2>1. f.pc = "read" /\ f.kind \in {"Run", "Step"}
    BY <1>0, <1>3 DEF ReadCurrent, At, Shape, Frame, Method
  <2>2. PICK h \in GoodFrame : /\ Becomes(g, h)
                               /\ h.kind = f.kind \/ (f.kind /= "Run" /\ h.kind = "none")
    <3>1. [f EXCEPT !.pc = "finish"] \in GoodFrame \/ f.kind = "Step"
      BY <1>0, <2>1 DEF GoodFrame, Frame, Shape, Pc, Locals, Method
    <3>2. [f EXCEPT !.pc = "handle", !.state = current] \in GoodFrame
      BY <1>0, <2>1 DEF GoodFrame, Frame, Shape, Pc, Locals, Method, TInv, TypeOK
    <3>3. [f EXCEPT !.pc = "noHandler", !.err = "noHandler"] \in GoodFrame
          \/ f.kind = "Step"
      BY <1>0, <2>1 DEF GoodFrame, Frame, Shape, Pc, Locals, Method, Err
    <3>4. Returned("nil") \in GoodFrame /\ Returned("noHandler") \in GoodFrame
          /\ Returned("nil").kind = "none" /\ Returned("noHandler").kind = "none"
      BY ReturnedGood DEF Err, UserErr
    <3>5. CASE current \in Terminal /\ f.kind /= "Step"
      BY <1>0, <1>3, <3>1, <3>5 DEF ReadCurrent, Frame
    <3>6. CASE current \in Terminal /\ f.kind = "Step"
      BY <1>3, <3>4, <3>6 DEF ReadCurrent
    <3>7. CASE current \notin Terminal /\ current \in Handled
      BY <1>0, <1>3, <3>2, <3>7 DEF ReadCurrent, Frame
    <3>8. CASE current \notin Terminal /\ current \notin Handled /\ f.kind /= "Step"
      BY <1>0, <1>3, <3>3, <3>8 DEF ReadCurrent, Frame
    <3>9. CASE current \notin Terminal /\ current \notin Handled /\ f.kind = "Step"
      BY <1>3, <3>4, <3>9 DEF ReadCurrent
    <3>10. QED
      BY <3>5, <3>6, <3>7, <3>8, <3>9
  <2>3. TypeOK'
    BY <1>3, <2>2 DEF ReadCurrent, Becomes, TypeOK, TInv, GoodFrame, clocks
  <2>4. InCall(g) /\ ~Finish(g)
    <3>1. running' = running
      BY <1>3 DEF ReadCurrent
    <3>2. f.kind \in Method
      BY <1>0, <2>1 DEF Shape, Frame, Method
    <3>3. QED
      BY <2>1, <2>2, <3>1, <3>2, InCallIntro DEF Becomes
  <2>5. QED
    BY <2>3, <2>4
<1>4. CASE NoHandler(g)
  <2> DEFINE h == [f EXCEPT !.pc = "finish"]
  <2>1. f.pc = "noHandler" /\ call' = [call EXCEPT ![g] = h]
    BY <1>4 DEF NoHandler, At, Becomes
  <2>2. h \in GoodFrame /\ h.kind = f.kind
    BY <1>0, <2>1 DEF GoodFrame, Frame, Shape, Pc, Locals, Method
  <2>3. TypeOK'
    BY <1>0, <1>4, <2>1, <2>2 DEF NoHandler, TypeOK, TInv, GoodFrame, clocks
  <2>4. InCall(g) /\ ~Finish(g)
    <3>1. running' = running
      BY <1>4 DEF NoHandler
    <3>2. f.kind \in Method
      BY <1>0, <2>1 DEF Shape, Frame, Method
    <3>3. QED
      BY <2>1, <2>2, <3>1, <3>2, InCallIntro
  <2>5. QED
    BY <2>3, <2>4
<1>5. CASE TakeExitRequest(g)
  <2> DEFINE h == IF exitRequest = NoRequest THEN Unredirected(f)
                                            ELSE Redirected(f, exitRequest)
  <2>1. /\ f.pc = "take" /\ f.next \in State /\ f.redirect = NoState
        /\ f.kind \in {"Run", "Step"} /\ call' = [call EXCEPT ![g] = h]
    BY <1>0, <1>5 DEF TakeExitRequest, At, Becomes, Shape, Frame, Method
  <2>2. h \in GoodFrame /\ h.kind = f.kind
    <3>1. exitRequest = NoRequest \/ exitRequest \in Request
      BY DEF TInv, TypeOK
    <3>2. QED
      BY <1>0, <2>1, <3>1, UnredirectedGood, RedirectedGood
  <2> HIDE DEF h
  <2>3. TypeOK'
    BY <1>5, <2>1, <2>2 DEF TakeExitRequest, TypeOK, TInv, GoodFrame, clocks
  <2>4. InCall(g) /\ ~Finish(g)
    <3>1. running' = running
      BY <1>5 DEF TakeExitRequest
    <3>2. f.kind \in Method
      BY <1>0, <2>1 DEF Shape, Frame, Method
    <3>3. QED
      BY <2>1, <2>2, <3>1, <3>2, InCallIntro
  <2>5. QED
    BY <2>3, <2>4
<1>6. CASE RecordReason(g)
  <2> DEFINE h == Leaving(f, f.redirect)
  <2>1. /\ f.pc = "record" /\ f.redirect \in State /\ f.kind \in {"Run", "Step"}
        /\ call' = [call EXCEPT ![g] = h]
    BY <1>0, <1>6 DEF RecordReason, At, Becomes, Shape, Frame, Method
  <2>2. h \in GoodFrame /\ h.kind = f.kind
    BY <1>0, <2>1, LeavingGood
  <2> HIDE DEF h
  <2>3. TypeOK'
    BY <1>0, <1>6, <2>1, <2>2 DEF RecordReason, TypeOK, TInv, GoodFrame, clocks
  <2>4. InCall(g) /\ ~Finish(g)
    <3>1. running' = running
      BY <1>6 DEF RecordReason
    <3>2. f.kind \in Method
      BY <1>0, <2>1 DEF Shape, Frame, Method
    <3>3. QED
      BY <2>1, <2>2, <3>1, <3>2, InCallIntro
  <2>5. QED
    BY <2>3, <2>4
<1>7. CASE Transit(g)
  <2> DEFINE b == [f EXCEPT !.redirect = NoState]
             h == Announced(b, f.next)
  <2>1. /\ f.pc = "transit" /\ f.next \in State /\ f.kind \in {"Run", "Step"}
        /\ call' = [call EXCEPT ![g] = h]
    BY <1>0, <1>7 DEF Transit, At, Becomes, Shape, Frame, Method
  <2>2. b \in Frame /\ b.kind = f.kind
    BY <1>0 DEF Frame
  <2>3. h \in GoodFrame /\ (h.kind = f.kind \/ (f.kind /= "Run" /\ h.kind = "none"))
    BY <2>1, <2>2, AnnouncedGood DEF TInv, TypeOK
  <2> HIDE DEF h
  <2>4. current' \in State /\ enteredAt' \in Time
        /\ lastSeen' \in [State -> Time \union {NoTime}] /\ needsOnEntry' \in BOOLEAN
    BY <1>7, <2>1, SetCurrentType DEF Transit, TransitionLocked, TypeOK, TInv
  <2>5. TypeOK'
    BY <1>7, <2>1, <2>3, <2>4 DEF Transit, TypeOK, TInv, GoodFrame
  <2>6. InCall(g) /\ ~Finish(g)
    <3>1. running' = running
      BY <1>7 DEF Transit
    <3>2. f.kind \in Method
      BY <1>0, <2>1 DEF Shape, Frame, Method
    <3>3. QED
      BY <2>1, <2>3, <3>1, <3>2, InCallIntro
  <2>7. QED
    BY <2>5, <2>6
<1>8. CASE RecordErrorAndRoute(g)
  <2>1. f.pc = "route" /\ f.kind \in {"Run", "Step"}
    BY <1>0, <1>8 DEF RecordErrorAndRoute, At, Shape, Frame, Method
  <2>2. PICK h \in GoodFrame : /\ Becomes(g, h)
                               /\ h.kind = f.kind \/ (f.kind /= "Run" /\ h.kind = "none")
    <3>1. [f EXCEPT !.pc = "finish"] \in GoodFrame \/ f.kind = "Step"
      BY <1>0, <2>1 DEF GoodFrame, Frame, Shape, Pc, Locals, Method
    <3>2. CASE ErrorState = NoState
      BY <1>0, <1>8, <2>1, <3>1, <3>2, ReturnedGood DEF RecordErrorAndRoute, Routed, Frame
    <3>3. CASE ErrorState /= NoState
      BY <1>0, <1>8, <2>1, <3>3, AnnouncedGood, StateAssumption
         DEF RecordErrorAndRoute, Routed, TInv, TypeOK
    <3>4. QED
      BY <3>2, <3>3
  <2>3. current' \in State /\ enteredAt' \in Time
        /\ lastSeen' \in [State -> Time \union {NoTime}] /\ needsOnEntry' \in BOOLEAN
    BY <1>8, StateAssumption, SetCurrentType
       DEF RecordErrorAndRoute, Routed, TransitionLocked, TypeOK, TInv
  <2>4. TypeOK'
    BY <1>0, <1>8, <2>2, <2>3 DEF RecordErrorAndRoute, Becomes, TypeOK, TInv, GoodFrame
  <2>5. InCall(g) /\ ~Finish(g)
    <3>1. running' = running
      BY <1>8 DEF RecordErrorAndRoute
    <3>2. f.kind \in Method
      BY <1>0, <2>1 DEF Shape, Frame, Method
    <3>3. QED
      BY <2>1, <2>2, <3>1, <3>2, InCallIntro DEF Becomes
  <2>6. QED
    BY <2>4, <2>5
<1>9. CASE Fire(g)
  <2> DEFINE h == Resume(f)
  <2>1. f.pc = "fire" /\ f.next \in State /\ f.kind \in Method
        /\ call' = [call EXCEPT ![g] = h]
    BY <1>0, <1>9 DEF Fire, At, Becomes, Shape, Frame
  <2>2. h \in GoodFrame /\ (h.kind = f.kind \/ (f.kind /= "Run" /\ h.kind = "none"))
    BY <1>0, ResumeGood
  <2> HIDE DEF h
  <2>3. TypeOK'
    <3>1. heard' \in [State -> Int]
      BY <1>9 DEF Fire, TypeOK, TInv, Only
    <3>2. QED
      BY <1>9, <2>1, <2>2, <3>1 DEF Fire, TypeOK, TInv, GoodFrame, clocks
  <2>4. InCall(g) /\ ~Finish(g)
    <3>1. running' = running
      BY <1>9 DEF Fire
    <3>2. f.kind \in Method
      BY <1>0, <2>1 DEF Shape, Frame, Method
    <3>3. QED
      BY <2>1, <2>2, <3>1, <3>2, InCallIntro
  <2>5. QED
    BY <2>3, <2>4
<1>10. CASE Finish(g)
  <2>1. Reframes(g, Returned(f.err)) /\ f.kind = "Run" /\ running' = FALSE
    BY <1>0, <1>10, ReturnedGood DEF Finish, At, Becomes, Reframes, Shape
  <2>2. TypeOK'
    BY <1>10, <2>1 DEF Finish, Reframes, TypeOK, TInv, GoodFrame, clocks
  <2>3. QED
    BY <1>10, <2>1, <2>2
<1>11. QED
  BY <1>1, <1>2, <1>3, <1>4, <1>5, <1>6, <1>7, <1>8, <1>9, <1>10 DEF Advance
\* User code returning, and cancellation, stay inside the call.
LEMMA UserEffect ==
  ASSUME TInv, NEW g \in Caller, UserReturns(g)
  PROVE  TypeOK' /\ InCall(g)
<1> DEFINE f == call[g]
<1>0. f \in Frame /\ Shape(f) /\ UserErr \subseteq Err /\ UNCHANGED running
  BY FrameGood DEF Err, UserReturns, EntryHookReturns, HandlerReturns, ExitHookReturns
<1>1. f.kind \in {"Run", "Step"} /\ f.pc \in {"entryHook", "handle", "exitHook"}
  BY <1>0 DEF UserReturns, EntryHookReturns, HandlerReturns, ExitHookReturns, At,
             Shape, Frame, Method
<1>2. PICK h \in GoodFrame : Becomes(g, h) /\ h.kind = f.kind
  <2>1. CASE EntryHookReturns(g)
    <3>1. [f EXCEPT !.pc = "read"] \in GoodFrame
      BY <1>0, <1>1, <2>1 DEF EntryHookReturns, At, GoodFrame, Frame, Shape, Pc, Locals,
                            Method
    <3>2. f.redirect = NoState
      BY <1>0, <2>1 DEF EntryHookReturns, At, Shape
    <3>3. QED
      BY <1>0, <1>1, <2>1, <3>1, <3>2, FailedGood DEF EntryHookReturns, Frame
  <2>2. CASE HandlerReturns(g)
    <3>1. PICK n \in State, e \in UserErr :
            Becomes(g, [f EXCEPT !.pc = "take", !.next = n, !.err = e])
      BY <2>2 DEF HandlerReturns
    <3>2. [f EXCEPT !.pc = "take", !.next = n, !.err = e] \in GoodFrame
      BY <1>0, <1>1, <2>2 DEF HandlerReturns, At, GoodFrame, Frame, Shape, Pc, Locals,
                            Method
    <3>3. QED
      BY <1>0, <3>1, <3>2 DEF Frame
  <2>3. CASE ExitHookReturns(g)
    <3>1. [f EXCEPT !.pc = "transit"] \in GoodFrame
      BY <1>0, <1>1, <2>3 DEF ExitHookReturns, At, GoodFrame, Frame, Shape, Pc, Locals,
                            Method
    <3>2. f.state \in ExitHooked
      BY <1>0, <2>3 DEF ExitHookReturns, At, Shape
    <3>3. QED
      BY <1>0, <1>1, <2>3, <3>1, <3>2, FailedGood DEF ExitHookReturns, Frame
  <2>4. QED
    BY <2>1, <2>2, <2>3 DEF UserReturns
<1>3. TypeOK'
  BY <1>2 DEF UserReturns, EntryHookReturns, HandlerReturns, ExitHookReturns, Becomes,
             TypeOK, TInv, GoodFrame, clocks
<1>4. QED
  BY <1>0, <1>1, <1>2, <1>3, InCallIntro DEF Becomes, Method

\* Cancelling a call's context changes nothing else.
LEMMA CancelEffect ==
  ASSUME TInv, NEW g \in Caller, Cancel(g)
  PROVE  /\ TypeOK'
         /\ \E h \in GoodFrame :
              Reframes(g, h) /\ h.kind = call[g].kind /\ h.pc = call[g].pc
         /\ running' = running
<1> DEFINE f == call[g]
           h == [f EXCEPT !.cancelled = TRUE]
<1>1. call' = [call EXCEPT ![g] = h]
  BY DEF Cancel, Becomes
<1>2. h \in GoodFrame /\ h.kind = f.kind /\ h.pc = f.pc
  BY FrameGood DEF GoodFrame, Frame, Shape, Locals
<1> HIDE DEF h
<1>3. TypeOK'
  BY <1>1, <1>2 DEF Cancel, TypeOK, TInv, GoodFrame, clocks
<1>4. QED
  BY <1>1, <1>2, <1>3 DEF Reframes, Cancel

\* RequestExit and the clock leave every frame alone.
LEMMA EnvironmentEffect ==
  ASSUME TInv, (\E s \in State, r \in Reason : RequestExit(s, r)) \/ Tick
  PROVE  TypeOK' /\ UNCHANGED <<call, running, current, needsOnEntry, lastErr, heard>>
<1>1. CASE \E s \in State, r \in Reason : RequestExit(s, r)
  BY <1>1 DEF RequestExit, TypeOK, TInv, Request, clocks
<1>2. CASE Tick
  BY <1>2, TimeAssumption DEF Tick, TypeOK, TInv, Time, clocks
<1>3. QED
  BY <1>1, <1>2

-----------------------------------------------------------------------------
(***************************************************************************)
(* Types, and the uniqueness of the Run in flight.                         *)
(***************************************************************************)

\* A good frame put in its place keeps every frame good.
LEMMA ReframesGood ==
  ASSUME TInv, NEW g \in Caller, NEW f \in GoodFrame, Reframes(g, f)
  PROVE  /\ call' \in [Caller -> GoodFrame]
         /\ call'[g] = f
         /\ \A h \in Caller : h /= g => call'[h] = call[h]
BY DEF TInv, Reframes

\* The initial state is typed, with every frame idle.
LEMMA InitTInv == Init => TInv
<1> SUFFICES ASSUME Init PROVE TInv
  OBVIOUS
<1>1. Returned("nil") \in GoodFrame
  BY ReturnedGood DEF Err, UserErr
<1>2. call \in [Caller -> GoodFrame]
  BY <1>1 DEF Init
<1>3. 0 \in Time /\ lastSeen \in [State -> Time \union {NoTime}]
  BY TimeAssumption DEF Init, Time
<1>4. heard \in [State -> Int]
  BY DEF Init, Only
<1>5. TypeOK
  BY <1>2, <1>3, <1>4, StateAssumption DEF Init, TypeOK, GoodFrame, Err, UserErr
<1>6. QED
  BY <1>2, <1>5 DEF TInv

\* Every step keeps the types and the shape of the frames.
LEMMA NextTInv == TInv /\ [Next]_vars => TInv'
<1> SUFFICES ASSUME TInv, [Next]_vars PROVE TInv'
  OBVIOUS
<1>1. ASSUME NEW g \in Caller, Begin(g) PROVE TInv'
  BY <1>1, BeginEffect, ReframesGood DEF TInv
<1>2. ASSUME NEW g \in Caller, Advance(g) PROVE TInv'
  <2>1. CASE Finish(g)
    <3>1. Returned(call[g].err) \in GoodFrame
      BY <1>2, FrameGood, ReturnedGood DEF Frame
    <3>2. QED
      BY <1>2, <2>1, <3>1, AdvanceEffect, ReframesGood DEF TInv
  <2>2. CASE ~Finish(g)
    BY <1>2, <2>2, AdvanceEffect, ReframesGood DEF TInv, InCall
  <2>3. QED
    BY <2>1, <2>2
<1>3. ASSUME NEW g \in Caller, UserReturns(g) PROVE TInv'
  BY <1>3, UserEffect, ReframesGood DEF TInv, InCall
<1>4. ASSUME NEW g \in Caller, Cancel(g) PROVE TInv'
  BY <1>4, CancelEffect, ReframesGood DEF TInv
<1>5. CASE (\E s \in State, r \in Reason : RequestExit(s, r)) \/ Tick
  BY <1>5, EnvironmentEffect DEF TInv
<1>6. CASE UNCHANGED vars
  BY <1>6 DEF vars, clocks, TInv, TypeOK
<1>7. QED
  BY <1>1, <1>2, <1>3, <1>4, <1>5, <1>6 DEF Next

\* Type correctness of the machine and of the calls in flight, in every
\* reachable state (machine.go:73-120 and the locals of Run and Step).
THEOREM TypeCorrect == Spec => []TypeOK
<1>1. TInv => TypeOK
  BY DEF TInv
<1>2. QED
  BY <1>1, InitTInv, NextTInv, PTL DEF Spec

\* The invariant proved for the running flag.
RunInv == TInv /\ OneRunLoop

\* In a good frame, a Run is in flight iff the frame is one of Run.
LEMMA InFlightIsKind ==
  ASSUME TInv, NEW g \in Caller, NEW m \in Method
  PROVE  InFlight(g, m) <=> call[g].kind = m
BY FrameGood DEF InFlight, Shape, Method

\* Every step keeps the running flag equal to "a Run is in flight".
LEMMA NextOneRunLoop == RunInv /\ [Next]_vars => OneRunLoop'
<1> SUFFICES ASSUME RunInv, [Next]_vars PROVE OneRunLoop'
  OBVIOUS
<1> USE DEF RunInv
<1> DEFINE IsRun(g) == call[g].kind = "Run"
<1>0. TInv' /\ running \in BOOLEAN /\ running' \in BOOLEAN
  BY NextTInv DEF TInv, TypeOK
<1>1. /\ running <=> \E g \in Caller : IsRun(g)
      /\ \A g, h \in Caller : IsRun(g) /\ IsRun(h) => g = h
  BY InFlightIsKind DEF OneRunLoop, Method
<1>2. SUFFICES /\ running' <=> \E g \in Caller : IsRun(g)'
               /\ \A g, h \in Caller : IsRun(g)' /\ IsRun(h)' => g = h
  <2>1. \A g \in Caller : InFlight(g, "Run")' <=> IsRun(g)'
    BY <1>0 DEF TInv, GoodFrame, InFlight, Shape, Method
  <2>2. QED
    BY <1>0, <1>2, <2>1 DEF OneRunLoop
<1>3. ASSUME NEW g \in Caller, NEW f \in GoodFrame, Reframes(g, f),
             f.kind = "Run" <=> call[g].kind = "Run", running' = running
      PROVE  /\ running' <=> \E h \in Caller : IsRun(h)'
             /\ \A h, i \in Caller : IsRun(h)' /\ IsRun(i)' => h = i
  <2>1. \A h \in Caller : IsRun(h)' <=> IsRun(h)
    BY <1>3, ReframesGood
  <2>2. QED
    BY <1>1, <1>3, <2>1
<1>4. ASSUME NEW g \in Caller, Begin(g)
      PROVE  /\ running' <=> \E h \in Caller : IsRun(h)'
             /\ \A h, i \in Caller : IsRun(h)' /\ IsRun(i)' => h = i
  <2>1. PICK f \in GoodFrame :
          /\ Reframes(g, f) /\ call[g].kind = "none"
          /\ f.kind = "Run" <=> StartRun(g)
    BY <1>4, BeginEffect
  <2>2. call'[g] = f /\ \A h \in Caller : h /= g => call'[h] = call[h]
    BY <2>1, ReframesGood
  <2>3. running' <=> running \/ StartRun(g)
    BY <1>4, BeginEffect
  <2>4. StartRun(g) => ~running
    BY DEF StartRun
  <2>5. QED
    BY <1>1, <2>1, <2>2, <2>3, <2>4
<1>5. ASSUME NEW g \in Caller, Advance(g)
      PROVE  /\ running' <=> \E h \in Caller : IsRun(h)'
             /\ \A h, i \in Caller : IsRun(h)' /\ IsRun(i)' => h = i
  <2>1. CASE Finish(g)
    <3>1. /\ Reframes(g, Returned(call[g].err)) /\ IsRun(g) /\ running' = FALSE
          /\ Returned(call[g].err) \in GoodFrame /\ Returned(call[g].err).kind = "none"
      BY <1>5, <2>1, AdvanceEffect, FrameGood, ReturnedGood DEF Frame
    <3>2. ~IsRun(g)' /\ \A h \in Caller : h /= g => call'[h] = call[h]
      BY <3>1, ReframesGood
    <3>3. QED
      BY <1>1, <3>1, <3>2
  <2>2. CASE ~Finish(g)
    BY <1>3, <1>5, <2>2, AdvanceEffect DEF InCall
  <2>3. QED
    BY <2>1, <2>2
<1>6. ASSUME NEW g \in Caller, UserReturns(g)
      PROVE  /\ running' <=> \E h \in Caller : IsRun(h)'
             /\ \A h, i \in Caller : IsRun(h)' /\ IsRun(i)' => h = i
  BY <1>3, <1>6, UserEffect DEF InCall
<1>7. ASSUME NEW g \in Caller, Cancel(g)
      PROVE  /\ running' <=> \E h \in Caller : IsRun(h)'
             /\ \A h, i \in Caller : IsRun(h)' /\ IsRun(i)' => h = i
  BY <1>3, <1>7, CancelEffect
<1>8. CASE (\E s \in State, r \in Reason : RequestExit(s, r)) \/ Tick
  BY <1>1, <1>8, EnvironmentEffect
<1>9. CASE UNCHANGED vars
  BY <1>1, <1>9 DEF vars
<1>10. QED
  BY <1>4, <1>5, <1>6, <1>7, <1>8, <1>9 DEF Next

\* RunInv is inductive.
LEMMA RunInvCorrect == Spec => []RunInv
<1>1. Init => RunInv
  <2>1. Init => OneRunLoop
    <3>1. Returned("nil").pc = "idle"
      BY DEF Returned
    <3>2. Init => \A g \in Caller : ~InFlight(g, "Run")
      BY <3>1 DEF Init, InFlight
    <3>3. QED
      BY <3>2 DEF Init, OneRunLoop
  <2>2. QED
    BY <2>1, InitTInv DEF RunInv
<1>2. RunInv /\ [Next]_vars => RunInv'
  BY NextTInv, NextOneRunLoop DEF RunInv
<1>3. QED
  BY <1>1, <1>2, PTL DEF Spec

\* However many goroutines call Run, Step, Goto, Reset and RequestExit, at most
\* one Run is in flight, exactly while the running flag is up
\* (machine.go:180-199).
THEOREM RunsNeverOverlap == Spec => []OneRunLoop
<1>1. RunInv => OneRunLoop
  BY DEF RunInv
<1>2. QED
  BY <1>1, RunInvCorrect, PTL
-----------------------------------------------------------------------------
(***************************************************************************)
(* No stale dispatch, while no call begins during a Step.                  *)
(***************************************************************************)

\* A step of callers that keep their Steps apart is a step of the machine.
LEMMA ApartIsNext == [ApartNext]_vars => [Next]_vars
BY DEF ApartNext, Next

Active(f) == f.kind \in {"Run", "Step"}

\* Nobody else is in Run or Step while a Step is in flight.
StepsApart ==
  \A g, h \in Caller : call[g].kind = "Step" /\ Active(call[h]) => g = h

\* Past fireEntryIfNeeded the entry hook is not due; past the read the state
\* dispatched on is current; a surfaced error is on lastErr.
UpToDate(g) ==
  /\ call[g].pc \in {"entryHook", "read"} \/ Dispatched(g) => ~needsOnEntry
  /\ Dispatched(g) => call[g].state = current
  /\ At(g, "finish") /\ call[g].err /= "nil" => lastErr = call[g].err

DispatchInv ==
  /\ RunInv
  /\ StepsApart
  /\ \A g \in Caller : UpToDate(g)

\* The steps of goroutine g, when it keeps Steps apart.
StepOf(g) ==
  \/ Begin(g) /\ ~Stepping
  \/ Advance(g) \/ UserReturns(g) \/ Cancel(g)

\* What a goroutine's step does to its own frame: the kind stays or the call is over,
\* but at the beginning of a call, which is refused if a Run is in flight.
LEMMA StepOfEffect ==
  ASSUME TInv, NEW g \in Caller, StepOf(g)
  PROVE  \E f \in GoodFrame :
           /\ Reframes(g, f)
           /\ \/ f.kind \in {call[g].kind, "none"}
              \/ ~running /\ ~Stepping
<1>1. CASE Begin(g) /\ ~Stepping
  <2>1. CASE running
    <3>1. Refused(g)
      BY <1>1, <2>1 DEF Begin, StartRun, StartStep, Reset, Goto, MayCall, Refused
    <3>2. Returned("ErrAlreadyRunning") \in GoodFrame
          /\ Returned("ErrAlreadyRunning").kind = "none"
      BY ReturnedGood DEF Err
    <3>3. QED
      BY <3>1, <3>2 DEF Refused, Becomes, Reframes
  <2>2. CASE ~running
    BY <1>1, <2>2, BeginEffect
  <2>3. QED
    BY <2>1, <2>2
<1>2. CASE Advance(g)
  <2>1. CASE Finish(g)
    BY <1>2, <2>1, AdvanceEffect, FrameGood, ReturnedGood DEF Frame
  <2>2. CASE ~Finish(g)
    BY <1>2, <2>2, AdvanceEffect DEF InCall
  <2>3. QED
    BY <2>1, <2>2
<1>3. CASE UserReturns(g)
  BY <1>3, UserEffect DEF InCall
<1>4. CASE Cancel(g)
  BY <1>4, CancelEffect
<1>5. QED
  BY <1>1, <1>2, <1>3, <1>4 DEF StepOf

\* While h is inside Run or Step, a step of another goroutine leaves the state,
\* the entry flag and the error alone.
LEMMA OthersQuiet ==
  ASSUME StepsApart, RunInv, NEW h \in Caller, Active(call[h]),
         NEW g \in Caller, g /= h, StepOf(g)
  PROVE  UNCHANGED <<current, needsOnEntry, lastErr>> /\ call'[h] = call[h]
<1>0. TInv /\ Shape(call[g]) /\ call[g] \in Frame
  BY FrameGood DEF RunInv
<1>1. /\ call[h].kind = "Run" => running
      /\ call[h].kind = "Step" => Stepping
  BY <1>0, InFlightIsKind DEF RunInv, OneRunLoop, Stepping, Method
<1>2. call[g].kind /= "Run" /\ call[g].kind /= "Step"
  <2>1. call[g].kind /= "Step" /\ (call[g].kind = "Run" => call[h].kind = "Run")
    BY DEF StepsApart, Active
  <2>2. ~(call[g].kind = "Run" /\ call[h].kind = "Run")
    BY <1>0, InFlightIsKind DEF RunInv, OneRunLoop, Method
  <2>3. QED
    BY <2>1, <2>2
<1>3. CASE Begin(g) /\ ~Stepping
  <2>0. running
    BY <1>1, <1>3 DEF Active
  <2>1. Refused(g)
    BY <1>3, <2>0 DEF Begin, StartRun, StartStep, Reset, Goto, MayCall, Refused
  <2>2. QED
    BY <1>0, <2>1 DEF Refused, Becomes, TInv
<1>4. CASE Advance(g)
  <2>1. call[g].pc \in {"idle", "fire"}
    BY <1>0, <1>2 DEF Shape, Frame, Method
  <2>2. Fire(g)
    BY <1>4, <2>1 DEF Advance, CheckCtx, FireEntryIfNeeded, ReadCurrent, NoHandler,
       TakeExitRequest, RecordReason, Transit, RecordErrorAndRoute, Finish, At
  <2>3. QED
    BY <1>0, <2>2 DEF Fire, Becomes, TInv
<1>5. CASE UserReturns(g)
  BY <1>0, <1>5 DEF UserReturns, EntryHookReturns, HandlerReturns, ExitHookReturns,
     Becomes, TInv
<1>6. CASE Cancel(g)
  BY <1>0, <1>6 DEF Cancel, Becomes, TInv
<1>7. QED
  BY <1>3, <1>4, <1>5, <1>6 DEF StepOf

\* A step of g itself leaves g up to date: its machine steps.
LEMMA AdvanceUpToDate ==
  ASSUME TInv, NEW g \in Caller, UpToDate(g), Advance(g)
  PROVE  UpToDate(g)'
<1> DEFINE f == call[g]
<1> USE DEF UpToDate, Dispatched, At
<1>0. f \in Frame /\ Shape(f) /\ f.err \in Err /\ call \in [Caller -> Frame]
  BY FrameGood DEF Frame, TInv, TypeOK
<1>1. CASE CheckCtx(g)
  BY <1>0, <1>1 DEF CheckCtx, Becomes, Shape, Locals, Frame
<1>2. CASE FireEntryIfNeeded(g)
  BY <1>0, <1>2 DEF FireEntryIfNeeded, Becomes, Shape, Locals, Frame
<1>3. CASE ReadCurrent(g)
  <2>1. f.err = "nil" /\ ~needsOnEntry
    BY <1>0, <1>3 DEF ReadCurrent, Shape, Locals
  <2>2. /\ call'[g].pc \in {"idle", "finish", "handle", "noHandler"}
        /\ call'[g].pc = "finish" => call'[g].err = "nil"
        /\ call'[g].pc = "handle" => call'[g].state = current
    BY <1>0, <1>3, <2>1 DEF ReadCurrent, Becomes, Returned, Frame
  <2>3. QED
    BY <1>3, <2>1, <2>2 DEF ReadCurrent
<1>4. CASE NoHandler(g)
  BY <1>0, <1>4 DEF NoHandler, Becomes, Frame
<1>5. CASE TakeExitRequest(g)
  <2> DEFINE h == IF exitRequest = NoRequest THEN Unredirected(f)
                                            ELSE Redirected(f, exitRequest)
  <2>1. /\ f.pc = "take" /\ f.next \in State /\ f.redirect = NoState
        /\ f.kind \in {"Run", "Step"} /\ call' = [call EXCEPT ![g] = h]
    BY <1>0, <1>5 DEF TakeExitRequest, Becomes, Shape, Frame, Method
  <2>2. /\ h.pc \in {"finish", "route", "record", "exitHook", "transit"}
        /\ h.pc \in {"record", "exitHook", "transit"} => h.state = f.state
        /\ h.pc = "finish" => h.err = "nil"
    <3>1. exitRequest = NoRequest \/ exitRequest \in Request
      BY DEF TInv, TypeOK
    <3>2. QED
      BY <1>0, <2>1, <3>1, UnredirectedGood, RedirectedGood
  <2> HIDE DEF h
  <2>3. call'[g] = h /\ UNCHANGED <<current, needsOnEntry, lastErr>>
    BY <1>0, <1>5, <2>1 DEF TakeExitRequest
  <2>4. QED
    BY <2>1, <2>2, <2>3
<1>6. CASE RecordReason(g)
  <2>1. /\ f.pc = "record" /\ f.redirect \in State /\ f.kind \in {"Run", "Step"}
        /\ call'[g] = Leaving(f, f.redirect)
    BY <1>0, <1>6 DEF RecordReason, Becomes, Shape, Frame, Method
  <2>2. Leaving(f, f.redirect).pc \in {"exitHook", "transit"}
        /\ Leaving(f, f.redirect).state = f.state
    BY <1>0, <2>1, LeavingGood
  <2>3. QED
    BY <1>6, <2>1, <2>2 DEF RecordReason
<1>7. CASE Transit(g)
  <2> DEFINE b == [f EXCEPT !.redirect = NoState]
  <2>1. f.next \in State /\ f.kind \in {"Run", "Step"} /\ call'[g] = Announced(b, f.next)
    BY <1>0, <1>7 DEF Transit, Becomes, Shape, Frame, Method
  <2>2. b \in Frame /\ b.kind = f.kind
    BY <1>0 DEF Frame
  <2>3. Announced(b, f.next).pc \in {"check", "idle", "fire"}
    BY <2>1, <2>2, AnnouncedGood DEF TInv, TypeOK
  <2>4. QED
    BY <2>1, <2>3
<1>8. CASE RecordErrorAndRoute(g)
  <2>1. f.pc = "route" /\ f.kind \in {"Run", "Step"} /\ lastErr' = f.err
    BY <1>0, <1>8 DEF RecordErrorAndRoute, Shape, Frame, Method
  <2>2. CASE ErrorState = NoState
    BY <1>0, <1>8, <2>1, <2>2 DEF RecordErrorAndRoute, Routed, Becomes, Returned, Frame
  <2>3. CASE ErrorState /= NoState
    <3>1. call'[g] = Announced(f, ErrorState) /\ ErrorState \in State
      BY <1>0, <1>8, <2>3, StateAssumption DEF RecordErrorAndRoute, Routed, Becomes
    <3>2. Announced(f, ErrorState).pc \in {"check", "idle", "fire"}
      BY <1>0, <2>1, <3>1, AnnouncedGood DEF TInv, TypeOK
    <3>3. QED
      BY <3>1, <3>2
  <2>4. QED
    BY <2>2, <2>3
<1>9. CASE Fire(g)
  BY <1>0, <1>9, ResumeGood DEF Fire, Becomes
<1>10. CASE Finish(g)
  BY <1>0, <1>10 DEF Finish, Becomes, Returned
<1>11. QED
  BY <1>1, <1>2, <1>3, <1>4, <1>5, <1>6, <1>7, <1>8, <1>9, <1>10 DEF Advance

\* So do a handler or hook that returns and a cancellation.
LEMMA UserUpToDate ==
  ASSUME TInv, NEW g \in Caller, UpToDate(g), UserReturns(g) \/ Cancel(g)
  PROVE  UpToDate(g)'
<1> DEFINE f == call[g]
<1> USE DEF UpToDate, Dispatched, At
<1>0. f \in Frame /\ Shape(f) /\ UserErr \subseteq Err /\ call \in [Caller -> Frame]
  BY FrameGood DEF Err, TInv, TypeOK
<1>1. CASE EntryHookReturns(g)
  <2>1. f.kind \in {"Run", "Step"} /\ f.redirect = NoState
    BY <1>0, <1>1 DEF EntryHookReturns, Shape, Frame, Method
  <2>2. QED
    BY <1>0, <1>1, <2>1, FailedGood DEF EntryHookReturns, Becomes, Frame
<1>2. CASE HandlerReturns(g)
  BY <1>0, <1>2 DEF HandlerReturns, Becomes, Frame
<1>3. CASE ExitHookReturns(g)
  <2>1. f.kind \in {"Run", "Step"} /\ f.state \in ExitHooked
    BY <1>0, <1>3 DEF ExitHookReturns, Shape, Frame, Method
  <2>2. QED
    BY <1>0, <1>3, <2>1, FailedGood DEF ExitHookReturns, Becomes, Frame
<1>4. CASE Cancel(g)
  BY <1>0, <1>4 DEF Cancel, Becomes, Frame
<1>5. QED
  BY <1>1, <1>2, <1>3, <1>4 DEF UserReturns

\* Every such step keeps the Steps apart.
LEMMA NextStepsApart == RunInv /\ StepsApart /\ [ApartNext]_vars => StepsApart'
<1> SUFFICES ASSUME RunInv, StepsApart, [ApartNext]_vars PROVE StepsApart'
  OBVIOUS
<1>0. TInv
  BY DEF RunInv
<1>1. ASSUME NEW g \in Caller, StepOf(g) PROVE StepsApart'
  <2>1. PICK f \in GoodFrame : /\ Reframes(g, f)
                               /\ \/ f.kind \in {call[g].kind, "none"}
                                  \/ ~running /\ ~Stepping
    BY <1>0, <1>1, StepOfEffect
  <2>2. call'[g] = f /\ \A h \in Caller : h /= g => call'[h] = call[h]
    BY <1>0, <2>1, ReframesGood
  <2>3. CASE f.kind \in {call[g].kind, "none"}
    BY <2>2, <2>3 DEF StepsApart, Active
  <2>4. CASE ~running /\ ~Stepping
    <3>1. \A h \in Caller : ~Active(call[h])
      BY <1>0, <2>4, InFlightIsKind DEF RunInv, OneRunLoop, Stepping, Active, Method
    <3>2. QED
      BY <2>2, <3>1 DEF StepsApart, Active
  <2>5. QED
    BY <2>1, <2>3, <2>4
<1>2. CASE (\E s \in State, r \in Reason : RequestExit(s, r)) \/ Tick
  BY <1>0, <1>2, EnvironmentEffect DEF StepsApart
<1>3. CASE UNCHANGED vars
  BY <1>3 DEF vars, StepsApart
<1>4. QED
  BY <1>1, <1>2, <1>3 DEF ApartNext, StepOf

\* Every such step keeps every call up to date.
LEMMA NextUpToDate ==
  ASSUME DispatchInv, [ApartNext]_vars, NEW h \in Caller
  PROVE  UpToDate(h)'
<1>0. TInv /\ RunInv /\ StepsApart /\ UpToDate(h) /\ Shape(call[h]) /\ call[h] \in Frame
  BY FrameGood DEF DispatchInv, RunInv
<1>1. ASSUME UNCHANGED <<current, needsOnEntry, lastErr>>, call'[h] = call[h]
      PROVE  UpToDate(h)'
  BY <1>0, <1>1 DEF UpToDate, Dispatched, At
<1>2. ASSUME ~Active(call[h]), call'[h] = call[h]
      PROVE  UpToDate(h)'
  BY <1>0, <1>2 DEF UpToDate, Dispatched, At, Active, Shape, Frame, Method
<1>3. ASSUME NEW g \in Caller, g /= h, call'[h] = call[h],
             StepOf(g)
      PROVE  UpToDate(h)'
  <2>1. CASE Active(call[h])
    BY <1>0, <1>1, <1>3, <2>1, OthersQuiet
  <2>2. CASE ~Active(call[h])
    BY <1>2, <1>3, <2>2
  <2>3. QED
    BY <2>1, <2>2
<1>4. ASSUME NEW g \in Caller, Begin(g), ~Stepping PROVE UpToDate(h)'
  <2>1. PICK f \in GoodFrame : Reframes(g, f) /\ f.pc \in {"idle", "check", "entry", "fire"}
    BY <1>0, <1>4, BeginEffect
  <2>2. CASE g = h
    BY <1>0, <2>1, <2>2, ReframesGood DEF UpToDate, Dispatched, At
  <2>3. CASE g /= h
    BY <1>0, <1>3, <1>4, <2>1, <2>3, ReframesGood DEF StepOf
  <2>4. QED
    BY <2>2, <2>3
<1>5. ASSUME NEW g \in Caller, Advance(g) PROVE UpToDate(h)'
  <2>1. CASE g = h
    BY <1>0, <1>5, <2>1, AdvanceUpToDate
  <2>2. CASE g /= h
    <3>1. \E f \in GoodFrame : Reframes(g, f)
      BY <1>0, <1>5, AdvanceEffect, FrameGood, ReturnedGood DEF InCall, Frame
    <3>2. call'[h] = call[h]
      BY <1>0, <2>2, <3>1, ReframesGood
    <3>3. QED
      BY <1>3, <1>5, <2>2, <3>2 DEF StepOf
  <2>3. QED
    BY <2>1, <2>2
<1>6. ASSUME NEW g \in Caller, UserReturns(g) \/ Cancel(g) PROVE UpToDate(h)'
  <2>1. CASE g = h
    BY <1>0, <1>6, <2>1, UserUpToDate
  <2>2. CASE g /= h
    <3>1. \E f \in GoodFrame : Reframes(g, f)
      BY <1>0, <1>6, UserEffect, CancelEffect DEF InCall
    <3>2. call'[h] = call[h]
      BY <1>0, <2>2, <3>1, ReframesGood
    <3>3. QED
      BY <1>3, <1>6, <2>2, <3>2 DEF StepOf
  <2>3. QED
    BY <2>1, <2>2
<1>7. CASE (\E s \in State, r \in Reason : RequestExit(s, r)) \/ Tick
  BY <1>0, <1>1, <1>7, EnvironmentEffect
<1>8. CASE UNCHANGED vars
  BY <1>1, <1>8 DEF vars
<1>9. QED
  BY <1>4, <1>5, <1>6, <1>7, <1>8 DEF ApartNext

\* DispatchInv is an invariant of a machine whose callers keep Steps apart.
LEMMA DispatchInvCorrect == ApartSpec => []DispatchInv
<1>1. Init => DispatchInv
  <2> SUFFICES ASSUME Init PROVE DispatchInv
    OBVIOUS
  <2>1. \A g \in Caller : call[g].pc = "idle" /\ call[g].kind = "none"
    BY DEF Init, Returned
  <2>2. StepsApart /\ OneRunLoop /\ \A g \in Caller : UpToDate(g)
    BY <2>1 DEF Init, StepsApart, OneRunLoop, InFlight, UpToDate, Dispatched, At
  <2>3. QED
    BY <2>2, InitTInv DEF DispatchInv, RunInv
<1>2. DispatchInv /\ [ApartNext]_vars => DispatchInv'
  BY ApartIsNext, NextTInv, NextOneRunLoop, NextStepsApart, NextUpToDate
     DEF DispatchInv, RunInv
<1>3. QED
  BY <1>1, <1>2, PTL DEF ApartSpec

\* Whatever Runs, Gotos, Resets and RequestExits other goroutines interleave, as long
\* as no call begins during a Step a Run (or Step) acts throughout an iteration on
\* the state the machine is in, with that state's entry hook no longer due
\* (machine.go:209-285, 376-428).
THEOREM DispatchIsNeverStale == ApartSpec => []NoStaleDispatch
<1>1. DispatchInv => NoStaleDispatch
  BY DEF DispatchInv, UpToDate, NoStaleDispatch
<1>2. QED
  BY <1>1, DispatchInvCorrect, PTL

\* Under the same condition the error a Run returns is the one LastError
\* reports when it returns (machine.go:209-279).
THEOREM SurfacedErrorIsRecorded == ApartSpec => []SurfacedErrorRecorded
<1>1. DispatchInv => SurfacedErrorRecorded
  BY DEF DispatchInv, UpToDate, SurfacedErrorRecorded
<1>2. QED
  BY <1>1, DispatchInvCorrect, PTL

\* Under that condition, too, Run and Step are mutually exclusive as the doc says:
\* no two goroutines execute a handler at the same time (machine.go:42-43).
THEOREM HandlersExclude == ApartSpec => []RunStepExclusive
<1>1. DispatchInv => RunStepExclusive
  <2> SUFFICES ASSUME DispatchInv, NEW g \in Caller, NEW h \in Caller,
                      At(g, "handle"), At(h, "handle")
               PROVE  g = h
    BY DEF RunStepExclusive
  <2>1. /\ Shape(call[g]) /\ call[g] \in Frame
        /\ Shape(call[h]) /\ call[h] \in Frame
    BY FrameGood DEF DispatchInv, RunInv
  <2>2. Active(call[g]) /\ Active(call[h])
    BY <2>1 DEF Shape, Frame, Method, At, Active
  <2>4. CASE call[g].kind = "Step" \/ call[h].kind = "Step"
    BY <2>2, <2>4 DEF DispatchInv, StepsApart
  <2>5. CASE call[g].kind = "Run" /\ call[h].kind = "Run"
    BY <2>1, <2>5, InFlightIsKind DEF DispatchInv, RunInv, OneRunLoop, Method
  <2>6. QED
    BY <2>2, <2>4, <2>5 DEF Active
<1>2. QED
  BY <1>1, DispatchInvCorrect, PTL

-----------------------------------------------------------------------------
(***************************************************************************)
(* Exit requests and time.                                                 *)
(***************************************************************************)

\* A taken exit request is dropped by a failing exit hook and nothing else,
\* for any mix of calls (machine.go:245-279).
THEOREM RedirectKept == Spec => []RedirectDroppedOnlyByExitHook
<1>1. TInv => RedirectDroppedOnlyByExitHook
  BY FrameGood DEF RedirectDroppedOnlyByExitHook, At, Shape
<1>2. QED
  BY <1>1, InitTInv, NextTInv, PTL DEF Spec

\* A pending exit request is cleared only by being taken after a handler or by
\* a Reset of an idle machine (machine.go:467-481, 518-523).
THEOREM RequestsAreKept == Spec => RequestKeptUntilTaken
<1> DEFINE Cleared == exitRequest /= NoRequest /\ exitRequest' = NoRequest
           Why == \/ \E g \in Caller : At(g, "take") /\ ~At(g, "take")'
                  \/ ~running /\ current' = Initial /\ needsOnEntry'
<1>1. TInv /\ [Next]_vars => (Cleared => Why)
  <2> SUFFICES ASSUME TInv, [Next]_vars, Cleared PROVE Why
    OBVIOUS
  <2>1. ASSUME NEW g \in Caller, Begin(g) PROVE Why
    BY <2>1 DEF Begin, StartRun, RunStarts, StartStep, Refused, Reset, Restart,
       SetCurrent, Goto
  <2>2. ASSUME NEW g \in Caller, Advance(g) PROVE Why
    <3>1. TakeExitRequest(g)
      BY <2>2 DEF Advance, CheckCtx, FireEntryIfNeeded, ReadCurrent, NoHandler,
         RecordReason, Transit, RecordErrorAndRoute, Fire, Finish
    <3>2. call[g] \in Frame /\ Shape(call[g]) /\ call[g].pc = "take"
      BY <3>1, FrameGood DEF TakeExitRequest, At
    <3>3. exitRequest \in Request /\ call[g].kind \in {"Run", "Step"}
      BY <3>2 DEF TInv, TypeOK, Shape, Frame, Method
    <3>4. call'[g] = Redirected(call[g], exitRequest)
      BY <3>1 DEF TakeExitRequest, Becomes, TInv
    <3>5. call'[g].pc /= "take"
      BY <3>2, <3>3, <3>4, RedirectedGood
    <3>6. QED
      BY <3>2, <3>5 DEF At
  <2>3. ASSUME NEW g \in Caller, UserReturns(g) \/ Cancel(g) PROVE Why
    BY <2>3 DEF UserReturns, EntryHookReturns, HandlerReturns, ExitHookReturns, Cancel
  <2>4. ASSUME NEW s \in State, NEW r \in Reason, RequestExit(s, r) PROVE Why
    BY <2>4, StateAssumption DEF RequestExit, NoRequest
  <2>5. CASE Tick
    BY <2>5 DEF Tick
  <2>6. CASE UNCHANGED vars
    BY <2>6 DEF vars
  <2>7. QED
    BY <2>1, <2>2, <2>3, <2>4, <2>5, <2>6 DEF Next
<1>2. QED
  BY <1>1, InitTInv, NextTInv, PTL DEF Spec, RequestKeptUntilTaken

\* The time stamps behind the timers.
Stamped ==
  /\ lastSeen[current] = enteredAt
  /\ \A s \in State : lastSeen[s] <= enteredAt
  /\ enteredAt <= now

\* Time never runs ahead of the clock, and the history of the current state
\* agrees with the state timer (machine.go:294-309, 570-603).
THEOREM HistoryIsConsistent == Spec => []HistoryAgrees
<1> DEFINE HInv == TInv /\ Stamped
<1>1. Init => HInv
  <2>1. Init => Stamped
    BY StateAssumption DEF Init, Stamped, NoTime
  <2>2. QED
    BY <2>1, InitTInv
<1>2. HInv /\ [Next]_vars => HInv'
  <2> SUFFICES ASSUME TInv, Stamped, [Next]_vars PROVE Stamped'
    BY NextTInv
  <2>0. /\ now \in Int /\ enteredAt \in Int /\ current \in State
        /\ lastSeen \in [State -> Int]
    BY TimeAssumption DEF TInv, TypeOK, Time, NoTime
  <2>1. ASSUME NEW s \in State, SetCurrent(s), UNCHANGED now PROVE Stamped'
    BY <2>0, <2>1 DEF SetCurrent, Stamped
  <2>2. ASSUME UNCHANGED <<current, enteredAt, lastSeen>>, now' \in {now, now + 1}
        PROVE Stamped'
    BY <2>0, <2>2 DEF Stamped
  <2>3. ASSUME NEW g \in Caller, Begin(g) PROVE Stamped'
    BY <2>1, <2>2, <2>3, StateAssumption DEF Begin, StartRun, RunStarts, StartStep,
       Refused, Reset, Restart, Goto, TransitionLocked, clocks
  <2>4. ASSUME NEW g \in Caller, Transit(g) PROVE Stamped'
    <3>1. call[g].next \in State
      BY <2>4, FrameGood DEF Transit, At, Shape
    <3>2. QED
      BY <2>1, <2>4, <3>1 DEF Transit, TransitionLocked
  <2>5. ASSUME NEW g \in Caller, RecordErrorAndRoute(g) PROVE Stamped'
    BY <2>1, <2>2, <2>5, StateAssumption
       DEF RecordErrorAndRoute, Routed, TransitionLocked
  <2>6. ASSUME NEW g \in Caller, Advance(g) PROVE Stamped'
    BY <2>2, <2>4, <2>5, <2>6 DEF Advance, CheckCtx, FireEntryIfNeeded, ReadCurrent,
       NoHandler, TakeExitRequest, RecordReason, Fire, Finish, clocks
  <2>7. ASSUME NEW g \in Caller, UserReturns(g) \/ Cancel(g) PROVE Stamped'
    BY <2>2, <2>7 DEF UserReturns, EntryHookReturns, HandlerReturns, ExitHookReturns,
       Cancel, clocks
  <2>8. ASSUME NEW s \in State, NEW r \in Reason, RequestExit(s, r) PROVE Stamped'
    BY <2>2, <2>8 DEF RequestExit, clocks
  <2>9. CASE Tick \/ UNCHANGED vars
    BY <2>2, <2>9 DEF Tick, vars, clocks
  <2>10. QED
    BY <2>3, <2>6, <2>7, <2>8, <2>9 DEF Next
<1>3. HInv => HistoryAgrees
  <2> SUFFICES ASSUME TInv, Stamped PROVE HistoryAgrees
    OBVIOUS
  <2>1. /\ now \in Int /\ enteredAt \in Nat /\ current \in State
        /\ lastSeen \in [State -> Int]
    BY TimeAssumption DEF TInv, TypeOK, Time, NoTime
  <2>2. QED
    BY <2>1 DEF Stamped, HistoryAgrees, TimeInState, TimeSinceState, NoTime
<1>4. QED
  BY <1>1, <1>2, <1>3, PTL DEF Spec

\* The cycle clock runs throughout every Run, does not restart in one, and once
\* set is only ever cleared, by a Reset of an idle machine
\* (machine.go:83-86, 190-192, 517).
THEOREM CycleClockIsKept == Spec => CycleClock
<1> DEFINE ClockSet == running => cycleStart /= NoTime
           Kept == /\ running' => cycleStart' /= NoTime
                   /\ cycleStart /= NoTime => \/ cycleStart' = cycleStart
                                              \/ cycleStart' = NoTime /\ ~running
<1>1. Init => ClockSet
  BY DEF Init
<1>2. TInv /\ ClockSet /\ [Next]_vars => ClockSet' /\ Kept
  <2> SUFFICES ASSUME TInv, ClockSet, [Next]_vars PROVE ClockSet' /\ Kept
    OBVIOUS
  <2>0. now /= NoTime
    BY TimeAssumption DEF TInv, TypeOK, Time, NoTime
  <2>1. ASSUME UNCHANGED cycleStart, running' => running PROVE ClockSet' /\ Kept
    BY <2>1
  <2>2. ASSUME NEW g \in Caller, StartRun(g) PROVE ClockSet' /\ Kept
    BY <2>0, <2>2 DEF StartRun, RunStarts
  <2>3. ASSUME NEW g \in Caller, Reset(g) PROVE ClockSet' /\ Kept
    BY <2>3 DEF Reset, Restart
  <2>4. ASSUME NEW g \in Caller, Begin(g) PROVE ClockSet' /\ Kept
    BY <2>1, <2>2, <2>3, <2>4 DEF Begin, StartStep, Refused, Goto, clocks
  <2>5. ASSUME NEW g \in Caller, Advance(g) PROVE ClockSet' /\ Kept
    BY <2>1, <2>5 DEF Advance, CheckCtx, FireEntryIfNeeded, ReadCurrent, NoHandler,
       TakeExitRequest, RecordReason, Transit, RecordErrorAndRoute, Fire, Finish, clocks
  <2>6. ASSUME NEW g \in Caller, UserReturns(g) \/ Cancel(g) PROVE ClockSet' /\ Kept
    BY <2>1, <2>6 DEF UserReturns, EntryHookReturns, HandlerReturns, ExitHookReturns,
       Cancel, clocks
  <2>7. ASSUME NEW s \in State, NEW r \in Reason, RequestExit(s, r)
        PROVE  ClockSet' /\ Kept
    BY <2>1, <2>7 DEF RequestExit, clocks
  <2>8. CASE Tick \/ UNCHANGED vars
    BY <2>1, <2>8 DEF Tick, vars, clocks
  <2>9. QED
    BY <2>4, <2>5, <2>6, <2>7, <2>8 DEF Next
<1> HIDE DEF ClockSet
<1>3. QED
  BY <1>1, <1>2, InitTInv, NextTInv, PTL DEF Spec, CycleClock

-----------------------------------------------------------------------------
(***************************************************************************)
(* The observer.  What is told and what is still to be told change         *)
(* together: one frame at a time, and by as much.                          *)
(***************************************************************************)

Firing == {g \in Caller : At(g, "fire")}

AddUp == IsFiniteSet(Firing) /\ TransitionsAddUp

\* What frame f is about to tell of state s: entered, left.
Comes(f, s) == IF f.pc = "fire" /\ f.next = s THEN 1 ELSE 0
Goes(f, s)  == IF f.pc = "fire" /\ f.state = s THEN 1 ELSE 0

\* Sets that differ at g at most count alike but for g.
LEMMA CountsAlike ==
  ASSUME NEW S, NEW T, NEW g, IsFiniteSet(S), S \ {g} = T \ {g}
  PROVE  /\ IsFiniteSet(T) /\ Cardinality(S) \in Nat /\ Cardinality(T) \in Nat
         /\ g \in S /\ g \in T => Cardinality(T) = Cardinality(S)
         /\ g \notin S /\ g \notin T => Cardinality(T) = Cardinality(S)
         /\ g \in S /\ g \notin T => Cardinality(T) = Cardinality(S) - 1
         /\ g \notin S /\ g \in T => Cardinality(T) = Cardinality(S) + 1
<1>1. /\ g \in S => T = S \/ T = S \ {g}
      /\ g \notin S => T = S \/ T = S \union {g}
      /\ g \in S /\ g \in T => T = S
      /\ g \notin S /\ g \notin T => T = S
      /\ g \in S /\ g \notin T => T = S \ {g}
      /\ g \notin S /\ g \in T => T = S \union {g}
  OBVIOUS
<1>2. IsFiniteSet(S \ {g}) /\ (g \in S => Cardinality(S \ {g}) = Cardinality(S) - 1)
  BY FS_RemoveElement
<1>3. IsFiniteSet(S \union {g})
      /\ (g \notin S => Cardinality(S \union {g}) = Cardinality(S) + 1)
  BY FS_AddElement
<1>4. Cardinality(S) \in Nat
  BY FS_CardinalityType
<1>5. IsFiniteSet(T)
  BY <1>1, <1>2, <1>3
<1>6. Cardinality(T) \in Nat
  BY <1>5, FS_CardinalityType
<1>7. QED
  BY <1>1, <1>2, <1>3, <1>4, <1>5, <1>6

\* When one frame is replaced, what is to be told changes by what the two frames have
\* to tell.
LEMMA PendingChanges ==
  ASSUME TInv, IsFiniteSet(Firing), NEW g \in Caller, NEW f,
         call' = [call EXCEPT ![g] = f]
  PROVE  /\ IsFiniteSet(Firing')
         /\ \A s : /\ Cardinality(Arriving(s)) \in Int /\ Cardinality(Arriving(s)') \in Int
                   /\ Cardinality(Departing(s)) \in Int /\ Cardinality(Departing(s)') \in Int
                   /\ Cardinality(Arriving(s)') - Comes(f, s)
                        = Cardinality(Arriving(s)) - Comes(call[g], s)
                   /\ Cardinality(Departing(s)') - Goes(f, s)
                        = Cardinality(Departing(s)) - Goes(call[g], s)
<1>1. call'[g] = f /\ \A h \in Caller : h /= g => call'[h] = call[h]
  BY DEF TInv
<1>2. Firing \ {g} = Firing' \ {g}
  BY <1>1 DEF Firing, At
<1>3. IsFiniteSet(Firing')
  BY <1>2, CountsAlike
<1>4. ASSUME NEW s
      PROVE  /\ Cardinality(Arriving(s)) \in Int /\ Cardinality(Arriving(s)') \in Int
             /\ Cardinality(Arriving(s)') - Comes(f, s)
                  = Cardinality(Arriving(s)) - Comes(call[g], s)
  <2>1. IsFiniteSet(Arriving(s))
    BY FS_Subset DEF Arriving, Firing
  <2>2. Arriving(s) \ {g} = Arriving(s)' \ {g}
    BY <1>1 DEF Arriving, At
  <2>3. /\ g \in Arriving(s)  <=> call[g].pc = "fire" /\ call[g].next = s
        /\ g \in Arriving(s)' <=> f.pc = "fire" /\ f.next = s
    BY <1>1 DEF Arriving, At
  <2>4. QED
    BY <2>1, <2>2, <2>3, CountsAlike DEF Comes
<1>5. ASSUME NEW s
      PROVE  /\ Cardinality(Departing(s)) \in Int /\ Cardinality(Departing(s)') \in Int
             /\ Cardinality(Departing(s)') - Goes(f, s)
                  = Cardinality(Departing(s)) - Goes(call[g], s)
  <2>1. IsFiniteSet(Departing(s))
    BY FS_Subset DEF Departing, Firing
  <2>2. Departing(s) \ {g} = Departing(s)' \ {g}
    BY <1>1 DEF Departing, At
  <2>3. /\ g \in Departing(s)  <=> call[g].pc = "fire" /\ call[g].state = s
        /\ g \in Departing(s)' <=> f.pc = "fire" /\ f.state = s
    BY <1>1 DEF Departing, At
  <2>4. QED
    BY <2>1, <2>2, <2>3, CountsAlike DEF Goes
<1>6. QED
  BY <1>3, <1>4, <1>5

\* The sum behind the tally: each side of the account changes by as much.
LEMMA Balance ==
  ASSUME NEW h \in Int, NEW hh \in Int, NEW a \in Int, NEW aa \in Int,
         NEW d \in Int, NEW dd \in Int, NEW c \in Int, NEW cc \in Int,
         NEW g \in Int, NEW gg \in Int, NEW o \in Int, NEW oo \in Int,
         aa - cc = a - c, dd - gg = d - g, h + a - d = o,
         hh + cc - gg - oo = h + c - g - o
  PROVE  hh + aa - dd = oo
OBVIOUS

\* So the tally stays right when the callback, the frame and the state change by as
\* much.
LEMMA TallyKept ==
  ASSUME TInv, AddUp, NEW g \in Caller, NEW f, call' = [call EXCEPT ![g] = f],
         current' \in State,
         \A s \in State :
           /\ heard'[s] \in Int
           /\ heard'[s] + Comes(f, s) - Goes(f, s) - Only(s, current')
                = heard[s] + Comes(call[g], s) - Goes(call[g], s) - Only(s, current)
  PROVE  AddUp'
<1>1. SUFFICES ASSUME NEW s \in State
               PROVE  heard'[s] + Cardinality(Arriving(s)') - Cardinality(Departing(s)')
                        = Only(s, current')
  BY PendingChanges DEF AddUp, TransitionsAddUp, Only
<1>2. IsFiniteSet(Firing)
  BY DEF AddUp
<1>3. /\ Cardinality(Arriving(s)) \in Int /\ Cardinality(Arriving(s)') \in Int
      /\ Cardinality(Departing(s)) \in Int /\ Cardinality(Departing(s)') \in Int
      /\ Cardinality(Arriving(s)') - Comes(f, s)
           = Cardinality(Arriving(s)) - Comes(call[g], s)
      /\ Cardinality(Departing(s)') - Goes(f, s)
           = Cardinality(Departing(s)) - Goes(call[g], s)
  BY <1>2, PendingChanges, Zenon
<1>4. heard[s] \in Int /\ heard'[s] \in Int
  BY DEF TInv, TypeOK
<1>5. heard[s] + Cardinality(Arriving(s)) - Cardinality(Departing(s)) = Only(s, current)
  BY DEF AddUp, TransitionsAddUp
<1>6. heard'[s] + Comes(f, s) - Goes(f, s) - Only(s, current')
        = heard[s] + Comes(call[g], s) - Goes(call[g], s) - Only(s, current)
  OBVIOUS
<1>7. /\ Comes(f, s) \in Int /\ Comes(call[g], s) \in Int
      /\ Goes(f, s) \in Int /\ Goes(call[g], s) \in Int
      /\ Only(s, current) \in Int /\ Only(s, current') \in Int
  BY DEF Comes, Goes, Only
<1>8. QED
  <2> DEFINE h == heard[s]  hh == heard'[s]
             a == Cardinality(Arriving(s))   aa == Cardinality(Arriving(s)')
             d == Cardinality(Departing(s))  dd == Cardinality(Departing(s)')
             c == Comes(call[g], s)  cc == Comes(f, s)
             e == Goes(call[g], s)   ee == Goes(f, s)
             o == Only(s, current)   oo == Only(s, current')
  <2>1. /\ h \in Int /\ hh \in Int /\ a \in Int /\ aa \in Int /\ d \in Int /\ dd \in Int
        /\ c \in Int /\ cc \in Int /\ e \in Int /\ ee \in Int /\ o \in Int /\ oo \in Int
        /\ aa - cc = a - c /\ dd - ee = d - e /\ h + a - d = o
        /\ hh + cc - ee - oo = h + c - e - o
    BY <1>3, <1>4, <1>5, <1>6, <1>7, Zenon
  <2> HIDE DEF h, hh, a, aa, d, dd, c, cc, e, ee, o, oo
  <2>2. hh + aa - dd = oo
    BY <2>1, Balance
  <2>3. QED
    BY <2>2 DEF hh, aa, dd, oo

\* What a transition to s leaves to announce.
LEMMA AnnouncedTells ==
  ASSUME NEW f \in Frame, NEW s \in State, current \in State
  PROVE  \A t : Comes(Announced(f, s), t) - Goes(Announced(f, s), t)
                 = Only(t, s) - Only(t, current)
<1>1. CASE s /= current
  <2>1. Announced(f, s) = [f EXCEPT !.pc = "fire", !.state = current, !.next = s]
    BY <1>1 DEF Announced
  <2>2. /\ Announced(f, s).pc = "fire" /\ Announced(f, s).state = current
        /\ Announced(f, s).next = s
    BY <2>1 DEF Frame
  <2>3. QED
    BY <2>2 DEF Comes, Goes, Only
<1>2. CASE s = current
  <2>1. Announced(f, s) = Resume(f)
    BY <1>2 DEF Announced
  <2>2. Announced(f, s).pc /= "fire"
    BY <2>1 DEF Resume, LoopTop, Begun, Returned
  <2>3. QED
    BY <1>2, <2>2 DEF Comes, Goes, Only
<1>3. QED
  BY <1>1, <1>2

\* None but a transition leaves anything to announce.
LEMMA QuietFrames ==
  ASSUME NEW f \in Frame
  PROVE  /\ \A e : Failed(f, e).pc /= "fire" /\ Returned(e).pc /= "fire"
         /\ \A n : Leaving(f, n).pc /= "fire"
         /\ Unredirected(f).pc /= "fire"
         /\ \A r \in Request : Redirected(f, r).pc /= "fire"
         /\ Resume(f).pc /= "fire"
         /\ \A p : p /= "fire" => [f EXCEPT !.pc = p].pc /= "fire"
<1>1. \A h \in Frame : \A e : Failed(h, e).pc /= "fire"
  BY DEF Failed, Frame
<1>2. \A h \in Frame : \A n : Leaving(h, n).pc /= "fire"
  BY DEF Leaving, Frame
<1>3. ASSUME NEW r \in Request PROVE Redirected(f, r).pc /= "fire"
  <2>1. [f EXCEPT !.redirect = r.state] \in Frame
    BY DEF Frame, Request
  <2>2. QED
    BY <1>2, <2>1 DEF Redirected, Frame
<1>4. Unredirected(f).pc /= "fire"
  BY <1>1, <1>2 DEF Unredirected
<1>5. Resume(f).pc /= "fire" /\ \A e : Returned(e).pc /= "fire"
  BY DEF Resume, LoopTop, Begun, Returned
<1>6. \A p : p /= "fire" => [f EXCEPT !.pc = p].pc /= "fire"
  BY DEF Frame
<1>7. QED
  BY <1>1, <1>2, <1>3, <1>4, <1>5, <1>6

\* Whoever uses the machine and however its callbacks are delayed, OnTransition is
\* told of every change of state once, and of nothing else (options.go:83-94).
THEOREM ObserverHearsAll == Spec => []TransitionsAddUp
<1>1. Init => AddUp
  <2> SUFFICES ASSUME Init PROVE AddUp
    OBVIOUS
  <2>1. Returned("nil").pc = "idle"
    BY DEF Returned
  <2>2. Firing = {} /\ \A s : Arriving(s) = {} /\ Departing(s) = {}
    BY <2>1 DEF Init, Firing, Arriving, Departing, At
  <2>3. IsFiniteSet({}) /\ Cardinality({}) = 0
    BY FS_EmptySet
  <2>4. \A s \in State : heard[s] = Only(s, current) /\ Only(s, current) \in Int
    BY DEF Init, Only
  <2>5. QED
    BY <2>2, <2>3, <2>4 DEF AddUp, TransitionsAddUp
<1>2. TInv /\ AddUp /\ [Next]_vars => AddUp'
  <2> SUFFICES ASSUME TInv, AddUp, [Next]_vars PROVE AddUp'
    OBVIOUS
  <2>1. /\ current \in State /\ \A s \in State : heard[s] \in Int
        /\ \A s, t : Only(s, t) \in Int
    BY DEF TInv, TypeOK, Only
  <2>2. ASSUME NEW f, NEW s PROVE Comes(f, s) \in Int /\ Goes(f, s) \in Int
    BY DEF Comes, Goes
  <2>3. ASSUME NEW g \in Caller, NEW f, call' = [call EXCEPT ![g] = f],
               call[g].pc /= "fire", f.pc /= "fire", UNCHANGED <<heard, current>>
        PROVE  AddUp'
    <3>1. \A s : /\ Comes(f, s) = 0 /\ Goes(f, s) = 0
                 /\ Comes(call[g], s) = 0 /\ Goes(call[g], s) = 0
      BY <2>3 DEF Comes, Goes
    <3>2. QED
      BY <2>1, <2>3, <3>1, TallyKept
  <2>4. ASSUME NEW g \in Caller, NEW f \in Frame, NEW s \in State,
               call' = [call EXCEPT ![g] = Announced(f, s)],
               call[g].pc /= "fire", SetCurrent(s), UNCHANGED heard
        PROVE  AddUp'
    <3> DEFINE h == Announced(f, s)
    <3>1. current' = s
      BY <2>4 DEF SetCurrent
    <3>2. \A t : Comes(call[g], t) = 0 /\ Goes(call[g], t) = 0
      BY <2>4 DEF Comes, Goes
    <3>3. \A t : Comes(h, t) - Goes(h, t) = Only(t, s) - Only(t, current)
      BY <2>1, AnnouncedTells
    <3>4. call' = [call EXCEPT ![g] = h]
      BY <2>4
    <3> HIDE DEF h
    <3>5. ASSUME NEW t \in State
          PROVE  heard'[t] + Comes(h, t) - Goes(h, t) - Only(t, current')
                   = heard[t] + Comes(call[g], t) - Goes(call[g], t) - Only(t, current)
      <4>1. /\ heard'[t] = heard[t] /\ heard[t] \in Int
            /\ Comes(h, t) \in Int /\ Goes(h, t) \in Int
            /\ Only(t, s) \in Int /\ Only(t, current) \in Int
        BY <2>1, <2>2, <2>4
      <4>2. heard[t] + Comes(h, t) - Goes(h, t) - Only(t, s)
              = heard[t] + 0 - 0 - Only(t, current)
        BY <3>3, <4>1
      <4>3. QED
        BY <3>1, <3>2, <4>1, <4>2
    <3>6. QED
      BY <2>1, <2>4, <3>1, <3>4, <3>5, TallyKept
  <2>5. ASSUME NEW g \in Caller, Begin(g) PROVE AddUp'
    <3>0. call[g].pc = "idle"
      BY <2>5 DEF Begin, StartRun, StartStep, Refused, Reset, Goto, MayCall, At
    <3>1. /\ \A m, p : p /= "fire" => Begun(m, p).pc /= "fire"
          /\ \A e : Returned(e).pc /= "fire"
      BY DEF Begun, Returned
    <3>2. CASE StartRun(g) \/ StartStep(g) \/ Refused(g)
      BY <2>3, <3>0, <3>1, <3>2 DEF StartRun, RunStarts, StartStep, Refused, Becomes
    <3>3. CASE Reset(g)
      <4>1. Begun("Reset", "idle") \in Frame /\ Initial \in State
        BY StateAssumption DEF Begun, Returned, Frame, Pc, Method, Err, UserErr
      <4>2. QED
        BY <2>4, <3>0, <3>3, <4>1 DEF Reset, Restart, Becomes
    <3>4. ASSUME NEW s \in State, Goto(g, s) PROVE AddUp'
      <4>1. Begun("Goto", "idle") \in Frame
        BY DEF Begun, Returned, Frame, Pc, Method, Err, UserErr
      <4>2. CASE s \in States
        BY <2>4, <3>0, <3>4, <4>1, <4>2 DEF Goto, TransitionLocked, Becomes
      <4>3. CASE s \notin States
        BY <2>3, <3>0, <3>1, <3>4, <4>3 DEF Goto, Becomes
      <4>4. QED
        BY <4>2, <4>3
    <3>5. QED
      BY <2>5, <3>2, <3>3, <3>4 DEF Begin
  <2>6. ASSUME NEW g \in Caller, Advance(g) PROVE AddUp'
    <3> DEFINE f == call[g]
    <3>0. f \in Frame /\ Shape(f)
      BY FrameGood
    <3>1. CASE CheckCtx(g) \/ FireEntryIfNeeded(g) \/ NoHandler(g) \/ Finish(g)
      <4>1. PICK h : /\ call' = [call EXCEPT ![g] = h]
                     /\ \/ h = Returned(f.err)
                        \/ \E p \in {"finish", "entry", "entryHook", "read"} :
                             h = [f EXCEPT !.pc = p]
        <5>1. CASE CheckCtx(g) \/ NoHandler(g) \/ Finish(g)
          BY <5>1 DEF CheckCtx, NoHandler, Finish, Becomes
        <5>2. CASE FireEntryIfNeeded(g)
          BY <5>2 DEF FireEntryIfNeeded, Becomes
        <5>3. QED
          BY <3>1, <5>1, <5>2
      <4>2. h.pc /= "fire"
        BY <3>0, <4>1, QuietFrames
      <4>3. f.pc /= "fire" /\ UNCHANGED <<heard, current>>
        BY <3>1 DEF CheckCtx, FireEntryIfNeeded, NoHandler, Finish, At
      <4>4. QED
        BY <2>3, <4>1, <4>2, <4>3
    <3>2. CASE ReadCurrent(g)
      <4>1. PICK h : /\ call' = [call EXCEPT ![g] = h]
                     /\ h \in {[f EXCEPT !.pc = "finish"], Returned("nil"),
                               [f EXCEPT !.pc = "handle", !.state = current],
                               [f EXCEPT !.pc = "noHandler", !.err = "noHandler"],
                               Returned("noHandler")}
        BY <3>2 DEF ReadCurrent, Becomes
      <4>2. h.pc /= "fire"
        BY <3>0, <4>1, QuietFrames DEF Frame
      <4>3. QED
        BY <2>3, <3>2, <4>1, <4>2 DEF ReadCurrent, At
    <3>3. CASE TakeExitRequest(g)
      <4>1. exitRequest \in Request \union {NoRequest}
        BY DEF TInv, TypeOK
      <4>2. QED
        BY <2>3, <3>0, <3>3, <4>1, QuietFrames DEF TakeExitRequest, At, Becomes
    <3>4. CASE RecordReason(g)
      BY <2>3, <3>0, <3>4, QuietFrames DEF RecordReason, At, Becomes
    <3>5. CASE Transit(g)
      <4>1. f.pc = "transit" /\ f.next \in State
        BY <3>0, <3>5 DEF Transit, At, Shape
      <4>2. [f EXCEPT !.redirect = NoState] \in Frame
        BY <3>0 DEF Frame
      <4>3. QED
        BY <2>4, <3>5, <4>1, <4>2 DEF Transit, TransitionLocked, Becomes
    <3>6. CASE RecordErrorAndRoute(g)
      <4>0. f.pc = "route"
        BY <3>6 DEF RecordErrorAndRoute, At
      <4>1. CASE ErrorState = NoState
        <5>1. PICK h : /\ call' = [call EXCEPT ![g] = h]
                       /\ h = [f EXCEPT !.pc = "finish"] \/ h = Returned(f.err)
          BY <3>6, <4>1 DEF RecordErrorAndRoute, Routed, Becomes
        <5>2. h.pc /= "fire"
          BY <3>0, <5>1, QuietFrames
        <5>3. UNCHANGED <<heard, current>>
          BY <3>6, <4>1 DEF RecordErrorAndRoute, Routed
        <5>4. QED
          BY <2>3, <4>0, <5>1, <5>2, <5>3
      <4>2. CASE ErrorState /= NoState
        <5>1. call' = [call EXCEPT ![g] = Announced(f, ErrorState)]
              /\ SetCurrent(ErrorState) /\ UNCHANGED heard
          BY <3>6, <4>2 DEF RecordErrorAndRoute, Routed, TransitionLocked, Becomes
        <5>2. ErrorState \in State
          BY <4>2, StateAssumption
        <5>3. QED
          BY <2>4, <3>0, <4>0, <5>1, <5>2
      <4>3. QED
        BY <4>1, <4>2
    <3>7. CASE Fire(g)
      <4>1. f.pc = "fire" /\ call' = [call EXCEPT ![g] = Resume(f)] /\ current' = current
        BY <3>7 DEF Fire, At, Becomes
      <4>2. \A s : /\ Comes(Resume(f), s) = 0 /\ Goes(Resume(f), s) = 0
                   /\ Comes(f, s) = Only(s, f.next) /\ Goes(f, s) = Only(s, f.state)
        BY <3>0, <4>1, QuietFrames DEF Comes, Goes, Only
      <4>3. \A s \in State :
              /\ heard'[s] = heard[s] + Only(s, f.next) - Only(s, f.state)
              /\ heard'[s] \in Int
        BY <2>1, <3>7 DEF Fire
      <4> DEFINE h == Resume(f)
      <4>4. \A s \in State :
              /\ heard'[s] \in Int
              /\ heard'[s] + Comes(h, s) - Goes(h, s) - Only(s, current')
                   = heard[s] + Comes(call[g], s) - Goes(call[g], s) - Only(s, current)
        BY <2>1, <4>1, <4>2, <4>3
      <4>5. call' = [call EXCEPT ![g] = h] /\ current' \in State
        BY <2>1, <4>1
      <4> HIDE DEF h
      <4>6. QED
        BY <4>4, <4>5, TallyKept
    <3>8. QED
      BY <2>6, <3>1, <3>2, <3>3, <3>4, <3>5, <3>6, <3>7 DEF Advance
  <2>7. ASSUME NEW g \in Caller, UserReturns(g) PROVE AddUp'
    <3>0. call[g] \in Frame
      BY FrameGood
    <3>1. CASE HandlerReturns(g)
      <4>1. PICK n \in State, e \in UserErr :
              call' = [call EXCEPT ![g] =
                         [call[g] EXCEPT !.pc = "take", !.next = n, !.err = e]]
        BY <3>1 DEF HandlerReturns, Becomes
      <4>2. [call[g] EXCEPT !.pc = "take", !.next = n, !.err = e].pc /= "fire"
        BY <3>0 DEF Frame
      <4>3. QED
        BY <2>3, <3>1, <4>1, <4>2 DEF HandlerReturns, At
    <3>2. CASE EntryHookReturns(g)
      <4>1. PICK h : /\ call' = [call EXCEPT ![g] = h]
                     /\ \/ h = [call[g] EXCEPT !.pc = "read"]
                        \/ \E e \in UserErr : h = Failed(call[g], e)
        BY <3>2 DEF EntryHookReturns, Becomes
      <4>2. h.pc /= "fire"
        BY <3>0, <4>1, QuietFrames
      <4>3. QED
        BY <2>3, <3>2, <4>1, <4>2 DEF EntryHookReturns, At
    <3>3. CASE ExitHookReturns(g)
      <4>1. PICK h : /\ call' = [call EXCEPT ![g] = h]
                     /\ \/ h = [call[g] EXCEPT !.pc = "transit"]
                        \/ \E e \in UserErr : h = Failed(call[g], e)
        BY <3>3 DEF ExitHookReturns, Becomes
      <4>2. h.pc /= "fire"
        BY <3>0, <4>1, QuietFrames
      <4>3. QED
        BY <2>3, <3>3, <4>1, <4>2 DEF ExitHookReturns, At
    <3>4. QED
      BY <2>7, <3>1, <3>2, <3>3 DEF UserReturns
  <2>8. ASSUME NEW g \in Caller, Cancel(g) PROVE AddUp'
    <3> DEFINE h == [call[g] EXCEPT !.cancelled = TRUE]
    <3>1. h.pc = call[g].pc /\ h.state = call[g].state /\ h.next = call[g].next
      BY FrameGood DEF Frame
    <3>2. \A s : Comes(h, s) = Comes(call[g], s) /\ Goes(h, s) = Goes(call[g], s)
      BY <3>1 DEF Comes, Goes
    <3> HIDE DEF h
    <3>3. call' = [call EXCEPT ![g] = h] /\ UNCHANGED <<heard, current>>
      BY <2>8 DEF Cancel, Becomes, h
    <3>4. QED
      BY <2>1, <3>2, <3>3, TallyKept
  <2>9. CASE (\E s \in State, r \in Reason : RequestExit(s, r)) \/ Tick
    BY <2>9, EnvironmentEffect DEF AddUp, TransitionsAddUp, Firing, Arriving, Departing, At
  <2>10. CASE UNCHANGED vars
    BY <2>10 DEF vars, AddUp, TransitionsAddUp, Firing, Arriving, Departing, At
  <2>11. QED
    BY <2>5, <2>6, <2>7, <2>8, <2>9, <2>10 DEF Next
<1>3. AddUp => TransitionsAddUp
  BY DEF AddUp
<1>4. QED
  BY <1>1, <1>2, <1>3, InitTInv, NextTInv, PTL DEF Spec

-----------------------------------------------------------------------------
(***************************************************************************)
(* The machine implements RunContract.  What is needed beyond RunInv: a    *)
(* call in flight never carries ErrAlreadyRunning, so that no handler's or *)
(* hook's error is mistaken for a refusal, and a Run keeps its context     *)
(* from entry to return.                                                   *)
(***************************************************************************)

Busy == "ErrAlreadyRunning"

NeverBusy == \A g \in Caller : ~At(g, "idle") => call[g].err /= Busy

CInv == RunInv /\ NeverBusy

-----------------------------------------------------------------------------
(***************************************************************************)
(* Errors and contexts through the operators that build frames.            *)
(***************************************************************************)

\* A returned call has the error it was given; a begun one has none.
LEMMA FreshFrames ==
  /\ \A e : Returned(e).err = e /\ Returned(e).pc = "idle" /\ ~Returned(e).cancelled
  /\ \A m, p : /\ Begun(m, p).err = "nil" /\ ~Begun(m, p).cancelled
               /\ Begun(m, p).pc = p /\ Begun(m, p).kind = m
  /\ "nil" /= Busy
BY DEF Returned, Begun, Busy

\* After its transition a call keeps its error or has none; a Run keeps its
\* context.
LEMMA AnnouncedKeeps ==
  ASSUME NEW f \in Frame, NEW s \in State
  PROVE  /\ Announced(f, s).err \in {"nil", f.err}
         /\ f.kind = "Run" => Announced(f, s).cancelled = f.cancelled
         /\ Resume(f).err \in {"nil", f.err}
         /\ f.kind = "Run" => Resume(f).cancelled = f.cancelled
<1>1. /\ LoopTop(f).err = "nil"
      /\ LoopTop(f).cancelled = f.cancelled
  BY DEF LoopTop, Begun, Returned
<1>2. /\ Resume(f).err \in {"nil", f.err}
      /\ f.kind = "Run" => Resume(f).cancelled = f.cancelled
  BY <1>1, FreshFrames DEF Resume
<1>3. CASE s /= current
  BY <1>2, <1>3 DEF Announced, Frame
<1>4. CASE s = current
  BY <1>2, <1>4 DEF Announced
<1>5. QED
  BY <1>2, <1>3, <1>4

\* A failed call carries that failure or nothing.
LEMMA FailedKeeps ==
  ASSUME NEW f \in Frame, NEW e
  PROVE  Failed(f, e).err \in {"nil", e} /\ Failed(f, e).cancelled = f.cancelled
BY DEF Failed, Frame

\* A call that leaves its state carries no error.
LEMMA LeavingKeeps ==
  ASSUME NEW f \in Frame, NEW n
  PROVE  Leaving(f, n).err = "nil" /\ Leaving(f, n).cancelled = f.cancelled
BY DEF Leaving, Frame

\* A call that took a request carries its reason, its own error or none.
LEMMA RedirectedKeeps ==
  ASSUME NEW f \in Frame, NEW r \in Request
  PROVE  /\ Redirected(f, r).err \in {"nil", f.err, r.reason}
         /\ Redirected(f, r).cancelled = f.cancelled
<1> DEFINE taken == [f EXCEPT !.redirect = r.state]
           why == IF r.reason /= "nil" THEN r.reason ELSE f.err
<1>1. taken \in Frame /\ taken.cancelled = f.cancelled
  BY DEF Frame, Request
<1>2. CASE why = "nil"
  BY <1>1, <1>2, LeavingKeeps DEF Redirected
<1>3. CASE why /= "nil"
  <2>1. Redirected(f, r) = [taken EXCEPT !.pc = "record", !.err = why]
    BY <1>3 DEF Redirected
  <2>2. QED
    BY <1>1, <2>1 DEF Frame
<1>4. QED
  BY <1>2, <1>3

\* What callbacks return is no refusal.
LEMMA UserErrors == Busy \notin UserErr /\ Busy \notin Reason
BY DEF Busy, UserErr, Reason

\* A step inside a call brings no refusal in, and leaves a Run its context.
LEMMA InCallKeeps ==
  ASSUME TInv, NEW g \in Caller, Advance(g) \/ UserReturns(g),
         call[g].err /= Busy
  PROVE  /\ call'[g].err /= Busy
         /\ call[g].kind = "Run" /\ ~Finish(g) =>
              call'[g].cancelled = call[g].cancelled
<1> DEFINE f == call[g]
           Kept(h) == /\ h.err /= Busy
                      /\ f.kind = "Run" => h.cancelled = f.cancelled
<1>0. /\ f \in Frame /\ Shape(f) /\ f.err /= Busy /\ f.err \in Err
      /\ \A h : Becomes(g, h) => call'[g] = h
  BY FrameGood DEF Becomes, TInv, Frame
<1>1. \A h : h.err = "nil" /\ (f.kind = "Run" => h.cancelled = f.cancelled) => Kept(h)
  BY DEF Busy
<1>2. \A p : [f EXCEPT !.pc = p].err = f.err /\ [f EXCEPT !.pc = p].cancelled = f.cancelled
  BY <1>0 DEF Frame
<1>3. \A p : Kept([f EXCEPT !.pc = p])
  BY <1>0, <1>2
<1>4. CASE CheckCtx(g)
  BY <1>0, <1>3, <1>4 DEF CheckCtx
<1>5. CASE FireEntryIfNeeded(g)
  BY <1>0, <1>3, <1>5 DEF FireEntryIfNeeded
<1>6. CASE ReadCurrent(g)
  <2>1. Kept([f EXCEPT !.pc = "handle", !.state = current])
    BY <1>0 DEF Frame
  <2>2. Kept([f EXCEPT !.pc = "noHandler", !.err = "noHandler"])
    BY <1>0 DEF Frame, Busy
  <2>3. f.kind = "Step" => Kept(Returned("nil")) /\ Kept(Returned("noHandler"))
    BY FreshFrames DEF Busy
  <2>4. CASE current \in Terminal /\ f.kind /= "Step"
    BY <1>0, <1>3, <1>6, <2>4 DEF ReadCurrent
  <2>5. CASE current \in Terminal /\ f.kind = "Step"
    BY <1>0, <1>6, <2>3, <2>5 DEF ReadCurrent
  <2>6. CASE current \notin Terminal /\ current \in Handled
    BY <1>0, <1>6, <2>1, <2>6 DEF ReadCurrent
  <2>7. CASE current \notin Terminal /\ current \notin Handled /\ f.kind /= "Step"
    BY <1>0, <1>6, <2>2, <2>7 DEF ReadCurrent
  <2>8. CASE current \notin Terminal /\ current \notin Handled /\ f.kind = "Step"
    BY <1>0, <1>6, <2>3, <2>8 DEF ReadCurrent
  <2>9. QED
    BY <2>4, <2>5, <2>6, <2>7, <2>8
<1>7. CASE NoHandler(g)
  BY <1>0, <1>3, <1>7 DEF NoHandler
<1>8. CASE TakeExitRequest(g)
  <2>1. Kept(Unredirected(f))
    BY <1>0, FailedKeeps, LeavingKeeps DEF Unredirected, Busy, Frame
  <2>2. exitRequest \in Request => Kept(Redirected(f, exitRequest))
    BY <1>0, RedirectedKeeps, UserErrors DEF Busy, Request
  <2>3. exitRequest = NoRequest \/ exitRequest \in Request
    BY DEF TInv, TypeOK
  <2>4. QED
    BY <1>0, <1>8, <2>1, <2>2, <2>3 DEF TakeExitRequest
<1>9. CASE RecordReason(g)
  BY <1>0, <1>9, LeavingKeeps DEF RecordReason, Busy
<1>10. CASE Transit(g)
  <2> DEFINE b == [f EXCEPT !.redirect = NoState]
  <2>1. b \in Frame /\ b.err = f.err /\ b.cancelled = f.cancelled /\ b.kind = f.kind
    BY <1>0 DEF Frame
  <2>2. f.next \in State
    BY <1>0, <1>10 DEF Transit, At, Shape
  <2>3. call'[g] = Announced(b, f.next)
    BY <1>0, <1>10 DEF Transit
  <2> HIDE DEF b
  <2>4. QED
    BY <1>0, <2>1, <2>2, <2>3, AnnouncedKeeps DEF Busy
<1>11. CASE RecordErrorAndRoute(g)
  <2>1. ErrorState /= NoState => ErrorState \in State
    BY StateAssumption
  <2>2. ErrorState /= NoState => Kept(Announced(f, ErrorState))
    BY <1>0, <2>1, AnnouncedKeeps DEF Busy
  <2>3. f.kind /= "Run" => Kept(Returned(f.err))
    BY <1>0, FreshFrames
  <2>4. QED
    BY <1>0, <1>3, <1>11, <2>2, <2>3 DEF RecordErrorAndRoute, Routed
<1>12. CASE Fire(g)
  BY <1>0, <1>12, AnnouncedKeeps, StateAssumption DEF Fire, Busy
<1>13. CASE Finish(g)
  BY <1>0, <1>13, FreshFrames DEF Finish
<1>14. CASE UserReturns(g)
  <2>1. \A e \in UserErr : Kept(Failed(f, e))
    BY <1>0, FailedKeeps, UserErrors DEF Busy
  <2>2. \A n \in State, e \in UserErr :
          Kept([f EXCEPT !.pc = "take", !.next = n, !.err = e])
    BY <1>0, UserErrors DEF Frame
  <2>3. CASE EntryHookReturns(g)
    <3>1. PICK e \in UserErr :
            Becomes(g, IF e = "nil" THEN [f EXCEPT !.pc = "read"] ELSE Failed(f, e))
      BY <2>3 DEF EntryHookReturns
    <3>2. QED
      BY <1>0, <1>3, <2>1, <3>1
  <2>4. CASE HandlerReturns(g)
    BY <1>0, <2>2, <2>4 DEF HandlerReturns
  <2>5. CASE ExitHookReturns(g)
    <3>1. PICK e \in UserErr :
            Becomes(g, IF e = "nil" THEN [f EXCEPT !.pc = "transit"] ELSE Failed(f, e))
      BY <2>5 DEF ExitHookReturns
    <3>2. QED
      BY <1>0, <1>3, <2>1, <3>1
  <2>6. QED
    BY <1>14, <2>3, <2>4, <2>5 DEF UserReturns
<1>15. QED
  BY <1>4, <1>5, <1>6, <1>7, <1>8, <1>9, <1>10, <1>11, <1>12, <1>13, <1>14 DEF Advance

\* A call that begins was idle; unless refused it found no Run in flight.
LEMMA BeginKeeps ==
  ASSUME RunInv, NEW g \in Caller, Begin(g)
  PROVE  \/ /\ StartRun(g)
            /\ call'[g].pc = "check" /\ ~call'[g].cancelled
         \/ /\ ~running /\ ~running' /\ call'[g].kind /= "Run"
            /\ call'[g].err /= Busy
         \/ /\ running
            /\ call'[g] = Returned(Busy)
<1>0. /\ call \in [Caller -> GoodFrame]
      /\ \A h : Becomes(g, h) => call'[g] = h
  BY DEF RunInv, TInv, Becomes
<1>1. CASE StartRun(g)
  BY <1>0, <1>1, FreshFrames DEF StartRun, RunStarts
<1>2. CASE StartStep(g)
  <2>1. call'[g] = Begun("Step", "entry") /\ ~running /\ ~running'
    BY <1>0, <1>2 DEF StartStep
  <2>2. QED
    BY <2>1, FreshFrames
<1>3. CASE Refused(g)
  BY <1>0, <1>3 DEF Refused, Busy
<1>4. ASSUME NEW m \in {"Goto", "Reset"}, NEW s \in State
      PROVE  /\ Announced(Begun(m, "idle"), s).err /= Busy
             /\ Announced(Begun(m, "idle"), s).kind /= "Run"
  <2>1. Begun(m, "idle") \in Frame /\ Begun(m, "idle").kind = m
        /\ Begun(m, "idle").err = "nil"
    BY DEF Begun, Returned, Frame, Pc, Method, Err, UserErr
  <2>2. Announced(Begun(m, "idle"), s).err = "nil"
    BY <2>1, AnnouncedKeeps
  <2>3. current \in State
    BY DEF RunInv, TInv, TypeOK
  <2>4. QED
    BY <2>1, <2>2, <2>3, AnnouncedGood DEF Busy
<1>5. CASE Reset(g)
  <2>1. call'[g] = Announced(Begun("Reset", "idle"), Initial) /\ ~running /\ ~running'
    BY <1>0, <1>5 DEF Reset, Restart
  <2>2. QED
    BY <1>4, <2>1, StateAssumption
<1>6. ASSUME NEW s \in State, Goto(g, s)
      PROVE  ~running /\ ~running' /\ call'[g].kind /= "Run" /\ call'[g].err /= Busy
  <2>1. /\ ~running /\ ~running'
        /\ call'[g] \in {Announced(Begun("Goto", "idle"), s), Returned("unknownState")}
    BY <1>0, <1>6 DEF Goto
  <2>2. Returned("unknownState").err /= Busy /\ Returned("unknownState").kind /= "Run"
    BY DEF Returned, Busy
  <2>3. QED
    BY <1>4, <2>1, <2>2
<1>7. QED
  BY <1>1, <1>2, <1>3, <1>5, <1>6 DEF Begin

-----------------------------------------------------------------------------
(***************************************************************************)
(* The refinement.                                                         *)
(***************************************************************************)

Inside  == {g \in Caller : InFlight(g, "Run")}
Stopped == {g \in Caller : InFlight(g, "Run") /\ call[g].cancelled}
Refusals == {g \in Caller : At(g, "idle") /\ call[g].err = Busy}

\* A step of g puts one frame in the place of another; the others stay.
LEMMA OthersKept ==
  ASSUME TInv, NEW g \in Caller, Begin(g) \/ Advance(g) \/ UserReturns(g) \/ Cancel(g)
  PROVE  \A h \in Caller \ {g} :
           /\ h \in Inside' <=> h \in Inside
           /\ h \in Stopped' <=> h \in Stopped
           /\ h \in Refusals' <=> h \in Refusals
<1>1. \A h \in Caller \ {g} : call'[h] = call[h]
  <2>1. CASE Begin(g)
    BY <2>1, BeginEffect, ReframesGood
  <2>2. CASE Advance(g) /\ Finish(g)
    BY <2>2, AdvanceEffect DEF Reframes, TInv
  <2>3. CASE Advance(g) /\ ~Finish(g)
    BY <2>3, AdvanceEffect DEF InCall, Reframes, TInv
  <2>4. CASE UserReturns(g)
    BY <2>4, UserEffect DEF InCall, Reframes, TInv
  <2>5. CASE Cancel(g)
    BY <2>5 DEF Cancel, Becomes, TInv
  <2>6. QED
    BY <2>1, <2>2, <2>3, <2>4, <2>5
<1>2. QED
  BY <1>1 DEF Inside, Stopped, Refusals, InFlight, At

\* A Run is in flight exactly while the flag is up, and who begins a call is in
\* none.
LEMMA InsideIsRunning ==
  ASSUME RunInv
  PROVE  /\ Inside = {} <=> ~running
         /\ \A g \in Inside : Inside = {g}
         /\ \A g \in Caller : Begin(g) => g \notin Inside /\ call[g].pc = "idle"
<1>1. (Inside = {} <=> ~running) /\ \A g \in Inside : Inside = {g}
  BY DEF RunInv, OneRunLoop, Inside
<1>2. ASSUME NEW g \in Caller, Begin(g) PROVE call[g].pc = "idle"
  BY <1>2 DEF Begin, StartRun, StartStep, Refused, Goto, Reset, MayCall, At
<1>3. QED
  BY <1>1, <1>2 DEF Inside, InFlight

\* Refusals are never invented: NeverBusy is inductive over RunInv.
LEMMA NextNeverBusy == CInv /\ [Next]_vars => NeverBusy'
<1> SUFFICES ASSUME CInv, [Next]_vars PROVE NeverBusy'
  OBVIOUS
<1>0. RunInv /\ TInv /\ NeverBusy
  BY DEF CInv, RunInv
<1>1. ASSUME NEW g \in Caller,
             Begin(g) \/ Advance(g) \/ UserReturns(g) \/ Cancel(g)
      PROVE  NeverBusy'
  <2>1. \A h \in Caller \ {g} : call'[h] = call[h]
    <3>1. CASE Begin(g)
      BY <1>0, <3>1, BeginEffect, ReframesGood
    <3>2. CASE Advance(g) /\ Finish(g)
      BY <1>0, <3>2, AdvanceEffect DEF Reframes, TInv
    <3>3. CASE Advance(g) /\ ~Finish(g)
      BY <1>0, <3>3, AdvanceEffect DEF InCall, Reframes, TInv
    <3>4. CASE UserReturns(g)
      BY <1>0, <3>4, UserEffect DEF InCall, Reframes, TInv
    <3>5. CASE Cancel(g)
      BY <1>0, <3>5 DEF Cancel, Becomes, TInv
    <3>6. QED
      BY <1>1, <3>1, <3>2, <3>3, <3>4, <3>5
  <2>2. ~At(g, "idle")' => call'[g].err /= Busy
    <3>1. CASE Begin(g)
      <4>1. CASE StartRun(g)
        BY <1>0, <4>1, FreshFrames DEF StartRun, RunStarts, Becomes, TInv
      <4>2. CASE ~StartRun(g)
        BY <1>0, <3>1, <4>2, BeginKeeps, FreshFrames DEF At
      <4>3. QED
        BY <4>1, <4>2
    <3>2. CASE Advance(g) \/ UserReturns(g)
      <4>1. ~At(g, "idle")
        BY <3>2 DEF Advance, CheckCtx, FireEntryIfNeeded, ReadCurrent, NoHandler,
           TakeExitRequest, RecordReason, Transit, RecordErrorAndRoute, Fire, Finish,
           UserReturns, EntryHookReturns, HandlerReturns, ExitHookReturns, At
      <4>2. QED
        BY <1>0, <3>2, <4>1, InCallKeeps DEF NeverBusy
    <3>3. CASE Cancel(g)
      <4>1. call'[g].err = call[g].err /\ call'[g].pc = call[g].pc
        BY <1>0, <3>3, FrameGood DEF Cancel, Becomes, TInv, Frame
      <4>2. QED
        BY <1>0, <4>1 DEF NeverBusy, At
    <3>4. QED
      BY <1>1, <3>1, <3>2, <3>3
  <2>3. QED
    BY <1>0, <2>1, <2>2 DEF NeverBusy, At
<1>2. CASE (\E s \in State, r \in Reason : RequestExit(s, r)) \/ Tick
  BY <1>0, <1>2, EnvironmentEffect DEF NeverBusy, At
<1>3. CASE UNCHANGED vars
  BY <1>0, <1>3 DEF vars, NeverBusy, At
<1>4. QED
  BY <1>1, <1>2, <1>3 DEF Next

\* CInv is inductive.
LEMMA CInvCorrect == Spec => []CInv
<1>1. Init => NeverBusy
  <2>1. Returned("nil").pc = "idle"
    BY FreshFrames
  <2>2. QED
    BY <2>1 DEF Init, NeverBusy, At
<1>2. CInv /\ [Next]_vars => CInv'
  <2>1. RunInv /\ [Next]_vars => RunInv'
    BY NextTInv, NextOneRunLoop DEF RunInv
  <2>2. QED
    BY <2>1, NextNeverBusy DEF CInv
<1>3. Spec => []NeverBusy
  <2>1. RunInv /\ NeverBusy /\ [Next]_vars => NeverBusy'
    BY NextNeverBusy DEF CInv
  <2>2. QED
    BY <1>1, <2>1, RunInvCorrect, PTL DEF Spec
<1>4. QED
  BY <1>3, RunInvCorrect, PTL DEF CInv

\* Every step of the machine is a step of the contract, or none.
LEMMA NextKeepsContract ==
  CInv /\ [Next]_vars => [Contract!Next]_(Contract!contract)
<1> SUFFICES ASSUME CInv, [Next]_vars
             PROVE  Contract!Next \/ UNCHANGED <<Inside, Stopped, Refusals>>
  BY DEF Contract!contract, Inside, Stopped, Refusals, Busy
<1>0. RunInv /\ TInv /\ TInv' /\ NeverBusy
  BY NextTInv DEF CInv, RunInv
<1> USE <1>0
<1>1. ASSUME NEW g \in Caller, Begin(g)
      PROVE  Contract!Enter(g) \/ Contract!Refuse(g) \/ Contract!Accept(g)
  <2>0. g \notin Inside /\ call[g].pc = "idle" /\ g \notin Stopped
    BY <1>1, InsideIsRunning DEF Inside, Stopped
  <2>1. CASE StartRun(g) /\ call'[g].pc = "check" /\ ~call'[g].cancelled
    <3>1. Inside = {} /\ Stopped = {}
      BY <2>1, InsideIsRunning DEF StartRun, Inside, Stopped
    <3>2. g \in Inside' /\ g \notin Stopped' /\ g \notin Refusals'
      <4>1. call'[g].kind = "Run"
        BY <2>1, FreshFrames DEF StartRun, RunStarts, Becomes, TInv
      <4>2. QED
        BY <2>1, <4>1 DEF Inside, Stopped, Refusals, InFlight, At
    <3>3. Inside' = {g} /\ Stopped' = {} /\ Refusals' = Refusals \ {g}
      BY <1>1, <3>1, <3>2, OthersKept DEF Inside, Stopped, Refusals
    <3>4. QED
      BY <3>1, <3>3 DEF Contract!Enter, Inside, Stopped, Refusals, Busy
  <2>2. CASE /\ ~running /\ ~running' /\ call'[g].kind /= "Run"
             /\ call'[g].err /= Busy
    <3>1. Inside = {} /\ Stopped = {}
      BY <2>2, InsideIsRunning DEF Inside, Stopped
    <3>2. g \notin Inside' /\ g \notin Stopped' /\ g \notin Refusals'
      BY <2>2 DEF Inside, Stopped, Refusals, InFlight
    <3>3. Inside' = {} /\ Stopped' = {} /\ Refusals' = Refusals \ {g}
      BY <1>1, <3>1, <3>2, OthersKept DEF Inside, Stopped, Refusals
    <3>4. QED
      BY <3>1, <3>3 DEF Contract!Accept, Inside, Stopped, Refusals, Busy
  <2>3. CASE running /\ call'[g] = Returned(Busy)
    <3>1. Inside /= {}
      BY <2>3, InsideIsRunning
    <3>2. g \notin Inside' /\ g \notin Stopped' /\ g \in Refusals'
      BY <2>3, FreshFrames DEF Inside, Stopped, Refusals, InFlight, At
    <3>3. Inside' = Inside /\ Stopped' = Stopped /\ Refusals' = Refusals \union {g}
      BY <1>1, <2>0, <3>2, OthersKept DEF Inside, Stopped, Refusals
    <3>4. QED
      BY <2>0, <3>1, <3>3 DEF Contract!Refuse, Inside, Stopped, Refusals, Busy
  <2>4. QED
    BY <1>1, <2>1, <2>2, <2>3, BeginKeeps
<1>2. ASSUME NEW g \in Caller, Advance(g) \/ UserReturns(g)
      PROVE  Contract!Leave(g) \/ UNCHANGED <<Inside, Stopped, Refusals>>
  <2>0. ~At(g, "idle") /\ call[g].err /= Busy /\ g \notin Refusals
    <3>1. ~At(g, "idle")
      BY <1>2 DEF Advance, CheckCtx, FireEntryIfNeeded, ReadCurrent, NoHandler,
         TakeExitRequest, RecordReason, Transit, RecordErrorAndRoute, Fire, Finish,
         UserReturns, EntryHookReturns, HandlerReturns, ExitHookReturns, At
    <3>2. QED
      BY <3>1 DEF NeverBusy, Refusals
  <2>1. g \notin Refusals'
    BY <1>2, <2>0, InCallKeeps DEF Refusals
  <2>2. CASE Finish(g)
    <3>1. /\ call[g].kind = "Run" /\ call'[g] = Returned(call[g].err)
      BY <1>2, <2>2, FrameGood DEF Finish, At, Shape, Becomes, TInv
    <3>2. g \in Inside /\ g \notin Inside' /\ g \notin Stopped'
      BY <2>0, <3>1, FreshFrames DEF Inside, Stopped, InFlight, At
    <3>3. /\ Inside' = Inside \ {g} /\ Stopped' = Stopped \ {g}
          /\ Refusals' = Refusals
      BY <1>2, <2>0, <2>1, <3>2, OthersKept DEF Inside, Stopped, Refusals
    <3>4. QED
      BY <3>2, <3>3 DEF Contract!Leave, Inside, Stopped, Refusals, Busy
  <2>3. CASE ~Finish(g)
    <3>1. call'[g].kind = "Run" <=> call[g].kind = "Run"
      BY <1>2, <2>3, AdvanceEffect, UserEffect, ReframesGood DEF InCall
    <3>2. InFlight(g, "Run") <=> call[g].kind = "Run"
      BY InFlightIsKind DEF Method
    <3>3. InFlight(g, "Run")' <=> call'[g].kind = "Run"
      BY FrameGood DEF TInv, GoodFrame, InFlight, Shape, Method
    <3>4. call[g].kind = "Run" => call'[g].cancelled = call[g].cancelled
      BY <1>2, <2>0, <2>3, InCallKeeps
    <3>5. (g \in Inside' <=> g \in Inside) /\ (g \in Stopped' <=> g \in Stopped)
      BY <3>1, <3>2, <3>3, <3>4 DEF Inside, Stopped
    <3>6. QED
      BY <1>2, <2>0, <2>1, <3>5, OthersKept DEF Inside, Stopped, Refusals
  <2>4. QED
    BY <2>2, <2>3
<1>3. ASSUME NEW g \in Caller, Cancel(g)
      PROVE  Contract!Stop(g) \/ UNCHANGED <<Inside, Stopped, Refusals>>
  <2>1. /\ call'[g].kind = call[g].kind /\ call'[g].pc = call[g].pc
        /\ call'[g].err = call[g].err /\ call'[g].cancelled /\ ~call[g].cancelled
    BY <1>3, FrameGood DEF Cancel, Becomes, TInv, Frame
  <2>2. (g \in Inside' <=> g \in Inside) /\ (g \in Refusals' <=> g \in Refusals)
        /\ g \notin Stopped /\ (g \in Stopped' <=> g \in Inside)
    BY <2>1 DEF Inside, Stopped, Refusals, InFlight, At
  <2>3. Inside' = Inside /\ Refusals' = Refusals
    BY <1>3, <2>2, OthersKept DEF Inside, Refusals
  <2>4. CASE g \in Inside
    <3>1. Stopped' = Stopped \union {g}
      BY <1>3, <2>2, <2>4, OthersKept DEF Stopped
    <3>2. QED
      BY <2>2, <2>3, <2>4, <3>1 DEF Contract!Stop, Inside, Stopped, Refusals, Busy
  <2>5. CASE g \notin Inside
    <3>1. Stopped' = Stopped
      BY <1>3, <2>2, <2>5, OthersKept DEF Stopped
    <3>2. QED
      BY <2>3, <3>1
  <2>6. QED
    BY <2>4, <2>5
<1>4. CASE (\E s \in State, r \in Reason : RequestExit(s, r)) \/ Tick
  BY <1>4, EnvironmentEffect DEF Inside, Stopped, Refusals, InFlight, At
<1>5. CASE UNCHANGED vars
  BY <1>5 DEF vars, Inside, Stopped, Refusals, InFlight, At
<1>6. QED
  BY <1>1, <1>2, <1>3, <1>4, <1>5 DEF Next, Contract!Next

\* The machine implements the contract of Run: for any states, hooks, callers
\* and methods, Runs do not overlap and ErrAlreadyRunning is returned exactly
\* to those who call while another goroutine is in Run (machine.go:157-158,
\* 180-199, 364-376, 484-490, 509-515).
THEOREM MachineKeepsContract == Spec => KeepsContract
<1>1. Init => Contract!Init
  <2>1. \A g \in Caller : Init => call[g].pc = "idle" /\ call[g].err = "nil"
    BY FreshFrames DEF Init
  <2>2. QED
    BY <2>1, FreshFrames DEF Contract!Init, InFlight, At, Busy
<1>2. QED
  BY <1>1, CInvCorrect, NextKeepsContract, PTL DEF Spec, KeepsContract, Contract!Spec
=============================================================================
