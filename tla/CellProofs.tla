----------------------------- MODULE CellProofs -----------------------------
(***************************************************************************)
(* Proofs about Lifecycle, for any users and contexts, and about Cell, for *)
(* any number of loops, managers, operators and contexts.                  *)
(*                                                                         *)
(* Loop contexts are minted one after the other, each only once its        *)
(* predecessor is cancelled.  Every step of the cell is a step of          *)
(* Lifecycle or leaves it alone, so what is proved of Lifecycle holds in   *)
(* the cell with loops and teardown calls as its users.  What is left to   *)
(* show is that the loops are used as CellTypeOK says; that a refusal is   *)
(* always due to an unwinding Run then follows from Lifecycle's invariant. *)
(***************************************************************************)
EXTENDS Cell, TLAPS

-----------------------------------------------------------------------------
(***************************************************************************)
(* The lifecycle.                                                          *)
(***************************************************************************)

\* Nothing holds a context that was not minted, the current loop context is
\* the last one minted, and it is cancelled once the lifecycle is closed.
Inv ==
  /\ TypeOK
  /\ NoLiveOrphan
  /\ loopCtx = minted
  /\ \A u \in User : op[u].at \in {"choosing", "loop"} => op[u].ctx \in 1 .. minted
  /\ closed => loopCtx \in cancelled

\* Inv is inductive.
LEMMA InvCorrect == Spec => []Inv
<1>1. Init => Inv
  <2>1. None \in Op /\ None.at = "none"
    BY DEF None, Op
  <2>2. 1 \in LoopCtx
    BY CtxAssumption DEF LoopCtx
  <2>3. Init => TypeOK
    BY <2>1, <2>2 DEF Init, TypeOK
  <2>4. Init => \A u \in User : op[u].at \notin {"choosing", "loop"}
    BY <2>1 DEF Init
  <2>5. Init => NoLiveOrphan /\ loopCtx = minted /\ ~closed
    BY DEF Init, NoLiveOrphan
  <2>6. QED
    BY <2>3, <2>4, <2>5 DEF Inv
<1>2. Inv /\ [Next]_vars => Inv'
  <2> SUFFICES ASSUME Inv, [Next]_vars PROVE Inv'
    OBVIOUS
  <2> USE CtxAssumption DEF Inv, TypeOK, NoLiveOrphan, LoopCtx
  <2>1. ASSUME NEW u \in User, NEW o \in Op, Under(u, o),
               UNCHANGED <<loopCtx, minted, cancelled, closed>>,
               o.at \in {"choosing", "loop"} => o.ctx \in 1 .. minted
        PROVE  Inv'
    BY <2>1 DEF Under
  <2>2. ASSUME NEW u \in User, Ctx(u) PROVE Inv'
    BY <2>1, <2>2 DEF Ctx, OnLoop, Op
  <2>3. ASSUME NEW u \in User, EnsureLive(u) PROVE Inv'
    <3>1. CASE closed \/ Live(loopCtx)
      BY <2>1, <2>3, <3>1 DEF EnsureLive, OnLoop, Op
    <3>2. CASE ~(closed \/ Live(loopCtx))
      <4>1. OnLoop(minted') \in Op /\ OnLoop(minted').ctx = minted'
        BY <2>3, <3>2 DEF EnsureLive, OnLoop, Op
      <4>2. QED
        BY <2>3, <3>2, <4>1 DEF EnsureLive, Under, Live
    <3>3. QED
      BY <3>1, <3>2
  <2>4. ASSUME NEW u \in User, CleanupCtx(u) PROVE Inv'
    BY <2>1, <2>4 DEF CleanupCtx, OnCleanup, Op
  <2>5. ASSUME NEW u \in User, CtxOrCleanupRead(u) PROVE Inv'
    BY <2>1, <2>5 DEF CtxOrCleanupRead, Op
  <2>6. ASSUME NEW u \in User, CtxOrCleanupChoose(u) PROVE Inv'
    <3>1. OnLoop(op[u].ctx) \in Op /\ OnLoop(op[u].ctx).ctx = op[u].ctx /\ OnCleanup \in Op
          /\ OnCleanup.at = "cleanup" /\ op[u].ctx \in 1 .. minted
      BY <2>6 DEF CtxOrCleanupChoose, OnLoop, OnCleanup, Op
    <3>2. QED
      BY <2>1, <2>6, <3>1 DEF CtxOrCleanupChoose
  <2>7. ASSUME NEW u \in User, Return(u) PROVE Inv'
    BY <2>1, <2>7 DEF Return, None, Op
  <2>8. CASE Stop
    BY <2>8 DEF Stop
  <2>9. CASE Close
    BY <2>9 DEF Close
  <2>10. CASE UNCHANGED vars
    BY <2>10 DEF vars
  <2>11. QED
    BY <2>2, <2>3, <2>4, <2>5, <2>6, <2>7, <2>8, <2>9, <2>10 DEF Next
<1>3. QED
  BY <1>1, <1>2, PTL DEF Spec

\* The lifecycle's variables keep their types, whatever its users do.
THEOREM LifecycleTyped == Spec => []TypeOK
<1>1. Inv => TypeOK
  BY DEF Inv
<1>2. QED
  BY <1>1, InvCorrect, PTL

\* No loop context escapes Stop and Close: all but the current one are
\* cancelled already (lifecycle.go:157-178).
THEOREM StopReachesAll == Spec => []NoLiveOrphan
<1>1. Inv => NoLiveOrphan
  BY DEF Inv
<1>2. QED
  BY <1>1, InvCorrect, PTL

\* Close is final for everything that runs under a loop context, also for a
\* CtxOrCleanup that had read the context before (lifecycle.go:197-218).
THEOREM CloseIsFinal == Spec => []ClosedIsFinal
<1>1. Inv => ClosedIsFinal
  BY DEF Inv, NoLiveOrphan, ClosedIsFinal
<1>2. QED
  BY <1>1, InvCorrect, PTL

-----------------------------------------------------------------------------
(***************************************************************************)
(* The roles of its users in the cell.                                     *)
(***************************************************************************)

\* The roles of a user, one by one.
LEMMA Roles ==
  /\ Loop \subseteq User /\ Manager \subseteq User /\ Operator \subseteq User
  /\ \A l \in Loop : l \notin Manager /\ l \notin Operator
  /\ \A m \in Manager : m \notin Operator
BY CellAssumption

\* The three kinds of operation differ.
LEMMA Kinds ==
  /\ OnCleanup /= None /\ OnCleanup.at = "cleanup" /\ None.at = "none"
  /\ \A c : OnLoop(c).at = "loop" /\ OnLoop(c) /= None
BY DEF OnCleanup, None, OnLoop

-----------------------------------------------------------------------------
(***************************************************************************)
(* The cell uses the lifecycle as Lifecycle says.                          *)
(***************************************************************************)

\* Every step of the cell is a lifecycle step, or none.
LEMMA CellStepIsLifecycleStep == [NextCell]_cellVars => [Next]_vars
<1> SUFFICES ASSUME [NextCell]_cellVars PROVE Next \/ UNCHANGED vars
  OBVIOUS
<1> USE Roles DEF Next
<1>1. CASE Construct
  BY <1>1 DEF Construct
<1>2. CASE OperatorStops
  BY <1>2 DEF OperatorStops
<1>3. ASSUME NEW m \in Manager,
             \/ ReconfigureStops(m) \/ ReconfigureTells(m) \/ PeerReturns(m)
             \/ ReconfigureStarts(m)
             \/ CloseCloses(m) \/ CloseParks(m) \/ ArmReturns(m)
      PROVE  Next
  BY <1>3 DEF ReconfigureStops, ReconfigureTells, PeerReturns, ReconfigureStarts,
              CloseCloses, CloseParks, ArmReturns
<1>4. ASSUME NEW l \in Loop, Enters(l) PROVE UNCHANGED vars
  BY <1>4 DEF Enters, lifeVars, vars
<1>5. ASSUME NEW l \in Loop, IsRefused(l) \/ Leaves(l) PROVE Next
  BY <1>5 DEF IsRefused, Leaves
<1>6. ASSUME NEW u \in Operator, Operate(u) PROVE Next
  BY <1>6 DEF Operate
<1>7. CASE UNCHANGED cellVars
  BY <1>7 DEF cellVars, vars
<1>8. QED
  BY <1>1, <1>2, <1>3, <1>4, <1>5, <1>6, <1>7 DEF NextCell

\* The cell implements Lifecycle: the goroutines of its loops, its managers'
\* teardown calls and its operators are users of one lifecycle
\* (lifecycle.go:23-67).
THEOREM CellUsesLifecycle == CellSpec => Spec
<1>1. InitCell => Init
  BY DEF InitCell
<1>2. QED
  BY <1>1, CellStepIsLifecycleStep, PTL DEF CellSpec, Spec

\* So in the cell, too, every loop context but the current one is cancelled:
\* no loop runs out of reach of Stop (lifecycle.go:157-178).
THEOREM CellStopReachesAll == CellSpec => []NoLiveOrphan
BY CellUsesLifecycle, StopReachesAll, PTL

\* And once closed, whatever loop is started or running is on a cancelled
\* context, even one that a concurrent Reconfigure starts afterwards
\* (lifecycle.go:58-66, 160-162, 211-218).
THEOREM CellCloseIsFinal == CellSpec => []ClosedIsFinal
BY CellUsesLifecycle, CloseIsFinal, PTL

-----------------------------------------------------------------------------
(***************************************************************************)
(* The invariant of the cell's own variables.                              *)
(***************************************************************************)

\* What CellTypeOK says beside Lifecycle's TypeOK.
Own ==
  /\ inside \subseteq Loop /\ refused \subseteq Loop
  /\ \A l \in inside : Started(l)
  /\ \A m \in Manager :
       op[m] = IF at[m] \in {"telling", "parking"} THEN OnCleanup ELSE None
  /\ at \in [Manager -> Place]
  /\ built \in BOOLEAN

\* A step of a loop or an operator that is not the end of a Run in progress.
LEMMA OthersOwn ==
  ASSUME Inv, Own, NEW u \in User, u \notin Manager, u \notin inside, NEW o,
         Under(u, o), UNCHANGED <<inside, at, built>>, refused' \subseteq Loop
  PROVE  Own'
<1>1. \A v \in User : v /= u => op'[v] = op[v]
  BY DEF Inv, TypeOK, Under
<1>2. \A l \in inside : op'[l] = op[l]
  BY <1>1, Roles DEF Own
<1>3. \A m \in Manager : op'[m] = op[m]
  BY <1>1, Roles
<1>4. QED
  BY <1>2, <1>3 DEF Own, Started

\* A manager that goes on, taking up or ending a teardown call.
LEMMA ManagersOwn ==
  ASSUME Inv, Own, NEW m \in Manager, NEW from, NEW to \in Place, Goes(m, from, to),
         op' = [op EXCEPT ![m] =
                  IF to \in {"telling", "parking"} THEN OnCleanup ELSE None],
         UNCHANGED <<inside, refused, built>>
  PROVE  Own'
<1>1. \A v \in User : v /= m => op'[v] = op[v]
  BY DEF Inv, TypeOK
<1>2. op'[m] = IF to \in {"telling", "parking"} THEN OnCleanup ELSE None
  BY Roles DEF Inv, TypeOK
<1>3. \A l \in inside : op'[l] = op[l]
  BY <1>1, Roles DEF Own
<1>4. at' \in [Manager -> Place] /\ at'[m] = to /\ \A k \in Manager : k /= m => at'[k] = at[k]
  BY DEF Own, Goes
<1>5. \A k \in Manager :
        op'[k] = IF at'[k] \in {"telling", "parking"} THEN OnCleanup ELSE None
  BY <1>1, <1>2, <1>4, Roles DEF Own
<1>6. QED
  BY <1>3, <1>4, <1>5 DEF Own, Started

\* Own is preserved by every step of the cell.
LEMMA OwnKept ==
  ASSUME Inv, Own, [NextCell]_cellVars
  PROVE  Own'
<1> USE Roles
<1>1. CASE Construct
  <2>1. PICK l \in Loop : Ctx(l)
    BY <1>1 DEF Construct
  <2>2. l \notin inside
    BY <2>1, Kinds DEF Ctx, Own, Started
  <2>3. inside' = inside /\ refused' = refused /\ at' = at /\ built' \in BOOLEAN
    BY <1>1 DEF Construct
  <2>4. \A v \in User : v /= l => op'[v] = op[v]
    BY <2>1 DEF Inv, TypeOK, Ctx, Under
  <2>5. QED
    BY <2>2, <2>3, <2>4 DEF Own, Started
<1>2. CASE OperatorStops
  BY <1>2 DEF OperatorStops, Stop, Own, Started
<1>3. ASSUME NEW m \in Manager, ReconfigureStops(m) PROVE Own'
  <2>1. op[m] = None /\ op' = op
    BY <1>3 DEF ReconfigureStops, Goes, Own, Stop
  <2>2. op' = [op EXCEPT ![m] = None]
    BY <2>1 DEF Inv, TypeOK
  <2>3. QED
    BY <1>3, <2>2, ManagersOwn DEF ReconfigureStops, Place
<1>4. ASSUME NEW m \in Manager, ReconfigureTells(m) PROVE Own'
  BY <1>4, ManagersOwn DEF ReconfigureTells, CleanupCtx, Under, Place
<1>5. ASSUME NEW m \in Manager, PeerReturns(m) PROVE Own'
  BY <1>5, ManagersOwn DEF PeerReturns, Return, Under, Place
<1>6. ASSUME NEW m \in Manager, ReconfigureStarts(m) PROVE Own'
  <2>1. PICK l \in Loop : EnsureLive(l)
    BY <1>6 DEF ReconfigureStarts
  <2>2. l \notin inside
    BY <2>1, Kinds DEF EnsureLive, Own, Started
  <2>3. \A v \in User : v /= l => op'[v] = op[v]
    BY <2>1 DEF Inv, TypeOK, EnsureLive, Under
  <2>4. at' \in [Manager -> Place] /\ at'[m] = "idle" /\ at[m] = "told"
        /\ \A k \in Manager : k /= m => at'[k] = at[k]
    BY <1>6 DEF ReconfigureStarts, Goes, Own, Place
  <2>5. \A k \in Manager :
          op'[k] = IF at'[k] \in {"telling", "parking"} THEN OnCleanup ELSE None
    BY <2>3, <2>4 DEF Own
  <2>6. inside' = inside /\ refused' = refused /\ built' = built
    BY <1>6 DEF ReconfigureStarts
  <2>7. QED
    BY <2>2, <2>3, <2>4, <2>5, <2>6 DEF Own, Started
<1>7. ASSUME NEW m \in Manager, CloseCloses(m) PROVE Own'
  <2>1. op[m] = None /\ op' = op
    BY <1>7 DEF CloseCloses, Goes, Own, Close
  <2>2. op' = [op EXCEPT ![m] = None]
    BY <2>1 DEF Inv, TypeOK
  <2>3. QED
    BY <1>7, <2>2, ManagersOwn DEF CloseCloses, Place
<1>8. ASSUME NEW m \in Manager, CloseParks(m) PROVE Own'
  BY <1>8, ManagersOwn DEF CloseParks, CleanupCtx, Under, Place
<1>9. ASSUME NEW m \in Manager, ArmReturns(m) PROVE Own'
  BY <1>9, ManagersOwn DEF ArmReturns, Return, Under, Place
<1>10. ASSUME NEW l \in Loop, Enters(l) PROVE Own'
  <2>1. inside' = {l} /\ refused' \subseteq Loop /\ Started(l)
    BY <1>10 DEF Enters, Machine!Enter, Own
  <2>2. QED
    BY <1>10, <2>1 DEF Enters, Own, Started
<1>11. ASSUME NEW l \in Loop, IsRefused(l) PROVE Own'
  <2>1. inside' = inside /\ refused' \subseteq Loop /\ l \notin inside /\ Under(l, None)
    BY <1>11 DEF IsRefused, Return, Machine!Refuse, Own
  <2>2. QED
    BY <1>11, <2>1, OthersOwn DEF IsRefused
<1>12. ASSUME NEW l \in Loop, Leaves(l) PROVE Own'
  <2>1. inside' = inside \ {l} /\ refused' = refused
    BY <1>12 DEF Leaves, Machine!Leave
  <2>2. \A v \in User : v /= l => op'[v] = op[v]
    BY <1>12 DEF Inv, TypeOK, Leaves, Return, Under
  <2>3. at' = at /\ built' = built
    BY <1>12 DEF Leaves
  <2>4. QED
    BY <2>1, <2>2, <2>3 DEF Own, Started
<1>13. ASSUME NEW u \in Operator, Operate(u) PROVE Own'
  <2>1. PICK o : Under(u, o)
    BY <1>13 DEF Operate, Ctx, CleanupCtx, CtxOrCleanupRead, CtxOrCleanupChoose, Return,
                 EnsureLive
  <2>2. u \notin Manager /\ u \notin inside /\ refused' \subseteq Loop
    BY <1>13 DEF Operate, Own
  <2>3. QED
    BY <1>13, <2>1, <2>2, OthersOwn DEF Operate
<1>14. CASE UNCHANGED cellVars
  BY <1>14 DEF cellVars, Own, Started
<1>15. QED
  BY <1>1, <1>2, <1>3, <1>4, <1>5, <1>6, <1>7, <1>8, <1>9, <1>10, <1>11, <1>12, <1>13, <1>14
     DEF NextCell

\* Both invariants hold together.
LEMMA CellInvCorrect == CellSpec => [](Inv /\ Own)
<1>1. InitCell => Own
  BY Roles, Kinds DEF InitCell, Init, Own, Place
<1>2. Inv /\ Own /\ [NextCell]_cellVars => Own'
  BY OwnKept
<1>3. CellSpec => []Inv
  BY CellUsesLifecycle, InvCorrect, PTL
<1>4. QED
  BY <1>1, <1>2, <1>3, PTL DEF CellSpec

\* Types, loops in Run were started, managers wait under cleanup contexts only.
THEOREM CellTyped == CellSpec => []CellTypeOK
<1>1. Inv /\ Own => CellTypeOK
  BY DEF Inv, Own, CellTypeOK
<1>2. QED
  BY <1>1, CellInvCorrect, PTL

-----------------------------------------------------------------------------
(***************************************************************************)
(* Who is turned away, and by whom.                                        *)
(***************************************************************************)

\* A Run on the live loop context is refused only while one on that context, or a
\* cancelled one, is in progress: a context other than the current one is
\* cancelled, and the current one is the only live one (lifecycle.go:42-56,
\* machine.go:180-185).
THEOREM RefusalPasses == CellSpec => RefusedByUnwinding
<1> DEFINE Unwinding(l) == \E k \in inside : op[k].ctx \in cancelled \/ op[k].ctx = op[l].ctx
<1>1. ASSUME Inv, Own, NEW l \in Loop, NEW k \in inside, Started(l), Live(op[l].ctx)
      PROVE  op[k].ctx \in cancelled \/ op[k].ctx = op[l].ctx
  <2>1. op[l].ctx \in 1 .. minted /\ op[k].ctx \in 1 .. minted
    BY <1>1, Roles DEF Inv, Own, Started
  <2>2. op[l].ctx = loopCtx
    BY <1>1, <2>1 DEF Inv, NoLiveOrphan, Live
  <2>3. QED
    BY <1>1, <2>1, <2>2 DEF Inv, NoLiveOrphan
<1>2. ASSUME Inv, Own, [NextCell]_cellVars, NEW l \in Loop, TurnedAway(l), Live(op[l].ctx)
      PROVE  inside /= {}
  <2>1. op[l] /= None /\ op'[l] = None /\ l \notin inside
    BY <1>2, Kinds DEF TurnedAway, Started
  <2> USE Roles
  <2>2. CASE \E k \in Loop : IsRefused(k)
    BY <2>2 DEF IsRefused, Machine!Refuse
  <2>3. CASE \E k \in Loop : Leaves(k)
    BY <2>3 DEF Leaves, Machine!Leave
  <2>4. CASE Construct
    <3>1. PICK k \in Loop : Ctx(k)
      BY <2>4 DEF Construct
    <3>2. QED
      BY <1>2, <2>1, <3>1, Kinds DEF Ctx, Under, Inv, TypeOK
  <2>5. CASE OperatorStops
    BY <2>1, <2>5 DEF OperatorStops, Stop
  <2>6. ASSUME NEW m \in Manager, ReconfigureStarts(m) PROVE FALSE
    <3>1. PICK k \in Loop : EnsureLive(k)
      BY <2>6 DEF ReconfigureStarts
    <3>2. QED
      BY <1>2, <2>1, <3>1, Kinds DEF EnsureLive, Under, Inv, TypeOK
  <2>7. ASSUME NEW m \in Manager,
               \/ ReconfigureStops(m) \/ ReconfigureTells(m) \/ PeerReturns(m)
               \/ CloseCloses(m) \/ CloseParks(m) \/ ArmReturns(m)
        PROVE  FALSE
    <3>1. op' = op \/ \E o : Under(m, o)
      BY <2>7 DEF ReconfigureStops, ReconfigureTells, PeerReturns, CloseCloses, CloseParks,
                  ArmReturns, Stop, Close, CleanupCtx, Return
    <3>2. QED
      BY <1>2, <2>1, <3>1 DEF Under, Inv, TypeOK
  <2>8. ASSUME NEW k \in Loop, Enters(k) PROVE FALSE
    BY <2>1, <2>8 DEF Enters
  <2>9. ASSUME NEW u \in Operator, Operate(u) PROVE FALSE
    <3>1. PICK o : Under(u, o)
      BY <2>9 DEF Operate, Ctx, CleanupCtx, CtxOrCleanupRead, CtxOrCleanupChoose, Return,
                  EnsureLive
    <3>2. QED
      BY <1>2, <2>1, <3>1 DEF Under, Inv, TypeOK
  <2>10. CASE UNCHANGED cellVars
    BY <2>1, <2>10 DEF cellVars
  <2>11. QED
    BY <1>2, <2>2, <2>3, <2>4, <2>5, <2>6, <2>7, <2>8, <2>9, <2>10 DEF NextCell
<1>3. ASSUME Inv, Own, [NextCell]_cellVars, NEW l \in Loop, TurnedAway(l), Live(op[l].ctx)
      PROVE  Unwinding(l)
  <2>1. PICK k \in inside : TRUE
    BY <1>2, <1>3
  <2>2. QED
    BY <1>1, <1>3, <2>1 DEF TurnedAway
<1>4. Inv /\ Own /\ [NextCell]_cellVars =>
        [\A l \in Loop : TurnedAway(l) /\ Live(op[l].ctx) => Unwinding(l)]_cellVars
  BY <1>3
<1>5. QED
  BY <1>4, CellInvCorrect, PTL DEF CellSpec, RefusedByUnwinding
=============================================================================
