------------------------------ MODULE Lifecycle ------------------------------
(***************************************************************************)
(* lifecycle.Lifecycle (src/lifecycle/lifecycle.go): the cancellable loop  *)
(* context of a module and its cleanup contexts, shared by the goroutines  *)
(* that run operations under them.                                         *)
(*                                                                         *)
(* A loop context is the number under which it was minted; `cancelled' is  *)
(* the set of those whose cancel function has been called.  Every method   *)
(* is one step, except CtxOrCleanup, which reads the loop context under    *)
(* the lock and looks at its Err after releasing it.                       *)
(***************************************************************************)
EXTENDS Integers

CONSTANTS
  User,    \* goroutines that run operations
  MaxCtx   \* bound on the loop contexts minted

ASSUME CtxAssumption == MaxCtx \in Nat \ {0}

VARIABLES
  loopCtx,    \* l.loopCtx (and l.loopCancel, which cancels exactly it)
  minted,     \* the number of loop contexts made so far
  cancelled,  \* the loop contexts that are cancelled
  closed,     \* l.closed
  op          \* what each goroutine is doing, and under which context

vars == <<loopCtx, minted, cancelled, closed, op>>

LoopCtx == 1 .. MaxCtx
None == [at |-> "none", ctx |-> 0]

\* An operation is in CtxOrCleanup with the context it read, or under a loop
\* context, or under a cleanup context, which is no loop context.
Op == [at : {"choosing", "loop"}, ctx : LoopCtx]
        \union {[at |-> "cleanup", ctx |-> 0], None}

Live(c) == c \notin cancelled
Under(u, o) == op' = [op EXCEPT ![u] = o]
OnLoop(c) == [at |-> "loop", ctx |-> c]
OnCleanup == [at |-> "cleanup", ctx |-> 0]

Init ==
  /\ loopCtx = 1 /\ minted = 1
  /\ cancelled = {}
  /\ closed = FALSE
  /\ op = [u \in User |-> None]

\* Ctx: the loop context as it is, cancelled or not.
Ctx(u) ==
  /\ op[u] = None
  /\ Under(u, OnLoop(loopCtx))
  /\ UNCHANGED <<loopCtx, minted, cancelled, closed>>

\* A plausible slip: EnsureLive always mints.
EnsureLiveAnew(u) ==
  /\ op[u] = None
  /\ IF closed
     THEN UNCHANGED <<loopCtx, minted>>
     ELSE /\ minted < MaxCtx
          /\ minted' = minted + 1
          /\ loopCtx' = minted'
  /\ Under(u, OnLoop(loopCtx'))
  /\ UNCHANGED <<cancelled, closed>>

\* A plausible slip: EnsureLive without the check for Close.
EnsureLiveRevives(u) ==
  /\ op[u] = None
  /\ IF Live(loopCtx)
     THEN UNCHANGED <<loopCtx, minted>>
     ELSE /\ minted < MaxCtx
          /\ minted' = minted + 1
          /\ loopCtx' = minted'
  /\ Under(u, OnLoop(loopCtx'))
  /\ UNCHANGED <<cancelled, closed>>

\* EnsureLive: mint a loop context if the current one is cancelled, unless
\* closed.  minted < MaxCtx bounds the model.
EnsureLive(u) ==
  /\ op[u] = None
  /\ IF closed \/ Live(loopCtx)
     THEN UNCHANGED <<loopCtx, minted>>
     ELSE /\ minted < MaxCtx
          /\ minted' = minted + 1
          /\ loopCtx' = minted'
  /\ Under(u, OnLoop(loopCtx'))
  /\ UNCHANGED <<cancelled, closed>>

CleanupCtx(u) ==
  /\ op[u] = None
  /\ Under(u, OnCleanup)
  /\ UNCHANGED <<loopCtx, minted, cancelled, closed>>

\* CtxOrCleanup reads the loop context and unlocks ...
CtxOrCleanupRead(u) ==
  /\ op[u] = None
  /\ Under(u, [at |-> "choosing", ctx |-> loopCtx])
  /\ UNCHANGED <<loopCtx, minted, cancelled, closed>>

\* ... and then looks whether the context it read is still live.
CtxOrCleanupChoose(u) ==
  /\ op[u].at = "choosing"
  /\ Under(u, IF Live(op[u].ctx) THEN OnLoop(op[u].ctx) ELSE OnCleanup)
  /\ UNCHANGED <<loopCtx, minted, cancelled, closed>>

\* An operation returns: because it is done, because its loop context is
\* cancelled, or because its cleanup context timed out.
Return(u) ==
  /\ op[u].at \in {"loop", "cleanup"}
  /\ Under(u, None)
  /\ UNCHANGED <<loopCtx, minted, cancelled, closed>>

\* A plausible slip: Stop drops the context it cancelled.
StopDrops ==
  /\ cancelled' = cancelled \union {loopCtx}
  /\ loopCtx' = 0
  /\ UNCHANGED <<minted, closed, op>>

Stop ==
  /\ cancelled' = cancelled \union {loopCtx}
  /\ UNCHANGED <<loopCtx, minted, closed, op>>

\* A plausible slip: Close leaves the cancelling to Stop.
CloseOnlyMarks ==
  /\ closed' = TRUE
  /\ UNCHANGED <<loopCtx, minted, cancelled, op>>

Close ==
  /\ closed' = TRUE
  /\ cancelled' = cancelled \union {loopCtx}
  /\ UNCHANGED <<loopCtx, minted, op>>

Next ==
  \/ \E u \in User :
       \/ Ctx(u) \/ EnsureLive(u) \/ CleanupCtx(u)
       \/ CtxOrCleanupRead(u) \/ CtxOrCleanupChoose(u) \/ Return(u)
  \/ Stop \/ Close

Spec == Init /\ [][Next]_vars

\* Cancellation and the cleanup timeout end an operation; nothing ends one
\* that hangs under a live loop context.  CtxOrCleanup does not block.
Fairness ==
  \A u \in User :
    /\ WF_vars(CtxOrCleanupChoose(u))
    /\ WF_vars(op[u].at = "cleanup" /\ Return(u))
    /\ WF_vars(op[u].ctx \in cancelled /\ Return(u))

FairSpec == Spec /\ Fairness

-----------------------------------------------------------------------------

\* Every variable has its type.
TypeOK ==
  /\ loopCtx \in LoopCtx /\ minted \in LoopCtx
  /\ cancelled \subseteq LoopCtx
  /\ closed \in BOOLEAN
  /\ op \in [User -> Op]

\* Every loop context ever handed out, but for the current one, is cancelled:
\* none escapes Stop and Close (lifecycle.go:157-178).
NoLiveOrphan == \A c \in 1 .. minted : c /= loopCtx => c \in cancelled

\* Once the lifecycle is closed, whatever runs under a loop context runs under
\* a cancelled one: Close reaches every operation that is not a cleanup, also
\* one begun since, and nothing revives the loop (lifecycle.go:160-162,
\* 197-218).
ClosedIsFinal ==
  closed => \A u \in User : op[u].at = "loop" => op[u].ctx \in cancelled

\* Once closed, every operation under a loop context returns, however long it
\* would otherwise hang (lifecycle.go:13-17, 211-218).
CloseEndsOperations ==
  \A u \in User : closed /\ op[u].at = "loop" ~> op[u].at /= "loop"
=============================================================================
