----------------------------- MODULE RunContract -----------------------------
(***************************************************************************)
(* What statemachine.Machine promises the goroutines that share it about   *)
(* Run (src/statemachine/machine.go): one Run at a time, everybody else    *)
(* refused exactly while it lasts, and an end to it once its context is    *)
(* cancelled.  Handlers, states, errors and hooks do not appear.           *)
(*                                                                         *)
(* StateMachine implements this specification, and Cell is built on it.    *)
(***************************************************************************)
CONSTANT Caller   \* goroutines that use the machine

VARIABLES
  inside,   \* those between the entry and the return of Run: none, or one
  stopped,  \* those inside whose context is cancelled
  refused   \* those whose last call returned ErrAlreadyRunning

contract == <<inside, stopped, refused>>

Init == inside = {} /\ stopped = {} /\ refused = {}

\* Run begins, perhaps on a context that is cancelled already.
Enter(g) ==
  /\ inside = {}
  /\ inside' = {g}
  /\ stopped' \in {{}, {g}}
  /\ refused' = refused \ {g}

\* Run, Step, Goto and Reset are refused while another goroutine is in Run.
Refuse(g) ==
  /\ inside /= {} /\ g \notin inside
  /\ refused' = refused \union {g}
  /\ UNCHANGED <<inside, stopped>>

\* Step, Goto and Reset are let in otherwise.
Accept(g) ==
  /\ inside = {}
  /\ refused' = refused \ {g}
  /\ UNCHANGED <<inside, stopped>>

\* The owner of the context cancels it.
Stop(g) ==
  /\ g \in inside \ stopped
  /\ stopped' = stopped \union {g}
  /\ UNCHANGED <<inside, refused>>

\* Run returns: stopped, at a terminal state, or with an error.
Leave(g) ==
  /\ g \in inside
  /\ inside' = inside \ {g}
  /\ stopped' = stopped \ {g}
  /\ UNCHANGED refused

Next == \E g \in Caller : Enter(g) \/ Refuse(g) \/ Accept(g) \/ Stop(g) \/ Leave(g)

Spec == Init /\ [][Next]_contract

\* A stopped Run returns.
StoppedRunsReturn == \A g \in Caller : g \in stopped ~> g \notin inside
=============================================================================
