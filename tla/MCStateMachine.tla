--------------------------- MODULE MCStateMachine ---------------------------
(***************************************************************************)
(* Values of StateMachine's constants for TLC: who calls what.             *)
(***************************************************************************)
EXTENDS StateMachine, TLC

CONSTANTS owner, helper

\* A loop owner that runs and steps, and an operator interface that runs the
\* loop too and resets it in between; RequestExit comes from anywhere.
OwnerAndOperator == owner :> {"Run", "Step"} @@ helper :> {"Run", "Reset"}

\* A loop owner, and an operator interface that runs, steps and resets.
RunAndStep == owner :> {"Run"} @@ helper :> Method
=============================================================================
