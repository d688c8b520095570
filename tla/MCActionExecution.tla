------------------------- MODULE MCActionExecution --------------------------
(* Instances of ActionExecution small enough for TLC. *)
EXTENDS ActionExecutionProps

CONSTANTS e1, e2, p1, p2    \* model values for Executor and Post
=============================================================================
