------------------------- MODULE MCSupervisorGraph --------------------------
(* Instances of SupervisorGraph small enough for TLC. *)
EXTENDS SupervisorGraphProps
=============================================================================
