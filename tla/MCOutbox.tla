------------------------------ MODULE MCOutbox ------------------------------
(* Two relay processes, whose worker ids may collide, and two consumers. *)
EXTENDS OutboxProps

CONSTANTS r1, r2, shared

MCSharedId == [r \in Relay |-> shared]
=============================================================================
