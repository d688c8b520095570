----------------------------- MODULE RunOutline -----------------------------
(***************************************************************************)
(* The supervised graph of one run as a person sees it, and as RunWorker   *)
(* walks it: work that no person has a part in ("pipeline"), the questions *)
(* that interrupt it, what their answers lead to, and the status that      *)
(* finalize_node records.  A node that raises leaves the run where it is.  *)
(***************************************************************************)

VARIABLES
  place,     \* what runs or is asked next
  outcome    \* the status finalize_node recorded

Init == place = "pipeline" /\ outcome = "none"

Goes(from, to) == place = from /\ place' \in to /\ UNCHANGED outcome

Work == Goes("pipeline", {"approval", "escalate", "finalize", "raised"})

(* Approved, rejected, or void because the requester lost grants. *)
Decision == Goes("approval", {"execute", "decline", "pipeline"})

Execution == Goes("execute", {"finalize"})

(* "continue" accepts the work as it is and "stop" gives it up: neither goes back to it. *)
Resolution == Goes("escalate", {"finalize", "decline"})

Close ==
  /\ \/ place = "decline" /\ outcome' = "cancelled"
     \/ place = "finalize" /\ outcome' \in {"succeeded", "failed", "cancelled"}
  /\ place' = "end"

Next == Work \/ Decision \/ Execution \/ Resolution \/ Close

Spec == Init /\ [][Next]_<<place, outcome>>
=============================================================================
