------------------------ MODULE ActionExecutionProps ------------------------
(* What the harness promises of an approved write. *)
EXTENDS ActionExecution

(***************************************************************************)
(* Safety                                                                  *)
(***************************************************************************)

(* A lock is held exactly while its `async with` body runs: over every exit of an attempt,
   the failure path and the death of its process included, neither lock is left behind
   and neither is given up early.  Proved, not run: ExecutionEnds is what a reader feels of it. *)
LocksFollowTheAttempt ==
  \A e \in Executor :
    /\ actionLock = e <=> pc[e] \in UnderLock
    /\ submitLock = e <=> pc[e] \in {"submitting", "posting", "awaiting"}

(* PHASE2_ENTERPRISE_ACCEPTANCE: "effectively/exactly once observable side effect".  No
   second request is ever sent to GLPI for an approved action, over crashes, timeouts and
   replays, as long as the guard admits one executor; without the guard, as long as
   nothing fails. *)
OneWrite ==
  mode = "worker" \/ faults = 0 => \A p, q \in sent : p = q

(* The same without the premise: what the documentation says of two processes.  The code
   does not keep it: the approval is checked before the lock, and a request given up by
   the first executor is not there yet when the second looks for its marker. *)
OneWriteWhateverTheMode == \A p, q \in sent : p = q

(* repository.run_submission: no request to GLPI is begun once the cancellation of the run
   is committed, nor, where one executor runs at a time, once the run ended otherwise. *)
NoWriteAfterTheEnd ==
  [][sent' # sent => run # "cancelled" /\ (mode = "worker" => run = "running")]_vars

(* Success is never claimed for a write that is not there: a completed idempotency record,
   a succeeded intent, a checkpoint past the node and a succeeded run each rest on a
   followup in GLPI, and a run that succeeded has its creation in the audit trail
   (with a guard, or when nothing fails). *)
SuccessIsReal ==
  /\ ledger = "completed" \/ intent = "succeeded" \/ checkpoint = "finalize" \/ run = "succeeded"
       => ledger = "completed" /\ written # {}
  /\ run = "succeeded" /\ (mode = "worker" \/ faults = 0) => audited

(* PHASE2_ENTERPRISE_ACCEPTANCE of a process that dies after GLPI committed the followup:
   the retry scans for the marker and recovers the followup that is there.  An attempt
   that finds the followup written is not turned away before it can look.  The code does
   not keep this: the crash leaves the intent EXECUTING, which Check refuses. *)
RetryReconciles ==
  [][\A e \in Executor :
       written # {} /\ pc[e] = "checking" /\ pc'[e] = "failing" => faults' # faults]_vars

(* The executors, their locks and attempts together keep what ApprovedWrite says of the
   write: requests are sent to an open run only, with the guard once; a record of success
   has a followup behind it; and with the guard no second status is written over the first. *)
Approved == INSTANCE ApprovedWrite WITH
  Request <- Post, guarded <- mode = "worker", asked <- sent, there <- written,
  confirmed <- ledger = "completed", status <- run

ImplementsApprovedWrite == Approved!Spec

(***************************************************************************)
(* Liveness, under FairSpec                                                *)
(***************************************************************************)

(* No lock outlives the attempt that took it, and no attempt waits for an answer that will
   not come: a run in its write step ends. *)
ExecutionEnds == (run = "running") ~> (run # "running")
=============================================================================
