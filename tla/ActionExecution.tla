--------------------------- MODULE ActionExecution --------------------------
(***************************************************************************)
(* The write of one approved action, from the execute node of the graph to *)
(* the ticket in GLPI:                                                     *)
(*   - harness/executor.py: ControlledActionExecutor.execute;              *)
(*   - persistence/repository.py: the intent's status, the idempotency     *)
(*     record, action_lock and the run-submit lock a cancellation takes;   *)
(*   - tool_platform/gateway.py and providers.py: the one attempt of the   *)
(*     WRITE tool, its reconcile-then-append and its read-back;            *)
(*   - GLPI itself, external: a POST is a request that may be applied,     *)
(*     also after its sender gave it up, or be lost.                       *)
(* An Executor is whoever invokes the graph at this run: the request that  *)
(* recorded the approval, a worker replaying it, or the start-up recovery  *)
(* of an API replica.  In "worker" mode execution_guard lets in one of     *)
(* them at a time (RunWorker); in "in_process" mode nothing does.          *)
(* The gateway's own ledger is keyed by a fresh request id and so takes no *)
(* part.  The run starts here with its approval recorded.                  *)
(***************************************************************************)
EXTENDS Naturals

CONSTANTS
  Executor,
  Post,         \* append requests to GLPI
  Modes,        \* the SERVICEMIND_RUN_EXECUTION_MODEs considered
  MaxFaults,    \* bound: crashes, failed calls and lost requests in one behaviour
  Nobody,
  NoPost

ASSUME ActionAssumption ==
  /\ Modes \subseteq {"worker", "in_process"}
  /\ MaxFaults \in Nat
  /\ Nobody \notin Executor
  /\ NoPost \notin Post

VARIABLES
  mode,
  run,          \* agent_runs.status
  intent,       \* action_intents.status
  ledger,       \* the idempotency record of "glpi:append_ticket_followup:<run>"
  checkpoint,   \* the node the graph resumes at
  actionLock,   \* holder of that key's transaction lock
  submitLock,   \* holder of run-submit:<run>
  sent,         \* the requests ever sent to GLPI
  inFlight,     \* those GLPI may still apply
  written,      \* those that are followups of the ticket
  audited,      \* glpi.followup.created is in audit_events
  pc,           \* [Executor -> Step]
  mine,         \* [Executor -> Post \cup {NoPost}]: the request an attempt sent
  faults

rows == <<run, intent, ledger, checkpoint, audited>>
glpi == <<sent, inFlight, written>>
vars == <<mode, rows, actionLock, submitLock, glpi, pc, mine, faults>>

InGateway == {"gateway", "submitting", "posting", "awaiting", "verifying"}
UnderLock == InGateway \cup {"holding", "completing", "marking", "auditing", "aborting"}
Step == UnderLock \cup {"idle", "checking", "claiming", "queued", "executed", "finalizing", "failing"}

TypeOK ==
  /\ mode \in Modes
  /\ run \in {"running", "succeeded", "failed", "cancelled"}
  /\ intent \in {"approved", "executing", "succeeded", "failed"}
  /\ ledger \in {"absent", "claimed", "completed"}
  /\ checkpoint \in {"execute", "finalize"}
  /\ actionLock \in Executor \cup {Nobody} /\ submitLock \in Executor \cup {Nobody}
  /\ sent \subseteq Post /\ inFlight \subseteq sent /\ written \subseteq sent \ inFlight
  /\ audited \in BOOLEAN
  /\ pc \in [Executor -> Step]
  /\ mine \in [Executor -> Post \cup {NoPost}]
  /\ faults \in 0..MaxFaults

Init ==
  /\ mode \in Modes
  /\ run = "running" /\ intent = "approved" /\ ledger = "absent" /\ checkpoint = "execute"
  /\ actionLock = Nobody /\ submitLock = Nobody
  /\ sent = {} /\ inFlight = {} /\ written = {}
  /\ audited = FALSE
  /\ pc = [e \in Executor |-> "idle"]
  /\ mine = [e \in Executor |-> NoPost]
  /\ faults = 0

-----------------------------------------------------------------------------
Go(e, from, to) == pc[e] = from /\ pc' = [pc EXCEPT ![e] = to]
Fault == faults < MaxFaults /\ faults' = faults + 1
Free(lock, e) == lock' = IF lock = e THEN Nobody ELSE lock

EndRunBlind(new) == run' = new    \* mutant of EndRun: the last writer wins

(* update_run: a cancelled run keeps its status. *)
EndRun(new) == run' = IF run = "cancelled" THEN run ELSE new

(* Whoever resumes the run enters the graph at its checkpoint. *)
Begin(e) ==
  /\ run = "running"
  /\ mode = "worker" => \A o \in Executor : pc[o] = "idle"
  /\ Go(e, "idle", IF checkpoint = "execute" THEN "checking" ELSE "finalizing")
  /\ UNCHANGED <<mode, rows, actionLock, submitLock, glpi, mine, faults>>

CheckUnlessFinished(e) ==    \* mutant of Check: an interrupted attempt may be resumed
  /\ Go(e, "checking", IF intent \in {"approved", "executing"} THEN "claiming" ELSE "failing")
  /\ UNCHANGED <<mode, rows, actionLock, submitLock, glpi, mine, faults>>

(* The persisted intent must be approved: read before any lock is held. *)
Check(e) ==
  /\ Go(e, "checking", IF intent = "approved" THEN "claiming" ELSE "failing")
  /\ UNCHANGED <<mode, rows, actionLock, submitLock, glpi, mine, faults>>

(* claim_idempotency: INSERT ... ON CONFLICT DO NOTHING. *)
ClaimKey(e) ==
  /\ Go(e, "claiming", "queued")
  /\ ledger' = IF ledger = "absent" THEN "claimed" ELSE ledger
  /\ UNCHANGED <<mode, run, intent, checkpoint, audited, actionLock, submitLock, glpi, mine, faults>>

TakeActionLock(e) ==
  /\ Go(e, "queued", "holding")
  /\ actionLock = Nobody /\ actionLock' = e
  /\ UNCHANGED <<mode, rows, submitLock, glpi, mine, faults>>

(* Under the lock: a completed record is the answer, otherwise the attempt is marked. *)
Reread(e) ==
  \/ /\ ledger = "completed"
     /\ Go(e, "holding", "executed")
     /\ Free(actionLock, e)
     /\ UNCHANGED <<mode, rows, submitLock, glpi, mine, faults>>
  \/ /\ ledger # "completed"
     /\ Go(e, "holding", "gateway")
     /\ intent' = "executing"
     /\ UNCHANGED <<mode, run, ledger, checkpoint, audited, actionLock, submitLock, glpi, mine, faults>>

SubmitUnchecked(e) ==    \* mutant of Submit: the lock is taken, the run not read under it
  /\ submitLock = Nobody
  /\ Go(e, "gateway", "submitting")
  /\ submitLock' = e
  /\ UNCHANGED <<mode, rows, actionLock, glpi, mine, faults>>

(* run_submission: a cancellation holds the same lock; a run that ended submits nothing. *)
Submit(e) ==
  /\ submitLock = Nobody
  /\ IF run = "running"
     THEN Go(e, "gateway", "submitting") /\ submitLock' = e
     ELSE Go(e, "gateway", "aborting") /\ UNCHANGED submitLock
  /\ UNCHANGED <<mode, rows, actionLock, glpi, mine, faults>>

(* _append_approved_followup: the approval must stand, and a followup that carries
   the marker is this write already. *)
Reconcile(e) ==
  /\ IF intent \notin {"approved", "executing"}
     THEN Go(e, "submitting", "aborting") /\ Free(submitLock, e)
     ELSE IF written # {}
     THEN Go(e, "submitting", "verifying") /\ Free(submitLock, e)
     ELSE Go(e, "submitting", "posting") /\ UNCHANGED submitLock
  /\ UNCHANGED <<mode, rows, actionLock, glpi, mine, faults>>

Send(e) ==
  /\ Go(e, "posting", "awaiting")
  /\ \E p \in Post \ sent :
       /\ sent' = sent \cup {p} /\ inFlight' = inFlight \cup {p}
       /\ mine' = [mine EXCEPT ![e] = p]
  /\ UNCHANGED <<mode, rows, actionLock, submitLock, written, faults>>

(* GLPI answers with the followup it stored. *)
Answer(e) ==
  /\ mine[e] \in written
  /\ Go(e, "awaiting", "verifying")
  /\ Free(submitLock, e)
  /\ UNCHANGED <<mode, rows, actionLock, glpi, mine, faults>>

(* The read-back finds the followup. *)
Verify(e) ==
  /\ Go(e, "verifying", "completing")
  /\ UNCHANGED <<mode, rows, actionLock, submitLock, glpi, mine, faults>>

CompleteKey(e) ==
  /\ Go(e, "completing", "marking")
  /\ ledger' = "completed"
  /\ UNCHANGED <<mode, run, intent, checkpoint, audited, actionLock, submitLock, glpi, mine, faults>>

MarkSucceeded(e) ==
  /\ Go(e, "marking", "auditing")
  /\ intent' = "succeeded"
  /\ UNCHANGED <<mode, run, ledger, checkpoint, audited, actionLock, submitLock, glpi, mine, faults>>

AuditForgotten(e) ==    \* mutant of Audit: only the lock is given back
  /\ Go(e, "auditing", "executed")
  /\ Free(actionLock, e)
  /\ UNCHANGED <<mode, rows, submitLock, glpi, mine, faults>>

(* A reconciled duplicate is not audited as a creation. *)
Audit(e) ==
  /\ Go(e, "auditing", "executed")
  /\ audited' = (audited \/ mine[e] # NoPost)
  /\ Free(actionLock, e)
  /\ UNCHANGED <<mode, run, intent, ledger, checkpoint, submitLock, glpi, mine, faults>>

(* The node returns; its checkpoint is written behind it. *)
NodeDone(e) ==
  /\ Go(e, "executed", "finalizing")
  /\ UNCHANGED <<mode, rows, actionLock, submitLock, glpi, mine, faults>>

Checkpoint(e) ==
  /\ pc[e] = "finalizing" /\ checkpoint = "execute"
  /\ checkpoint' = "finalize"
  /\ UNCHANGED <<mode, run, intent, ledger, audited, actionLock, submitLock, glpi, pc, mine, faults>>

Leave(e) == mine' = [mine EXCEPT ![e] = NoPost]

Finalize(e) ==
  /\ Go(e, "finalizing", "idle")
  /\ EndRun("succeeded")
  /\ Leave(e)
  /\ UNCHANGED <<mode, intent, ledger, checkpoint, audited, actionLock, submitLock, glpi, faults>>

-----------------------------------------------------------------------------
(* Failures. *)

Fails(e) ==
  /\ pc' = [pc EXCEPT ![e] = "aborting"]
  /\ Free(submitLock, e)
  /\ UNCHANGED <<mode, rows, actionLock, glpi, mine>>

(* The policy, the provider or the read-back refuses, or the gateway's timeout gives
   up a request GLPI may still hold. *)
ToolFails(e) == pc[e] \in InGateway /\ Fault /\ Fails(e)

NeverGivesUp(e) == FALSE    \* mutant of GiveUp: no timeout around the attempt

(* A request that was lost is always given up. *)
GiveUp(e) ==
  /\ pc[e] = "awaiting" /\ mine[e] \notin inFlight \cup written
  /\ Fails(e)
  /\ UNCHANGED faults

Abort(e) ==
  /\ Go(e, "aborting", "failing")
  /\ intent' = "failed"
  /\ Free(actionLock, e)
  /\ UNCHANGED <<mode, run, ledger, checkpoint, audited, submitLock, glpi, mine, faults>>

(* One of the database calls around the gateway raises: the wait for the lock, the record
   of a failed attempt and the end of the run included. *)
Raises(e) ==
  /\ pc[e] \in {"checking", "claiming", "queued", "holding", "aborting", "completing",
               "marking", "auditing", "executed", "finalizing"}
  /\ Fault
  /\ pc' = [pc EXCEPT ![e] = "failing"]
  /\ Free(actionLock, e)
  /\ UNCHANGED <<mode, rows, submitLock, glpi, mine>>

RecordFailure(e) ==
  /\ Go(e, "failing", "idle")
  /\ EndRun("failed")
  /\ Leave(e)
  /\ UNCHANGED <<mode, intent, ledger, checkpoint, audited, actionLock, submitLock, glpi, faults>>

(* The process dies, or its task is cancelled: the locks go with the connection. *)
Crash(e) ==
  /\ pc[e] # "idle"
  /\ Fault
  /\ pc' = [pc EXCEPT ![e] = "idle"]
  /\ Free(actionLock, e) /\ Free(submitLock, e)
  /\ Leave(e)
  /\ UNCHANGED <<mode, rows, glpi>>

-----------------------------------------------------------------------------
(* GLPI and the cancel endpoint. *)

Apply(p) ==
  /\ p \in inFlight
  /\ inFlight' = inFlight \ {p} /\ written' = written \cup {p}
  /\ UNCHANGED <<mode, rows, actionLock, submitLock, sent, pc, mine, faults>>

Lose(p) ==
  /\ p \in inFlight
  /\ Fault
  /\ inFlight' = inFlight \ {p}
  /\ UNCHANGED <<mode, rows, actionLock, submitLock, sent, written, pc, mine>>

Cancel ==
  /\ submitLock = Nobody
  /\ run \notin {"succeeded", "failed", "cancelled"}
  /\ run' = "cancelled"
  /\ UNCHANGED <<mode, intent, ledger, checkpoint, audited, actionLock, submitLock, glpi, pc, mine, faults>>

-----------------------------------------------------------------------------
Execute(e) ==
  \/ Check(e) \/ ClaimKey(e) \/ TakeActionLock(e) \/ Reread(e) \/ Submit(e) \/ Reconcile(e)
  \/ Send(e) \/ Answer(e) \/ Verify(e) \/ CompleteKey(e) \/ MarkSucceeded(e) \/ Audit(e)
  \/ NodeDone(e) \/ Finalize(e) \/ GiveUp(e) \/ Abort(e) \/ RecordFailure(e)

Next ==
  \/ \E e \in Executor :
       Begin(e) \/ Execute(e) \/ Checkpoint(e) \/ ToolFails(e) \/ Raises(e) \/ Crash(e)
  \/ \E p \in Post : Apply(p) \/ Lose(p)
  \/ Cancel

Spec == Init /\ [][Next]_vars

(* A live executor goes on; somebody takes a running run up again; GLPI gets to its queue. *)
Fairness ==
  /\ \A e \in Executor : WF_vars(Execute(e)) /\ WF_vars(Begin(e))
  /\ \A p \in Post : WF_vars(Apply(p))

FairSpec == Spec /\ Fairness
=============================================================================
