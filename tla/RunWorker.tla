----------------------------- MODULE RunWorker ------------------------------
(***************************************************************************)
(* The run queue and everybody who executes a graph in "worker" mode:      *)
(*   - persistence/run_queue.py: row leases, the session advisory locks of *)
(*     execution_guard (one per run, SlotLimit per tenant);                *)
(*   - orchestration/run_worker.py: execute_claimed, its heartbeat and its *)
(*     exits; a Worker is one execute_claimed task with the owner string   *)
(*     it claims under;                                                    *)
(*   - api.py: the approval and review decisions, which take the same      *)
(*     guard and run the graph inside the HTTP request; an Api is one      *)
(*     such request at a time.                                             *)
(*                                                                         *)
(* A lease is its owner and whether worker_lease_expires_at lies ahead of  *)
(* the database clock; Lapse is that clock passing it.  A deferred run     *)
(* (released with a delay) has no owner and an expiry that lies ahead.     *)
(* The graph is the chain of nodes that touch the run row; what happens    *)
(* between two of them is the node "pipeline".  `at` is the node an        *)
(* invocation is about to run, `stage` the one the persisted checkpoint    *)
(* would resume at: LangGraph writes checkpoints behind the execution      *)
(* (durability is left at its default), so stage may trail `at` until the  *)
(* invocation returns.  A resume value reaches the node the checkpoint is  *)
(* interrupted in and is dropped by any other.                             *)
(***************************************************************************)
EXTENDS Naturals, FiniteSets

CONSTANTS
  Run,          \* agent_runs rows
  Worker,       \* execute_claimed tasks (each claims under an owner string of its own)
  Api,          \* HTTP decision requests
  Tenant,
  TenantOf,     \* [Run -> Tenant]
  SlotLimit,    \* SERVICEMIND_RUN_WORKER_PER_TENANT_LIMIT
  MaxFaults,    \* bound: crashes, pauses past a lease and identity outages in one behaviour
  Nobody,       \* a free lock, a row without worker_lease_owner
  NoRun

Session == Worker \cup Api
Slot == 1..SlotLimit

ASSUME ConstantsAssumption ==
  /\ TenantOf \in [Run -> Tenant]
  /\ SlotLimit \in Nat \ {0}
  /\ MaxFaults \in Nat
  /\ Worker \cap Api = {}
  /\ Nobody \notin Session
  /\ NoRun \notin Run

VARIABLES
  status,       \* [Run -> Status]: agent_runs.status
  decision,     \* [Run -> Decision \cup {"none"}]: the run's Approval row
  stage,        \* [Run -> Node]: where the checkpoint resumes
  leaseOwner,   \* [Run -> Worker \cup {Nobody}]: worker_lease_owner
  leaseLive,    \* [Run -> BOOLEAN]: worker_lease_expires_at > now()
  runLock,      \* [Run -> Session \cup {Nobody}]: holder of run-execute:<run>
  slotLock,     \* [Tenant -> [Slot -> Session \cup {Nobody}]]: holders of tenant-slot:<t>:<k>
  pc,           \* [Session -> Place]
  task,         \* [Session -> Run \cup {NoRun}]
  probe,        \* [Session -> Slot]: the slot execution_guard tries next
  at,           \* [Session -> Node]: the node the invocation runs next
  answer,       \* [Session -> Answer]: the decision carried, then the pending resume value
                \* ("rederiving": the invocation took back a voided action)
  faults

row == <<status, decision, stage>>
lease == <<leaseOwner, leaseLive>>
locks == <<runLock, slotLock>>
local == <<probe, at, answer>>
vars == <<row, lease, locks, pc, task, local, faults>>

Active == {"pending", "running"}
Terminal == {"succeeded", "failed", "cancelled"}
Status == Active \cup Terminal \cup {"waiting_approval", "waiting_review"}
Decision == {"approved", "rejected"}
Resolution == {"continue", "stop"}
Answer == Decision \cup Resolution \cup {"voided", "rederiving", "none"}
Node == {"route", "pipeline", "action", "approval", "execute", "escalate",
         "finalize", "decline", "end"}
Place == {"idle", "entering", "probing", "refused", "locked", "confirmed", "entry", "graph",
          "returned", "failing", "settled", "deferred", "leaving", "unlocking"}

(* The places in which execution_guard has yielded True and not yet been left. *)
Guarded == {"locked", "confirmed", "entry", "graph", "returned", "failing", "settled", "deferred"}

RowType ==
  /\ status \in [Run -> Status]
  /\ decision \in [Run -> Decision \cup {"none"}]
  /\ stage \in [Run -> Node]

LeaseType ==
  /\ leaseOwner \in [Run -> Worker \cup {Nobody}]
  /\ leaseLive \in [Run -> BOOLEAN]

LockType ==
  /\ runLock \in [Run -> Session \cup {Nobody}]
  /\ slotLock \in [Tenant -> [Slot -> Session \cup {Nobody}]]

SessionType ==
  /\ pc \in [Session -> Place]
  /\ task \in [Session -> Run \cup {NoRun}]
  /\ \A s \in Session : (task[s] = NoRun) <=> (pc[s] = "idle")

LocalType ==
  /\ probe \in [Session -> Slot]
  /\ at \in [Session -> Node]
  /\ answer \in [Session -> Answer]

TypeOK == RowType /\ LeaseType /\ LockType /\ SessionType /\ LocalType /\ faults \in 0..MaxFaults

Init ==
  /\ status = [r \in Run |-> "pending"]
  /\ decision = [r \in Run |-> "none"]
  /\ stage = [r \in Run |-> "route"]
  /\ leaseOwner = [r \in Run |-> Nobody]
  /\ leaseLive = [r \in Run |-> FALSE]
  /\ runLock = [r \in Run |-> Nobody]
  /\ slotLock = [t \in Tenant |-> [k \in Slot |-> Nobody]]
  /\ pc = [s \in Session |-> "idle"]
  /\ task = [s \in Session |-> NoRun]
  /\ probe = [s \in Session |-> 1]
  /\ at = [s \in Session |-> "route"]
  /\ answer = [s \in Session |-> "none"]
  /\ faults = 0

-----------------------------------------------------------------------------
(* Helpers.  A step of a session names the place it goes to. *)

Goto(s, place) == pc' = [pc EXCEPT ![s] = place]
Fault == faults < MaxFaults /\ faults' = faults + 1

RunnableActiveOnly(r) == status[r] \in Active    \* mutant: decided waits are forgotten

(* RunQueue._runnable: an undecided approval wait is nobody's work. *)
Runnable(r) ==
  \/ status[r] \in Active
  \/ status[r] = "waiting_approval" /\ decision[r] # "none"

LiveClaims(t) ==
  {r \in Run : TenantOf[r] = t /\ Runnable(r) /\ leaseOwner[r] # Nobody /\ leaseLive[r]}

OwnedBy(w, r) == leaseOwner[r] = w    \* mutant of Renewable: the expiry is not asked

(* The condition of RunQueue.renew's UPDATE. *)
Renewable(w, r) == leaseOwner[r] = w /\ leaseLive[r]

(* RunQueue.release; `deferred` is a delay, which leaves an expiry without an owner. *)
Release(w, r, deferred) ==
  IF leaseOwner[r] = w
  THEN /\ leaseOwner' = [leaseOwner EXCEPT ![r] = Nobody]
       /\ leaseLive' = [leaseLive EXCEPT ![r] = deferred]
  ELSE UNCHANGED lease

(* Where a session goes when its invocation is over, by RunCancelled or by a return. *)
Stopped(s) == IF s \in Worker THEN "settled" ELSE "leaving"
Returned(s) == IF s \in Worker THEN "returned" ELSE "leaving"

RefusesActive(r, new) == status[r] = "cancelled" /\ new \in Active    \* mutant of Refuses

(* ServiceMindRepository.update_run: any status replaces any other, except that
   a cancelled row refuses with RunCancelled. *)
Refuses(r, new) == status[r] = "cancelled" /\ new # "cancelled"
UpdateRun(r, new) == status' = [status EXCEPT ![r] = new]

-----------------------------------------------------------------------------
(* The queue and the guard. *)

(* Mutant of Claim: a lease is only free once its owner has released it. *)
ClaimReleased(w, r) ==
  /\ pc[w] = "idle"
  /\ Runnable(r) /\ leaseOwner[r] = Nobody
  /\ Cardinality(LiveClaims(TenantOf[r])) < SlotLimit
  /\ leaseOwner' = [leaseOwner EXCEPT ![r] = w]
  /\ leaseLive' = [leaseLive EXCEPT ![r] = TRUE]
  /\ task' = [task EXCEPT ![w] = r]
  /\ Goto(w, "entering")
  /\ UNCHANGED <<row, locks, local, faults>>

(* RunQueue.claim: one transaction, serialised per tenant by an advisory lock.
   SKIP LOCKED passes over an older row another transaction holds, so any
   claimable run may be the one chosen. *)
Claim(w, r) ==
  /\ pc[w] = "idle"
  /\ Runnable(r) /\ ~leaseLive[r]
  /\ Cardinality(LiveClaims(TenantOf[r])) < SlotLimit
  /\ leaseOwner' = [leaseOwner EXCEPT ![r] = w]
  /\ leaseLive' = [leaseLive EXCEPT ![r] = TRUE]
  /\ task' = [task EXCEPT ![w] = r]
  /\ Goto(w, "entering")
  /\ UNCHANGED <<row, locks, local, faults>>

(* approve_run and resolve_review_escalation up to the guard: the status is read
   here, outside any lock. *)
Request(a, r, d) ==
  /\ pc[a] = "idle"
  /\ status[r] = IF d \in Decision THEN "waiting_approval" ELSE "waiting_review"
  /\ task' = [task EXCEPT ![a] = r]
  /\ answer' = [answer EXCEPT ![a] = d]
  /\ Goto(a, "entering")
  /\ UNCHANGED <<row, lease, locks, probe, at, faults>>

(* Mutant of TryRunLock: the claim is trusted, the lock's answer is not looked at. *)
TryRunLockTrusting(s) ==
  /\ pc[s] = "entering"
  /\ runLock' = [runLock EXCEPT ![task[s]] = IF @ = Nobody THEN s ELSE @]
  /\ Goto(s, "probing")
  /\ UNCHANGED <<row, lease, slotLock, task, local, faults>>

TryRunLock(s) ==
  /\ pc[s] = "entering"
  /\ IF runLock[task[s]] = Nobody
     THEN /\ runLock' = [runLock EXCEPT ![task[s]] = s]
          /\ Goto(s, "probing")
     ELSE /\ Goto(s, "refused")
          /\ UNCHANGED runLock
  /\ UNCHANGED <<row, lease, slotLock, task, local, faults>>

(* Mutant of TrySlot: the guard yields `obtained` whether or not a slot was free. *)
TrySlotOptional(s) ==
  LET t == TenantOf[task[s]]
  IN /\ pc[s] = "probing"
     /\ slotLock' = [slotLock EXCEPT ![t][probe[s]] = IF @ = Nobody THEN s ELSE @]
     /\ Goto(s, "locked")
     /\ UNCHANGED <<row, lease, runLock, task, local, faults>>

(* One pg_try_advisory_lock of the slot loop. *)
TrySlot(s) ==
  LET t == TenantOf[task[s]]
      k == probe[s]
  IN /\ pc[s] = "probing"
     /\ IF slotLock[t][k] = Nobody
        THEN /\ slotLock' = [slotLock EXCEPT ![t][k] = s]
             /\ Goto(s, "locked")
             /\ UNCHANGED probe
        ELSE /\ IF k < SlotLimit
                THEN probe' = [probe EXCEPT ![s] = k + 1] /\ UNCHANGED pc
                ELSE Goto(s, "refused") /\ UNCHANGED probe
             /\ UNCHANGED slotLock
     /\ UNCHANGED <<row, lease, runLock, task, at, answer, faults>>

(* The guard yielded False: the worker defers the run, the API answers 503. *)
Refused(s) ==
  /\ pc[s] = "refused"
  /\ IF s \in Worker THEN Release(s, task[s], TRUE) ELSE UNCHANGED lease
  /\ Goto(s, "leaving")
  /\ UNCHANGED <<row, locks, task, local, faults>>

(* Mutant of UnlockSlot: the guard's finally gives back the run lock only. *)
UnlockSlotForgotten(s) ==
  /\ pc[s] = "leaving"
  /\ Goto(s, "unlocking")
  /\ UNCHANGED <<row, lease, locks, task, local, faults>>

(* The guard's finally: the slot first, then the run lock. *)
UnlockSlot(s) ==
  /\ pc[s] = "leaving"
  /\ slotLock' = [t \in Tenant |->
       [k \in Slot |-> IF slotLock[t][k] = s THEN Nobody ELSE slotLock[t][k]]]
  /\ Goto(s, "unlocking")
  /\ UNCHANGED <<row, lease, runLock, task, local, faults>>

(* Mutant of Forget: the task's run outlives the task. *)
ForgetPlace(s) ==
  /\ Goto(s, "idle")
  /\ UNCHANGED <<task, local>>

Forget(s) ==
  /\ Goto(s, "idle")
  /\ task' = [task EXCEPT ![s] = NoRun]
  /\ probe' = [probe EXCEPT ![s] = 1]
  /\ at' = [at EXCEPT ![s] = "route"]
  /\ answer' = [answer EXCEPT ![s] = "none"]

DropRunLock(s) ==
  runLock' = [r \in Run |-> IF runLock[r] = s THEN Nobody ELSE runLock[r]]

UnlockRun(s) ==
  /\ pc[s] = "unlocking"
  /\ DropRunLock(s)
  /\ Forget(s)
  /\ UNCHANGED <<row, lease, slotLock, faults>>

-----------------------------------------------------------------------------
(* execute_claimed between the guard and the graph. *)

(* The renewal that proves the claim survived the wait for the guard. *)
Confirm(w) ==
  /\ pc[w] = "locked"
  /\ IF Renewable(w, task[w])
     THEN leaseLive' = [leaseLive EXCEPT ![task[w]] = TRUE] /\ Goto(w, "confirmed")
     ELSE UNCHANGED leaseLive /\ Goto(w, "leaving")
  /\ UNCHANGED <<row, leaseOwner, locks, task, local, faults>>

Recheck(w) ==
  /\ pc[w] = "confirmed"
  /\ IF Runnable(task[w])
     THEN Goto(w, "entry") /\ UNCHANGED lease
     ELSE Goto(w, "leaving") /\ Release(w, task[w], FALSE)
  /\ UNCHANGED <<row, locks, task, local, faults>>

(* The graph is invoked at the checkpoint; the resume value d is for the
   interrupted node only, whichever interrupt that answers. *)
Invoke(s, d) ==
  LET node == stage[task[s]]
  IN /\ Goto(s, "graph")
     /\ at' = [at EXCEPT ![s] = node]
     /\ answer' = [answer EXCEPT ![s] =
          CASE node = "approval" /\ d \in Decision \cup {"voided"} -> d
            [] node = "escalate" /\ d \in Decision \cup Resolution -> d
            [] node # "approval" /\ d = "voided" -> "rederiving"
            [] OTHER -> "none"]

(* _execute_graph: a recorded decision is replayed, otherwise the checkpoint continues. *)
EnterGraph(w) ==
  /\ pc[w] = "entry"
  /\ Invoke(w, decision[task[w]])
  /\ UNCHANGED <<row, lease, locks, task, probe, faults>>

(* resolve_resume_scope or revalidate raises ResumeBlocked; a recorded refusal
   does not ask. *)
Blocked(w) ==
  /\ pc[w] = "entry"
  /\ decision[task[w]] # "rejected"
  /\ Fault
  /\ Goto(w, "deferred")
  /\ UNCHANGED <<row, lease, locks, task, local>>

(* Where a checkpoint carries an action_intent. *)
WithAction == {"approval", "execute", "decline", "finalize", "end"}

(* An approved action whose requester lost access in the meantime fails closed. *)
ApprovalVoid(w) ==
  /\ pc[w] = "entry"
  /\ decision[task[w]] = "approved"
  /\ stage[task[w]] \in WithAction
  /\ Goto(w, "failing")
  /\ UNCHANGED <<row, lease, locks, task, local, faults>>

-----------------------------------------------------------------------------
(* _complete_approval and _complete_review_resolution, under the guard. *)

ApiBlocked(a) ==
  /\ pc[a] = "locked"
  /\ answer[a] # "rejected"
  /\ Fault
  /\ Goto(a, "leaving")
  /\ UNCHANGED <<row, lease, locks, task, local>>

(* The requester's access narrowed: nothing is recorded, the checkpoint loses its action
   and the graph re-derives it, or goes on without it where the run has moved on. *)
ApiVoid(a) ==
  /\ pc[a] = "locked"
  /\ answer[a] = "approved"
  /\ stage[task[a]] \in WithAction
  /\ Invoke(a, "voided")
  /\ UNCHANGED <<row, lease, locks, task, probe, faults>>

(* Mutant of RecordApproval: the status the endpoint read before the guard is trusted. *)
RecordApprovalBlind(a) ==
  LET r == task[a]
  IN /\ pc[a] = "locked"
     /\ answer[a] \in Decision
     /\ decision' = [decision EXCEPT ![r] = answer[a]]
     /\ UpdateRun(r, "running")
     /\ Invoke(a, answer[a])
     /\ UNCHANGED <<stage, lease, locks, task, probe, faults>>

(* record_approval re-reads the row: a second decision and a run that moved on
   are turned away with nothing written. *)
RecordApproval(a) ==
  LET r == task[a]
  IN /\ pc[a] = "locked"
     /\ answer[a] \in Decision
     /\ IF decision[r] = "none" /\ status[r] = "waiting_approval"
        THEN /\ decision' = [decision EXCEPT ![r] = answer[a]]
             /\ UpdateRun(r, "running")
             /\ Invoke(a, answer[a])
        ELSE Goto(a, "leaving") /\ UNCHANGED <<status, decision, at, answer>>
     /\ UNCHANGED <<stage, lease, locks, task, probe, faults>>

(* A review resolution trusts the status Request read. *)
ApplyReview(a) ==
  LET r == task[a]
  IN /\ pc[a] = "locked"
     /\ answer[a] \in Resolution
     /\ IF Refuses(r, "running")
        THEN Goto(a, "leaving") /\ UNCHANGED <<status, at, answer>>
        ELSE UpdateRun(r, "running") /\ Invoke(a, answer[a])
     /\ UNCHANGED <<decision, stage, lease, locks, task, probe, faults>>

-----------------------------------------------------------------------------
(* The nodes of the graph.  A node writes the row, then the invocation moves on;
   a refused write ends the invocation. *)

Visit(s, node, new, next) ==
  /\ pc[s] = "graph" /\ at[s] = node
  /\ IF Refuses(task[s], new)
     THEN Goto(s, Stopped(s)) /\ UNCHANGED <<status, at>>
     ELSE UpdateRun(task[s], new) /\ at' = [at EXCEPT ![s] = next] /\ UNCHANGED pc
  /\ UNCHANGED <<decision, stage, lease, locks, task, probe, answer, faults>>

Move(s, node, next) ==
  /\ pc[s] = "graph" /\ at[s] = node
  /\ at' = [at EXCEPT ![s] = next]
  /\ UNCHANGED <<row, lease, locks, pc, task, probe, answer, faults>>

Route(s) == Visit(s, "route", "running", "pipeline")
Pipeline(s) == \E next \in {"action", "escalate", "finalize"} : Move(s, "pipeline", next)
ProposeAction(s) == Visit(s, "action", "waiting_approval", "approval")

(* A checkpoint whose action was taken back has nothing to execute: the node raises. *)
Execute(s) ==
  \/ answer[s] # "rederiving" /\ Move(s, "execute", "finalize")
  \/ /\ pc[s] = "graph" /\ at[s] = "execute" /\ answer[s] = "rederiving"
     /\ Goto(s, "leaving")
     /\ UNCHANGED <<row, lease, locks, task, local, faults>>

(* finalize_node; a refusal or a "stop" is recorded as a cancellation. *)
Finalize(s) ==
  \/ Visit(s, "decline", "cancelled", "end")
  \/ \E new \in Terminal : Visit(s, "finalize", new, "end")

(* interrupt() with no resume value: the invocation returns, its checkpoint flushed. *)
Pause(s) ==
  /\ stage' = [stage EXCEPT ![task[s]] = at[s]]
  /\ Goto(s, Returned(s))

(* Mutant of AfterApproval: whatever is not a refusal executes. *)
AfterApprovalUnlessRejected(d) == IF d = "rejected" THEN "decline" ELSE "execute"

AfterApproval(d) ==
  CASE d = "approved" -> "execute" [] d = "rejected" -> "decline" [] OTHER -> "pipeline"

Approval(s) ==
  /\ pc[s] = "graph" /\ at[s] = "approval"
  /\ IF answer[s] \in {"none", "rederiving"}
     THEN Pause(s) /\ UNCHANGED <<at, answer>>
     ELSE /\ at' = [at EXCEPT ![s] = AfterApproval(answer[s])]
          /\ answer' = [answer EXCEPT ![s] = IF @ = "voided" THEN "rederiving" ELSE "none"]
          /\ UNCHANGED <<stage, pc>>
  /\ UNCHANGED <<status, decision, lease, locks, task, probe, faults>>

(* escalate_node runs from its top on a resume, so it writes waiting_review again
   before it reads the answer.  Only a "continue" goes on and only a "stop" cancels: a
   replayed approval decision ends the graph as well. *)
Escalate(s) ==
  /\ pc[s] = "graph" /\ at[s] = "escalate"
  /\ IF Refuses(task[s], "waiting_review")
     THEN Goto(s, Stopped(s)) /\ UNCHANGED <<status, stage, at, answer>>
     ELSE /\ UpdateRun(task[s], "waiting_review")
          /\ IF answer[s] \notin Decision \cup Resolution
             THEN Pause(s) /\ UNCHANGED <<at, answer>>
             ELSE /\ at' = [at EXCEPT ![s] =
                       IF answer[s] = "stop" THEN "decline" ELSE "finalize"]
                  /\ answer' = [answer EXCEPT ![s] = "none"]
                  /\ UNCHANGED <<stage, pc>>
  /\ UNCHANGED <<decision, lease, locks, task, probe, faults>>

GraphEnds(s) ==
  /\ pc[s] = "graph" /\ at[s] = "end"
  /\ Pause(s)
  /\ UNCHANGED <<status, decision, lease, locks, task, local, faults>>

Checkpoint(s) ==
  /\ pc[s] = "graph" /\ stage[task[s]] # at[s]
  /\ stage' = [stage EXCEPT ![task[s]] = at[s]]
  /\ UNCHANGED <<status, decision, lease, locks, pc, task, local, faults>>

(* A node raises; after finalize this is the append_event that follows update_run.
   Nothing catches it around the invocation that re-derives a withdrawn action. *)
NodeRaises(s) ==
  /\ pc[s] = "graph"
  /\ Goto(s, IF answer[s] \in {"voided", "rederiving"} THEN "leaving" ELSE "failing")
  /\ UNCHANGED <<row, lease, locks, task, local, faults>>

-----------------------------------------------------------------------------
(* After the graph. *)

Inspect(w) ==
  /\ pc[w] = "returned"
  /\ Goto(w, IF status[task[w]] \in Active THEN "failing" ELSE "settled")
  /\ UNCHANGED <<row, lease, locks, task, local, faults>>

(* `except Exception`: FAILED is written over whatever the row holds, unless cancelled. *)
RecordFailure(s) ==
  /\ pc[s] = "failing"
  /\ IF Refuses(task[s], "failed") THEN UNCHANGED status ELSE UpdateRun(task[s], "failed")
  /\ Goto(s, Stopped(s))
  /\ UNCHANGED <<decision, stage, lease, locks, task, local, faults>>

Settle(w) ==
  /\ pc[w] \in {"settled", "deferred"}
  /\ Release(w, task[w], pc[w] = "deferred")
  /\ Goto(w, "leaving")
  /\ UNCHANGED <<row, locks, task, local, faults>>

(* CancelledError: the graph is abandoned and the lease kept; inside the exception
   handler it only skips the failure record. *)
Abandon(w) ==
  /\ pc[w] \in {"entry", "graph", "returned", "failing"}
  /\ Goto(w, IF pc[w] = "failing" THEN "settled" ELSE "leaving")
  /\ UNCHANGED <<row, lease, locks, task, local>>

(* _heartbeat finds the lease lost and cancels the executing task. *)
HeartbeatLost(w) ==
  /\ Abandon(w)
  /\ ~Renewable(w, task[w])
  /\ UNCHANGED faults

(* The renewal itself fails, or SIGTERM's grace period runs out. *)
Interrupted(w) == Fault /\ Abandon(w)

-----------------------------------------------------------------------------
(* The environment. *)

(* POST /runs/{id}:cancel, one transaction behind the run-submit lock. *)
CancelRun(r) ==
  /\ status[r] \notin {"succeeded", "failed", "cancelled"}
  /\ UpdateRun(r, "cancelled")
  /\ UNCHANGED <<decision, stage, lease, locks, pc, task, local, faults>>

Held(r) == \E w \in Worker : task[w] = r /\ leaseOwner[r] = w

(* The database clock passes the expiry: of a deferral or a dead owner's lease
   sooner or later, of a live owner's when its heartbeat is late. *)
Lapse(r) ==
  /\ leaseLive[r]
  /\ leaseLive' = [leaseLive EXCEPT ![r] = FALSE]
  /\ IF Held(r) THEN Fault ELSE UNCHANGED faults
  /\ UNCHANGED <<row, leaseOwner, locks, pc, task, local>>

(* The process dies: PostgreSQL drops its session locks, nothing else is undone. *)
Crash(s) ==
  /\ pc[s] # "idle"
  /\ Fault
  /\ DropRunLock(s)
  /\ slotLock' = [t \in Tenant |->
       [k \in Slot |-> IF slotLock[t][k] = s THEN Nobody ELSE slotLock[t][k]]]
  /\ Forget(s)
  /\ UNCHANGED <<row, lease>>

-----------------------------------------------------------------------------
Guarding(s) == TryRunLock(s) \/ TrySlot(s) \/ Refused(s) \/ UnlockSlot(s) \/ UnlockRun(s)

Graph(s) ==
  \/ Route(s) \/ Pipeline(s) \/ ProposeAction(s) \/ Approval(s) \/ Execute(s)
  \/ Escalate(s) \/ Finalize(s) \/ GraphEnds(s)

(* What a live worker task, or a live request, does without anybody's help. *)
WorkerStep(w) ==
  \/ Guarding(w) \/ Graph(w) \/ RecordFailure(w)
  \/ Confirm(w) \/ Recheck(w) \/ EnterGraph(w) \/ Inspect(w) \/ Settle(w) \/ HeartbeatLost(w)

ApiStep(a) ==
  Guarding(a) \/ Graph(a) \/ RecordFailure(a) \/ RecordApproval(a) \/ ApplyReview(a)

Next ==
  \/ \E w \in Worker :
       \/ \E r \in Run : Claim(w, r)
       \/ WorkerStep(w) \/ Blocked(w) \/ ApprovalVoid(w) \/ Interrupted(w)
  \/ \E a \in Api :
       \/ \E r \in Run, d \in Decision \cup Resolution : Request(a, r, d)
       \/ ApiStep(a) \/ ApiBlocked(a) \/ ApiVoid(a)
  \/ \E s \in Session : Checkpoint(s) \/ NodeRaises(s) \/ Crash(s)
  \/ \E r \in Run : CancelRun(r) \/ Lapse(r)

Spec == Init /\ [][Next]_vars

(* A live process keeps running, polls the queue for as long as it lives, and
   every unheld expiry is eventually in the past. *)
Fairness ==
  /\ \A w \in Worker : WF_vars(WorkerStep(w)) /\ WF_vars(\E r \in Run : Claim(w, r))
  /\ \A a \in Api : WF_vars(ApiStep(a))
  /\ \A r \in Run : WF_vars(~Held(r) /\ Lapse(r))

FairSpec == Spec /\ Fairness
=============================================================================
