--------------------------- MODULE RunWorkerProps ---------------------------
(* What the run queue, its workers and the decision endpoints promise. *)
EXTENDS RunWorker

(***************************************************************************)
(* Safety                                                                  *)
(***************************************************************************)

(* execution_guard is a mutual exclusion with tenant_slot capacity, whatever leases
   lapse, processes die or humans decide: the sessions inside it behave like those
   of RunExecution. *)
Executing == [s \in Session |-> IF pc[s] \in Guarded THEN task[s] ELSE NoRun]
Execution == INSTANCE RunExecution WITH executing <- Executing
ImplementsRunExecution == Execution!Spec

(* No two sessions are inside the guard of one run: a worker whose lease lapsed and
   the worker that claimed the run after it never invoke the graph together. *)
OneExecutor ==
  \A s, u \in Session :
    pc[s] \in Guarded /\ pc[u] \in Guarded /\ task[s] = task[u] => s = u

(* Who holds what: a lock is held by a session that is still on the run, so that the
   guard's finally will give it back; from the first pg_try_advisory_lock that succeeds
   to that finally a session keeps the run lock, and while it is inside the guard exactly
   one slot of the run's tenant. *)
RunLockHolders ==
  /\ \A r \in Run : runLock[r] # Nobody =>
       task[runLock[r]] = r /\ pc[runLock[r]] # "entering"
  /\ \A s \in Session : pc[s] \in Guarded \cup {"probing"} => runLock[task[s]] = s

SlotHolders ==
  /\ \A t \in Tenant, k \in Slot : slotLock[t][k] # Nobody =>
       LET s == slotLock[t][k]
       IN /\ pc[s] \in Guarded \cup {"leaving"}
          /\ TenantOf[task[s]] = t /\ runLock[task[s]] = s
          /\ \A j \in Slot : slotLock[t][j] = s => j = k
  /\ \A s \in Session : pc[s] \in Guarded => \E k \in Slot : slotLock[TenantOf[task[s]]][k] = s

LocksAreHeld == RunLockHolders /\ SlotHolders

(* A session moves in a step when its place or its node changes. *)
Moves(s) == pc'[s] # pc[s] \/ at'[s] # at[s]

RowKept(r) == UNCHANGED <<status[r], decision[r], stage[r]>>
CancelledFromOutside(r) ==
  /\ status'[r] = "cancelled" /\ UNCHANGED <<decision[r], stage[r]>>
  /\ \A u \in Session : ~Moves(u)
WrittenByHolder(r) ==
  LET s == runLock[r]
  IN /\ s \in Session /\ task[s] = r /\ runLock'[r] = s
     /\ \A u \in Session : Moves(u) => u = s
     /\ status'[r] # status[r] \/ decision'[r] # decision[r] => Moves(s)
     /\ stage'[r] # stage[r] => pc[s] = "graph" /\ stage'[r] = at[s]

(* A run's row and checkpoint change only by the hand of the session that holds its
   execution lock, before and after: in a step that writes status or decision the holder
   moves and nobody else does, and a checkpoint that changes becomes the node the holder
   is at, inside the graph.  A worker that goes on although its lease lapsed and another
   claimed the run is not that session.  The cancel endpoint alone writes past the lock. *)
WritersHoldTheRun ==
  [][\A r \in Run : RowKept(r) \/ CancelledFromOutside(r) \/ WrittenByHolder(r)]_vars

(* RunQueue.renew: "A lost lease cannot be revived by the former owner": an expiry that
   passed is moved forward only by a new claim, or by an owner that gives the run up. *)
LostLeaseStaysLost ==
  [][\A r \in Run : ~leaseLive[r] /\ leaseLive'[r] =>
       \/ leaseOwner'[r] = Nobody
       \/ \E w \in Worker : leaseOwner'[r] = w /\ pc[w] = "idle" /\ task'[w] = r]_vars

(* A cancelled run stays cancelled: no node, failure record, decision or review
   resolution already in flight overwrites it. *)
CancelledIsFinal ==
  [][\A r \in Run : status[r] = "cancelled" => status'[r] = "cancelled"]_vars

(* A decision once recorded is never replaced, although a crash can bring a decided
   run back to waiting for approval and a second human may answer there. *)
DecisionIsFinal ==
  [][\A r \in Run : decision[r] # "none" => decision'[r] = decision[r]]_vars

(* The write step is reached by approved runs only, over any number of crashes,
   re-derivations and replays of the decision by another session; so is the answer that
   leads there. *)
OnlyApprovedExecutes ==
  /\ \A r \in Run : stage[r] = "execute" => decision[r] = "approved"
  /\ \A s \in Session :
       pc[s] = "graph" /\ (at[s] = "execute" \/ answer[s] = "approved")
         => decision[task[s]] = "approved"

(* Where the graph may get to from a node: a voided approval goes back to the pipeline,
   nothing else goes back. *)
Onward(node) ==
  CASE node = "route" -> Node
    [] node \in {"pipeline", "action", "approval"} -> Node \ {"route"}
    [] node = "execute" -> {"execute", "finalize", "end"}
    [] node = "escalate" -> {"escalate", "finalize", "decline", "end"}
    [] OTHER -> {node, "end"}

(* A checkpoint never goes back.  Invocations trail their checkpoints, die, are taken over by
   other workers and by decision requests, and a node may be run many times: none of them
   resumes the run before what another had made durable, and a graph that ended stays so. *)
CheckpointsGoForward == [][\A r \in Run : stage'[r] \in Onward(stage[r])]_vars

(* BACKEND_UPGRADE_RESULTS: "a task in a terminal state is not claimed again".  A run that
   has ended never becomes claimable.  The code does not keep this: a review resolution
   that read waiting_review before it had the guard reopens the run. *)
EndedIsNotClaimable ==
  [][\A r \in Run : status[r] \in Terminal => ~(Runnable(r))']_vars

(***************************************************************************)
(* Liveness, under FairSpec                                                *)
(***************************************************************************)

(* Requests that keep coming may keep a run's guard busy for ever. *)
RequestsCease == <>[](\A a \in Api : pc[a] = "idle")

(* A run that is pending or running is not left so: a worker that dies, loses its lease
   or is refused the guard is followed by another, until the run ends or waits. *)
EveryRunSettles ==
  RequestsCease => \A r \in Run : (status[r] \in Active) ~> (status[r] \notin Active)

(* A recorded decision takes effect even if the request that recorded it dies: the run
   does not go on waiting for an approval it has. *)
DecisionTakesEffect ==
  RequestsCease => \A r \in Run :
    (decision[r] # "none") ~> (status[r] \in Terminal \cup {"waiting_review"})
=============================================================================
