----------------------------- MODULE ActionSlot -----------------------------
(***************************************************************************)
(* The one row of action_intents a run has, in worker mode: who proposes,  *)
(* withdraws, replaces and decides it (persistence/repository.py), from    *)
(* the approval endpoint (api.py), the resume boundary (runtime.py), the   *)
(* action, approval and execute nodes (supervisor_workflow.py) and the     *)
(* worker's replay (run_worker.py).                                        *)
(*                                                                         *)
(* The requester's grants may shrink and be restored while the run waits;  *)
(* a run's recorded scope only shrinks.  One run, one execution guard.     *)
(* What a node derives is a free choice, up to the action hash.  Nodes     *)
(* before the action node are one: "derive".  Cancellation, review waits   *)
(* and the tenant's slots are in RunWorker, the write in ActionExecution.  *)
(***************************************************************************)
EXTENDS Naturals, FiniteSets

CONSTANTS
    Approver,    \* requests to the approval endpoint
    Replayer,    \* the worker
    Hash,        \* action hashes
    NoAction,    \* no row, no intent, no proposal
    Vacant,      \* nobody holds the execution guard
    MaxGrant,    \* grants are ordered, from nothing lost to MaxGrant lost
    MaxMishaps   \* bound on crashes, failures and changes of the grants

ASSUME GrantsAreCounted == MaxGrant \in Nat /\ MaxMishaps \in Nat

RowStatus == {"proposed", "withdrawn", "approved", "rejected", "executed"}

ASSUME NoActionIsNoRecord ==
    NoAction \notin [hash : Hash] \cup [id : Nat, hash : Hash] \cup
                    [id : Nat, hash : Hash, status : RowStatus]
ASSUME ActorsDiffer == Replayer \notin Approver /\ Vacant \notin Approver \cup {Replayer}

VARIABLES
    held,       \* what the requester holds at the identity provider
    scope,      \* what the checkpoint says the requester holds
    node,       \* the node the checkpoint enters next
    proposal,   \* what the checkpoint carries: a handed off hash or an intent
    slot,       \* the action_intents row of the run
    nextId,     \* ids given to rows so far
    decided,    \* the approvals rows, with what the approver was shown
    status,     \* agent_runs.status
    guard,      \* who holds the execution guard
    actor,      \* where each request, and the worker, is
    executed,   \* what was sent to the executor, with its checks passed
    mishaps

slotVars == <<held, scope, node, proposal, slot, nextId, decided, status,
              guard, actor, executed, mishaps>>

Actor == Approver \cup {Replayer}
Absent == [at |-> "away"]
IsAt(a, place) == actor[a].at = place
Move(a, place) == actor' = [actor EXCEPT ![a].at = place]
Mishap == mishaps < MaxMishaps /\ mishaps' = mishaps + 1

(* The invocation returns or raises: the guard is released.                *)
Leave(a) ==
    /\ actor' = [actor EXCEPT ![a] = Absent]
    /\ guard' = IF guard = a THEN Vacant ELSE guard

HasIntent == proposal # NoAction /\ "id" \in DOMAIN proposal
Effective == IF held < scope THEN held ELSE scope

(* What the callers of the graph do when it raises: FAILED, except where   *)
(* the endpoint voids an action.                                           *)
Failing(a) ==
    status' = IF a \in Approver /\ actor[a].decision = "voided" THEN status ELSE "failed"

-----------------------------------------------------------------------------
SlotInit ==
    /\ held = MaxGrant /\ scope = MaxGrant
    /\ node = "derive" /\ proposal = NoAction
    /\ slot = NoAction /\ nextId = 1
    /\ decided = {} /\ executed = {}
    /\ status = "running"
    /\ guard = Vacant
    /\ actor = [a \in Actor |-> Absent]
    /\ mishaps = 0

(* A grant is revoked, or given back.                                      *)
Regrant ==
    /\ Mishap
    /\ held' \in (0..MaxGrant) \ {held}
    /\ UNCHANGED <<scope, node, proposal, slot, nextId, decided, status, guard, actor, executed>>

-----------------------------------------------------------------------------
(* approve_run: row and status are read before the guard is taken.         *)

Look(h, decision) ==
    /\ IsAt(h, "away")
    /\ slot # NoAction /\ status = "waiting"
    /\ actor' = [actor EXCEPT ![h] = [at |-> "guard", id |-> slot.id, hash |-> slot.hash,
                                      decision |-> decision]]
    /\ UNCHANGED <<held, scope, node, proposal, slot, nextId, decided, status, guard,
                   executed, mishaps>>

(* execution_guard; a request that does not get it answers 503.            *)
EnterGuard(h) ==
    /\ IsAt(h, "guard")
    /\ \/ /\ guard = Vacant
          /\ guard' = h
          /\ Move(h, IF actor[h].decision = "approved" THEN "resolve" ELSE "record")
       \/ guard # Vacant /\ Leave(h)
    /\ UNCHANGED <<held, scope, node, proposal, slot, nextId, decided, status,
                   executed, mishaps>>

(* resolve_resume_scope: what to narrow to, and whether the action is void. *)
Resolve(h) ==
    /\ IsAt(h, "resolve")
    /\ actor' = [actor EXCEPT ![h] =
                   [id |-> @.id, hash |-> @.hash, decision |-> @.decision, to |-> Effective,
                    at |-> IF Effective < scope /\ HasIntent THEN "withdraw" ELSE "record"]]
    /\ UNCHANGED <<held, scope, node, proposal, slot, nextId, decided, status, guard,
                   executed, mishaps>>

(* withdraw_action_intent: only a row that was not decided.                *)
Withdraw(h) ==
    /\ IsAt(h, "withdraw")
    /\ slot' = IF slot.status = "proposed" THEN [slot EXCEPT !.status = "withdrawn"] ELSE slot
    /\ Move(h, "void")
    /\ UNCHANGED <<held, scope, node, proposal, nextId, decided, status, guard,
                   executed, mishaps>>

(* The approval node gives a voided action back to the supervisor.         *)
Void(h) ==
    /\ IsAt(h, "void")
    /\ scope' = actor[h].to
    /\ node' = "derive" /\ proposal' = NoAction
    /\ actor' = [actor EXCEPT ![h].at = "graph", ![h].decision = "voided"]
    /\ UNCHANGED <<held, slot, nextId, decided, status, guard, executed, mishaps>>

(* Mutant of Record: the run's present row is decided, not the one named. *)
RecordForRun(h) ==
    /\ IsAt(h, "record")
    /\ status = "waiting" /\ slot # NoAction
    /\ \A d \in decided : d.id # slot.id
    /\ decided' = decided \cup {[id |-> slot.id, shown |-> actor[h].hash,
                                 decision |-> actor[h].decision]}
    /\ slot' = [slot EXCEPT !.status = actor[h].decision]
    /\ status' = "running"
    /\ Move(h, "resume")
    /\ UNCHANGED <<held, scope, node, proposal, nextId, guard, executed, mishaps>>

(* record_approval, with the run locked: the decision, the row it names and *)
(* the run's status in one commit.                                          *)
Record(h) ==
    /\ IsAt(h, "record")
    /\ status = "waiting" /\ slot # NoAction /\ slot.id = actor[h].id
    /\ \A d \in decided : d.id # actor[h].id
    /\ decided' = decided \cup {[id |-> actor[h].id, shown |-> actor[h].hash,
                                 decision |-> actor[h].decision]}
    /\ slot' = [slot EXCEPT !.status = actor[h].decision]
    /\ status' = "running"
    /\ Move(h, "resume")
    /\ UNCHANGED <<held, scope, node, proposal, nextId, guard, executed, mishaps>>

(* Decided already, no longer waiting, or the row was replaced: 200, 409   *)
(* or 500, and nothing is written.                                         *)
RecordNothing(h) ==
    /\ IsAt(h, "record")
    /\ \/ \E d \in decided : d.id = actor[h].id
       \/ status # "waiting"
       \/ slot.id # actor[h].id
    /\ Leave(h)
    /\ UNCHANGED <<held, scope, node, proposal, slot, nextId, decided, status,
                   executed, mishaps>>

-----------------------------------------------------------------------------
(* The worker: _runnable, then _execute_graph under the guard.             *)

Claim ==
    /\ IsAt(Replayer, "away")
    /\ guard = Vacant
    /\ status = "running" \/ (status = "waiting" /\ decided # {})
    /\ guard' = Replayer
    /\ Move(Replayer, IF decided = {} THEN "continue" ELSE "replay")
    /\ UNCHANGED <<held, scope, node, proposal, slot, nextId, decided, status,
                   executed, mishaps>>

(* A narrowed scope clears what was derived; the graph goes back, or stops *)
(* at a node that finds its input gone.                                    *)
Narrow(to) ==
    /\ scope' = to
    /\ proposal' = NoAction
    /\ node' \in {node, "derive"}

(* Only the approval node asks for a decision; a graph that stopped on its *)
(* way there goes on from where it was.                                    *)
Apply(decision) ==
    /\ node' = IF node # "ask" THEN node
               ELSE IF decision = "approved" THEN "execute" ELSE "finalize"
    /\ UNCHANGED <<scope, proposal>>

(* resume_run, decline_run *)
Resume(h) ==
    /\ IsAt(h, "resume")
    /\ IF actor[h].decision = "approved" /\ actor[h].to < scope
         THEN Narrow(actor[h].to) ELSE Apply(actor[h].decision)
    /\ Move(h, "graph")
    /\ UNCHANGED <<held, slot, nextId, decided, status, guard, executed, mishaps>>

(* continue_incomplete_run: no decision to apply.                          *)
Continue ==
    /\ IsAt(Replayer, "continue")
    /\ IF Effective < scope THEN Narrow(Effective) ELSE UNCHANGED <<scope, proposal, node>>
    /\ Move(Replayer, "graph")
    /\ UNCHANGED <<held, slot, nextId, decided, status, guard, executed, mishaps>>

Decision == (CHOOSE d \in decided : TRUE).decision
Invalid == Decision = "approved" /\ Effective < scope /\ HasIntent

(* The recorded decision, under fresh authority; an approval that became   *)
(* invalid fails the run.                                                  *)
Replay ==
    /\ IsAt(Replayer, "replay")
    /\ ~Invalid
    /\ IF Decision = "approved" /\ Effective < scope THEN Narrow(Effective) ELSE Apply(Decision)
    /\ Move(Replayer, "graph")
    /\ UNCHANGED <<held, slot, nextId, decided, status, guard, executed, mishaps>>

ReplayRefused ==
    /\ IsAt(Replayer, "replay")
    /\ Invalid
    /\ status' = "failed"
    /\ Leave(Replayer)
    /\ UNCHANGED <<held, scope, node, proposal, slot, nextId, decided, executed, mishaps>>

-----------------------------------------------------------------------------
(* The graph, in the hands of the actor that has the guard.                *)

Derive(a) ==
    /\ IsAt(a, "graph") /\ node = "derive"
    /\ node' = "action"
    /\ \E hash \in Hash : proposal' = [hash |-> hash]
    /\ UNCHANGED <<held, scope, slot, nextId, decided, status, guard, actor, executed, mishaps>>

SameAction == slot # NoAction /\ slot.hash = proposal.hash
Taken == slot # NoAction /\ slot.status # "withdrawn"

(* save_action_intent: the same action is the row as it stands, a withdrawn *)
(* one gives up its slot.                                                   *)
Save(a) ==
    /\ IsAt(a, "graph") /\ node = "action" /\ proposal # NoAction
    /\ \/ SameAction /\ UNCHANGED <<slot, nextId>>
       \/ /\ ~SameAction /\ ~Taken
          /\ slot' = [id |-> nextId, hash |-> proposal.hash, status |-> "proposed"]
          /\ nextId' = nextId + 1
    /\ Move(a, "saved")
    /\ UNCHANGED <<held, scope, node, proposal, decided, status, guard, executed, mishaps>>

(* No handoff, or "run already has a different ActionIntent".              *)
SaveRefused(a) ==
    /\ IsAt(a, "graph") /\ node = "action"
    /\ ~(proposal # NoAction /\ (SameAction \/ ~Taken))
    /\ Failing(a)
    /\ Leave(a)
    /\ UNCHANGED <<held, scope, node, proposal, slot, nextId, decided, executed, mishaps>>

MarkWaiting(a) ==
    /\ IsAt(a, "saved")
    /\ status' = "waiting"
    /\ Move(a, "marked")
    /\ UNCHANGED <<held, scope, node, proposal, slot, nextId, decided, guard, executed, mishaps>>

(* The node's checkpoint, the interrupt, and the end of the invocation.    *)
Ask(a) ==
    /\ IsAt(a, "marked")
    /\ node' = "ask"
    /\ proposal' = [id |-> slot.id, hash |-> proposal.hash]
    /\ Leave(a)
    /\ UNCHANGED <<held, scope, slot, nextId, decided, status, executed, mishaps>>

(* require_still_held, then the executor's comparison with the row.        *)
Execute(a) ==
    /\ IsAt(a, "graph") /\ node = "execute"
    /\ held >= scope
    /\ slot = [id |-> proposal.id, hash |-> proposal.hash, status |-> "approved"]
    /\ executed' = executed \cup {proposal}
    /\ slot' = [slot EXCEPT !.status = "executed"]
    /\ node' = "finalize"
    /\ UNCHANGED <<held, scope, proposal, nextId, decided, status, guard, actor, mishaps>>

ExecuteRefused(a) ==
    /\ IsAt(a, "graph") /\ node = "execute"
    /\ held < scope \/ slot # [id |-> proposal.id, hash |-> proposal.hash, status |-> "approved"]
    /\ Failing(a)
    /\ Leave(a)
    /\ UNCHANGED <<held, scope, node, proposal, slot, nextId, decided, executed, mishaps>>

Finalize(a) ==
    /\ IsAt(a, "graph") /\ node = "finalize"
    /\ status' = "ended"
    /\ Leave(a)
    /\ UNCHANGED <<held, scope, node, proposal, slot, nextId, decided, executed, mishaps>>

(* A node raises: both callers of the graph record the failure.            *)
NodeFails(a) ==
    /\ Mishap
    /\ actor[a].at \in {"graph", "saved", "marked"}
    /\ Failing(a)
    /\ Leave(a)
    /\ UNCHANGED <<held, scope, node, proposal, slot, nextId, decided, executed>>

(* The process dies, or the requester's authority cannot be established.   *)
Vanish(a) ==
    /\ Mishap
    /\ ~IsAt(a, "away")
    /\ Leave(a)
    /\ UNCHANGED <<held, scope, node, proposal, slot, nextId, decided, status, executed>>

-----------------------------------------------------------------------------
GraphStep(a) ==
    \/ Derive(a) \/ Save(a) \/ SaveRefused(a) \/ MarkWaiting(a) \/ Ask(a)
    \/ Execute(a) \/ ExecuteRefused(a) \/ Finalize(a) \/ NodeFails(a) \/ Vanish(a)

SlotNext ==
    \/ Regrant \/ Claim \/ Continue \/ Replay \/ ReplayRefused
    \/ \E h \in Approver :
         \/ \E decision \in {"approved", "rejected"} : Look(h, decision)
         \/ EnterGuard(h) \/ Resolve(h) \/ Withdraw(h) \/ Void(h)
         \/ Record(h) \/ RecordNothing(h) \/ Resume(h)
    \/ \E a \in Actor : GraphStep(a)

SlotSpec == SlotInit /\ [][SlotNext]_slotVars
=============================================================================
