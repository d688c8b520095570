------------------------------ MODULE McpTasks ------------------------------
(***************************************************************************)
(* Tool calls that outlive their HTTP request: the MCP server              *)
(* (mcp/server.py) on several replicas and PostgresMcpTaskStore            *)
(* (mcp/tasks.py), the table they share.  The replica that created a task  *)
(* executes it and renews its lease; any replica answers tasks/get and     *)
(* tasks/cancel; a starting process closes what lost its executor.         *)
(*                                                                         *)
(* One tenant.  tasks[n] is the n-th task ever created.  A poller reads    *)
(* the row and, when it finds it lapsed, writes the failure back at the    *)
(* flush, without looking again.  Outputs, hashes and the mismatch of a    *)
(* reused request id with another content are left out.                    *)
(***************************************************************************)
EXTENDS Naturals, Sequences

CONSTANTS
    Replica,    \* processes that serve MCP
    RequestId,  \* request ids of tool calls, which a client may repeat
    Poller,     \* tasks/get and tasks/cancel requests in flight
    MaxTasks    \* bound on tasks ever created

ASSUME TasksAreBounded == MaxTasks \in Nat

VARIABLES
    tasks,       \* rows, and those deleted
    executor,    \* n -> where _run_task of task n is, on the task's replica
    poller       \* poller -> where the request is

taskVars == <<tasks, executor, poller>>

TaskIds == DOMAIN tasks
Working(n) == tasks[n].kept /\ tasks[n].status = "working"
Ended(n) == tasks[n].status # "working"
Running == {"calling", "returned", "raised", "cancelling"}
NoPoll == [at |-> "none"]

SetStatus(n, status) == tasks' = [tasks EXCEPT ![n].status = status]

TaskInit ==
    /\ tasks = <<>>
    /\ executor = <<>>
    /\ poller = [l \in Poller |-> NoPoll]

-----------------------------------------------------------------------------
(* tools/call: create, ON CONFLICT DO NOTHING; only the request whose own  *)
(* row it is starts an executor.                                           *)
Create(p, ask) ==
    /\ Len(tasks) < MaxTasks
    /\ \A n \in TaskIds : tasks[n].kept => tasks[n].ask # ask
    /\ tasks' = Append(tasks, [ask |-> ask, owner |-> p, status |-> "working",
                               lapsed |-> FALSE, aged |-> FALSE, kept |-> TRUE])
    /\ executor' = Append(executor, "calling")
    /\ UNCHANGED poller

(* _gateway.execute returns or raises. *)
CallEnds(n, how) ==
    /\ executor[n] = "calling"
    /\ executor' = [executor EXCEPT ![n] = how]
    /\ UNCHANGED <<tasks, poller>>

(* Every second: the lease of a working task is renewed, lapsed or not;    *)
(* when it works no more the call is abandoned.                            *)
Heartbeat(n) ==
    /\ executor[n] = "calling"
    /\ \/ /\ Working(n)
          /\ tasks' = [tasks EXCEPT ![n].lapsed = FALSE]
          /\ UNCHANGED executor
       \/ /\ ~Working(n)
          /\ executor' = [executor EXCEPT ![n] = "gone"]
          /\ UNCHANGED tasks
    /\ UNCHANGED poller

(* Mutant of Finish: without the condition on the status. *)
FinishAnyway(n) ==
    /\ executor[n] \in {"returned", "raised"}
    /\ SetStatus(n, IF executor[n] = "returned" THEN "completed" ELSE "failed")
    /\ executor' = [executor EXCEPT ![n] = "gone"]
    /\ UNCHANGED poller

(* finish *)
Finish(n) ==
    /\ executor[n] \in {"returned", "raised"}
    /\ IF Working(n)
         THEN SetStatus(n, IF executor[n] = "returned" THEN "completed" ELSE "failed")
         ELSE UNCHANGED tasks
    /\ executor' = [executor EXCEPT ![n] = "gone"]
    /\ UNCHANGED poller

(* _run_task's answer to its own cancellation: store.cancel. *)
Cancelled(n) ==
    /\ executor[n] = "cancelling"
    /\ IF Working(n) THEN SetStatus(n, "cancelled") ELSE UNCHANGED tasks
    /\ executor' = [executor EXCEPT ![n] = "gone"]
    /\ UNCHANGED poller

-----------------------------------------------------------------------------
(* get, as tasks/get calls it and as tasks/cancel begins; a get that finds *)
(* nothing to close answers and changes nothing.                           *)
Read(l, p, n, method) ==
    /\ poller[l] = NoPoll
    /\ tasks[n].kept /\ ~tasks[n].aged
    /\ \/ Working(n) /\ tasks[n].lapsed
       \/ method = "cancel"
    /\ poller' = [poller EXCEPT ![l] =
                    [at |-> IF Working(n) /\ tasks[n].lapsed THEN "close" ELSE "signal",
                     replica |-> p, task |-> n, method |-> method]]
    /\ UNCHANGED <<tasks, executor>>

Done(l) == poller' = [poller EXCEPT ![l] = NoPoll]
Onward(l) ==
    IF poller[l].method = "cancel" THEN poller' = [poller EXCEPT ![l].at = "signal"] ELSE Done(l)

(* The flush: an UPDATE by primary key, failing when the row is gone.      *)
Close(l) ==
    /\ poller[l].at = "close"
    /\ LET n == poller[l].task
       IN  \/ tasks[n].kept /\ SetStatus(n, "failed") /\ Onward(l)
           \/ /\ ~tasks[n].kept
              /\ Done(l)
              /\ UNCHANGED tasks
    /\ UNCHANGED executor

(* running.cancel(): only in the process that executes the task.           *)
Signal(l) ==
    /\ poller[l].at = "signal"
    /\ LET n == poller[l].task
       IN  executor' = IF tasks[n].owner = poller[l].replica /\ executor[n] \in Running
                         THEN [executor EXCEPT ![n] = "cancelling"] ELSE executor
    /\ poller' = [poller EXCEPT ![l].at = "cancel"]
    /\ UNCHANGED tasks

(* cancel *)
Cancel(l) ==
    /\ poller[l].at = "cancel"
    /\ LET n == poller[l].task
       IN  IF Working(n) THEN SetStatus(n, "cancelled") ELSE UNCHANGED tasks
    /\ Done(l)
    /\ UNCHANGED executor

-----------------------------------------------------------------------------
(* The lease runs out; the TTL a client was told runs out.                 *)
LeaseLapses(n) ==
    /\ Working(n) /\ ~tasks[n].lapsed
    /\ tasks' = [tasks EXCEPT ![n].lapsed = TRUE]
    /\ UNCHANGED <<executor, poller>>

Age(n) ==
    /\ ~tasks[n].aged
    /\ tasks' = [tasks EXCEPT ![n].aged = TRUE]
    /\ UNCHANGED <<executor, poller>>

Recovered(task) ==
    [task EXCEPT !.status = IF @ = "working" /\ task.kept /\ task.lapsed THEN "failed" ELSE @,
                 !.kept = @ /\ ~task.aged]

(* recover_interrupted, at the start of any process                        *)
Recover ==
    /\ tasks' = [n \in TaskIds |-> Recovered(tasks[n])]
    /\ UNCHANGED <<executor, poller>>

(* A replica dies with its executors and the requests it was answering.    *)
Crash(p) ==
    /\ executor' = [n \in TaskIds |-> IF tasks[n].owner = p THEN "gone" ELSE executor[n]]
    /\ poller' = [l \in Poller |-> IF poller[l] # NoPoll /\ poller[l].replica = p
                                     THEN NoPoll ELSE poller[l]]
    /\ UNCHANGED tasks

-----------------------------------------------------------------------------
TaskStep(n) ==
    \/ \E how \in {"returned", "raised"} : CallEnds(n, how)
    \/ Heartbeat(n) \/ Finish(n) \/ Cancelled(n)
    \/ LeaseLapses(n) \/ Age(n)

PollerStep(l) ==
    \/ \E p \in Replica, n \in TaskIds, method \in {"get", "cancel"} : Read(l, p, n, method)
    \/ Close(l) \/ Signal(l) \/ Cancel(l)

TaskNext ==
    \/ \E p \in Replica : Crash(p) \/ \E ask \in RequestId : Create(p, ask)
    \/ \E n \in TaskIds : TaskStep(n)
    \/ \E l \in Poller : PollerStep(l)
    \/ Recover

TaskSpec == TaskInit /\ [][TaskNext]_taskVars
=============================================================================
