---------------------------- MODULE McpTasksProps ----------------------------
(* What a client that polls a task may rely on. *)
EXTENDS McpTasks

TaskTypeOK ==
    /\ tasks \in Seq([ask : RequestId, owner : Replica, lapsed : BOOLEAN, aged : BOOLEAN,
                      kept : BOOLEAN,
                      status : {"working", "completed", "failed", "cancelled"}])
    /\ \A n \in TaskIds : executor[n] \in Running \cup {"gone"}
    /\ \A m, n \in TaskIds : tasks[m].kept /\ tasks[n].kept /\ tasks[m].ask = tasks[n].ask => m = n
    /\ \A l \in Poller : poller[l] = NoPoll \/ poller[l].task \in TaskIds

(* A poller that found the lease lapsed is about to write that down.       *)
ClosedLate(n) ==
    \E l \in Poller : poller[l].at = "close" /\ poller[l].task = n /\ poller'[l] # poller[l]

(* A task ends once: executor, heartbeat, canceller and recovery never     *)
(* rewrite an end, and nobody fails a task whose executor still has the    *)
(* tool call in hand unless the lease has lapsed ("Closing preserves work  *)
(* owned by healthy replicas", mcp/tasks.py:207).  The one exception is a  *)
(* poller that read the row as lapsed: it writes FAILED over whatever has  *)
(* happened to the task since.                                             *)
TasksEndOnce ==
    [][\A n \in TaskIds :
         tasks'[n].status # tasks[n].status =>
            \/ ClosedLate(n) /\ tasks'[n].status = "failed"
            \/ /\ Working(n)
               /\ tasks'[n].status = "failed" /\ executor[n] = "calling" => tasks[n].lapsed]_taskVars
=============================================================================
