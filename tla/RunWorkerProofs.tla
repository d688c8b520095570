-------------------------- MODULE RunWorkerProofs ---------------------------
(* Theorems about RunWorker for every set of runs, workers, requests and tenants,
   every SlotLimit and every MaxFaults. *)
EXTENDS RunWorkerProps, FiniteSetTheorems, TLAPS

-----------------------------------------------------------------------------
(* Type correctness. *)

(* The initial state is well typed. *)
LEMMA InitType == Init => TypeOK
BY ConstantsAssumption
   DEF Init, TypeOK, RowType, LeaseType, LockType, SessionType, LocalType, ConstantsAssumption,
       Status, Active, Terminal, Node, Session, Slot, Place, Answer

(* A group of variables that a step leaves alone keeps its type. *)
LEMMA Frame ==
  ASSUME TypeOK
  PROVE  /\ UNCHANGED row => RowType'
         /\ UNCHANGED lease => LeaseType'
         /\ UNCHANGED locks => LockType'
         /\ UNCHANGED <<pc, task>> => SessionType'
         /\ UNCHANGED local => LocalType'
BY DEF TypeOK, RowType, LeaseType, LockType, SessionType, LocalType, row, lease, locks, local

(* A session that has a place has a run, and the run has a tenant. *)
LEMMA TaskInRun ==
  ASSUME TypeOK, NEW s \in Session, pc[s] # "idle"
  PROVE  task[s] \in Run /\ TenantOf[task[s]] \in Tenant
BY ConstantsAssumption DEF ConstantsAssumption, TypeOK, SessionType

(* A session that moves on keeps its run. *)
LEMMA GotoType ==
  ASSUME TypeOK, NEW s \in Session, NEW p \in Place \ {"idle"},
         pc[s] # "idle", Goto(s, p), UNCHANGED task
  PROVE  SessionType'
BY DEF TypeOK, SessionType, Goto

(* A session that ends has neither place nor run. *)
LEMMA ForgetType ==
  ASSUME TypeOK, NEW s \in Session, Forget(s)
  PROVE  SessionType' /\ LocalType'
<1>1. "idle" \in Place /\ "route" \in Node /\ "none" \in Answer /\ 1 \in Slot
  BY ConstantsAssumption DEF ConstantsAssumption, Place, Node, Answer, Slot
<1> QED
  BY <1>1 DEF Forget, Goto, TypeOK, SessionType, LocalType

(* A resume value that reaches the graph is one the graph knows. *)
LEMMA InvokeType ==
  ASSUME TypeOK, NEW s \in Session, NEW d \in Answer, pc[s] # "idle",
         Invoke(s, d), UNCHANGED <<task, probe>>
  PROVE  SessionType' /\ LocalType'
<1> DEFINE node == stage[task[s]]
           v == CASE node = "approval" /\ d \in Decision \cup {"voided"} -> d
                  [] node = "escalate" /\ d \in Decision \cup Resolution -> d
                  [] node # "approval" /\ d = "voided" -> "rederiving"
                  [] OTHER -> "none"
<1>1. v \in Answer /\ node \in Node
  BY TaskInRun DEF Answer, TypeOK, RowType
<1>2. answer' = [answer EXCEPT ![s] = v] /\ at' = [at EXCEPT ![s] = node]
  BY DEF Invoke
<1>3. SessionType'
  BY GotoType DEF Invoke, Place
<1> HIDE DEF v, node
<1> QED
  BY <1>1, <1>2, <1>3 DEF TypeOK, LocalType

(* A row keeps its type under every status the code writes. *)
LEMMA UpdateRunType ==
  ASSUME TypeOK, NEW r \in Run, NEW new \in Status, UpdateRun(r, new), UNCHANGED <<decision, stage>>
  PROVE  RowType'
BY DEF UpdateRun, TypeOK, RowType

(* A release leaves a lease. *)
LEMMA ReleaseType ==
  ASSUME TypeOK, NEW w \in Worker, NEW r \in Run, NEW b \in BOOLEAN, Release(w, r, b)
  PROVE  LeaseType'
BY DEF Release, TypeOK, LeaseType, lease

(* A node that only writes the status and moves on, and one that does not write. *)
LEMMA VisitType ==
  ASSUME TypeOK, NEW s \in Session, NEW node \in Node, NEW new \in Status, NEW next \in Node,
         Visit(s, node, new, next) \/ Move(s, node, next)
  PROVE  TypeOK'
<1>1. pc[s] # "idle" /\ task[s] \in Run
  BY TaskInRun DEF Visit, Move
<1>2. CASE Visit(s, node, new, next) /\ Refuses(task[s], new)
  <2>1. Stopped(s) \in Place \ {"idle"} BY DEF Stopped, Place
  <2>2. SessionType' BY <1>1, <1>2, <2>1, GotoType DEF Visit
  <2> QED BY <1>2, <2>2, Frame DEF Visit, TypeOK, row, lease, locks, local
<1>3. CASE Visit(s, node, new, next) /\ ~Refuses(task[s], new)
  <2>1. RowType' BY <1>1, <1>3, UpdateRunType DEF Visit
  <2>2. LocalType' BY <1>3 DEF Visit, TypeOK, LocalType
  <2> QED BY <1>3, <2>1, <2>2, Frame DEF Visit, TypeOK, lease, locks
<1>4. CASE Move(s, node, next)
  <2>1. LocalType' BY <1>4 DEF Move, TypeOK, LocalType
  <2> QED BY <1>4, <2>1, Frame DEF Move, TypeOK
<1> QED
  BY <1>2, <1>3, <1>4

(* The nodes of the graph keep every variable in its set. *)
LEMMA GraphType ==
  ASSUME TypeOK, NEW s \in Session, Graph(s)
  PROVE  TypeOK'
<1>s. {"running", "waiting_approval", "waiting_review", "cancelled"} \cup Terminal \subseteq Status
  BY DEF Status, Active, Terminal
<1>n. Node = {"route", "pipeline", "action", "approval", "execute", "escalate",
              "finalize", "decline", "end"}
  BY DEF Node
<1>p. Returned(s) \in Place \ {"idle"} /\ Stopped(s) \in Place \ {"idle"}
  BY DEF Returned, Stopped, Place
<1>1. CASE Route(s) BY <1>1, <1>s, <1>n, VisitType DEF Route
<1>2. CASE Pipeline(s) BY <1>2, <1>s, <1>n, VisitType DEF Pipeline
<1>3. CASE ProposeAction(s) BY <1>3, <1>s, <1>n, VisitType DEF ProposeAction
<1>4. CASE Execute(s)
  <2>1. CASE answer[s] = "rederiving"
    <3>1. "leaving" \in Place \ {"idle"} BY DEF Place
    <3>2. SessionType' BY <1>4, <2>1, <3>1, GotoType DEF Execute
    <3> QED BY <1>4, <2>1, <3>2, Frame DEF Execute, TypeOK
  <2>2. CASE answer[s] # "rederiving" BY <1>4, <1>s, <1>n, <2>2, VisitType DEF Execute
  <2> QED BY <2>1, <2>2
<1>5. CASE Finalize(s) BY <1>5, <1>s, <1>n, VisitType DEF Finalize
<1>6. ASSUME pc[s] # "idle", Pause(s), UNCHANGED <<status, decision, task>>
      PROVE  RowType' /\ SessionType'
  <2>1. task[s] \in Run BY <1>6, TaskInRun
  <2>2. RowType' BY <1>6, <2>1 DEF Pause, TypeOK, RowType, LocalType
  <2>3. SessionType' BY <1>6, <1>p, GotoType DEF Pause
  <2> QED BY <2>2, <2>3
<1>7. CASE GraphEnds(s) BY <1>6, <1>7, Frame DEF GraphEnds, TypeOK, local
<1>8. CASE Approval(s)
  <2>1. CASE answer[s] \in {"none", "rederiving"}
    BY <1>6, <1>8, <2>1, Frame DEF Approval, TypeOK, local
  <2>2. CASE answer[s] \notin {"none", "rederiving"}
    <3>1. AfterApproval(answer[s]) \in Node BY <1>n DEF AfterApproval
    <3>2. LocalType' BY <1>8, <2>2, <3>1 DEF Approval, TypeOK, LocalType, Answer
    <3> QED BY <1>8, <2>2, <3>2, Frame DEF Approval, TypeOK, row
  <2> QED BY <2>1, <2>2
<1>9. CASE Escalate(s)
  <2>1. pc[s] # "idle" /\ task[s] \in Run BY <1>9, TaskInRun DEF Escalate
  <2>2. CASE Refuses(task[s], "waiting_review")
    <3>1. SessionType' BY <1>9, <2>1, <2>2, <1>p, GotoType DEF Escalate
    <3> QED BY <1>9, <2>2, <3>1, Frame DEF Escalate, TypeOK, row, local
  <2>3. CASE ~Refuses(task[s], "waiting_review") /\ answer[s] \notin Decision \cup Resolution
    <3>1. SessionType' BY <1>9, <2>1, <2>3, <1>p, GotoType DEF Escalate, Pause
    <3>2. RowType' BY <1>9, <2>1, <2>3, <1>s
                   DEF Escalate, Pause, UpdateRun, TypeOK, RowType, LocalType
    <3> QED BY <1>9, <2>3, <3>1, <3>2, Frame DEF Escalate, TypeOK, local
  <2>4. CASE ~Refuses(task[s], "waiting_review") /\ answer[s] \in Decision \cup Resolution
    <3>1. RowType' BY <1>9, <2>1, <2>4, <1>s, UpdateRunType DEF Escalate
    <3>2. LocalType' BY <1>9, <2>4, <1>n DEF Escalate, TypeOK, LocalType, Answer
    <3> QED BY <1>9, <2>4, <3>1, <3>2, Frame DEF Escalate, TypeOK
  <2> QED BY <2>2, <2>3, <2>4
<1> QED
  BY <1>1, <1>2, <1>3, <1>4, <1>5, <1>7, <1>8, <1>9 DEF Graph

(* The steps of the guard keep every variable in its set. *)
LEMMA GuardingType ==
  ASSUME TypeOK, NEW s \in Session, Guarding(s)
  PROVE  TypeOK'
<1>p. {"probing", "refused", "locked", "leaving", "unlocking"} \subseteq Place \ {"idle"}
  BY DEF Place
<1>1. CASE TryRunLock(s)
  <2>1. task[s] \in Run BY <1>1, TaskInRun DEF TryRunLock
  <2>2. SessionType' BY <1>1, <1>p, GotoType DEF TryRunLock
  <2>3. LockType' BY <1>1, <2>1 DEF TryRunLock, TypeOK, LockType
  <2> QED BY <1>1, <2>2, <2>3, Frame DEF TryRunLock, TypeOK
<1>2. CASE TrySlot(s)
  <2> DEFINE t == TenantOf[task[s]]
             k == probe[s]
  <2>1. t \in Tenant /\ k \in Slot /\ k \in Nat /\ SlotLimit \in Nat
    BY <1>2, TaskInRun, ConstantsAssumption
       DEF TrySlot, TypeOK, LocalType, Slot, ConstantsAssumption
  <2>2. CASE slotLock[t][k] = Nobody
    <3>1. SessionType' BY <1>2, <2>2, <1>p, GotoType DEF TrySlot
    <3>2. slotLock' = [slotLock EXCEPT ![t][k] = s] /\ UNCHANGED runLock
      BY <1>2, <2>2 DEF TrySlot
    <3>3. LockType' BY <2>1, <3>2 DEF TypeOK, LockType
    <3> QED BY <1>2, <2>2, <3>1, <3>3, Frame DEF TrySlot, TypeOK, local
  <2>3. CASE slotLock[t][k] # Nobody /\ k < SlotLimit
    <3>1. k + 1 \in Slot BY <2>1, <2>3 DEF Slot
    <3>2. LocalType' BY <1>2, <2>3, <3>1 DEF TrySlot, TypeOK, LocalType
    <3> QED BY <1>2, <2>3, <3>2, Frame DEF TrySlot, TypeOK, locks
  <2>4. CASE slotLock[t][k] # Nobody /\ ~(k < SlotLimit)
    <3>1. SessionType' BY <1>2, <2>4, <1>p, GotoType DEF TrySlot
    <3> QED BY <1>2, <2>4, <3>1, Frame DEF TrySlot, TypeOK, locks, local
  <2> QED BY <2>2, <2>3, <2>4
<1>3. CASE Refused(s)
  <2>1. SessionType' BY <1>3, <1>p, GotoType DEF Refused
  <2>2. LeaseType' BY <1>3, TaskInRun, ReleaseType, Frame DEF Refused
  <2> QED BY <1>3, <2>1, <2>2, Frame DEF Refused, TypeOK
<1>4. CASE UnlockSlot(s)
  <2>1. SessionType' BY <1>4, <1>p, GotoType DEF UnlockSlot
  <2>2. LockType' BY <1>4 DEF UnlockSlot, TypeOK, LockType
  <2> QED BY <1>4, <2>1, <2>2, Frame DEF UnlockSlot, TypeOK
<1>5. CASE UnlockRun(s)
  <2>1. SessionType' /\ LocalType' BY <1>5, ForgetType DEF UnlockRun
  <2>2. LockType' BY <1>5 DEF UnlockRun, DropRunLock, TypeOK, LockType
  <2> QED BY <1>5, <2>1, <2>2, Frame DEF UnlockRun, TypeOK
<1> QED
  BY <1>1, <1>2, <1>3, <1>4, <1>5 DEF Guarding

(* Every step of the code keeps every variable in its set. *)
LEMMA NextType == TypeOK /\ [Next]_vars => TypeOK'
<1> SUFFICES ASSUME TypeOK, [Next]_vars PROVE TypeOK'
  OBVIOUS
<1>g. {"entering", "locked", "confirmed", "entry", "graph", "returned", "failing", "settled",
       "deferred", "leaving"} \subseteq Place \ {"idle"}
  BY DEF Place
<1>s. {"running", "failed", "cancelled"} \subseteq Status /\ Active \cup Terminal \subseteq Status
  BY DEF Status, Active, Terminal
<1>w. Worker \subseteq Session /\ Api \subseteq Session /\ MaxFaults \in Nat
  BY ConstantsAssumption DEF ConstantsAssumption, Session
<1>f. Fault => faults' \in 0..MaxFaults
  BY <1>w DEF Fault, TypeOK
<1>1. ASSUME NEW w \in Worker, NEW r \in Run, Claim(w, r) PROVE TypeOK'
  <2>1. SessionType'
    BY <1>1, <1>g, <1>w, ConstantsAssumption
       DEF Claim, TypeOK, SessionType, Goto, ConstantsAssumption
  <2>2. LeaseType' BY <1>1 DEF Claim, TypeOK, LeaseType
  <2> QED BY <1>1, <2>1, <2>2, Frame DEF Claim, TypeOK
<1>2. ASSUME NEW a \in Api, NEW r \in Run, NEW d \in Decision \cup Resolution, Request(a, r, d)
      PROVE TypeOK'
  <2>1. SessionType'
    BY <1>2, <1>g, <1>w, ConstantsAssumption
       DEF Request, TypeOK, SessionType, Goto, ConstantsAssumption
  <2>2. LocalType' BY <1>2, <1>w DEF Request, TypeOK, LocalType, Answer
  <2> QED BY <1>2, <2>1, <2>2, Frame DEF Request, TypeOK
<1>3. ASSUME NEW s \in Session, RecordFailure(s) PROVE TypeOK'
  <2>1. Stopped(s) \in Place \ {"idle"} BY <1>g DEF Stopped
  <2>2. SessionType' BY <1>3, <2>1, GotoType DEF RecordFailure
  <2>3. RowType' BY <1>3, <1>s, TaskInRun, UpdateRunType, Frame DEF RecordFailure, row
  <2> QED BY <1>3, <2>2, <2>3, Frame DEF RecordFailure, TypeOK
<1>4. ASSUME NEW w \in Worker, Confirm(w) PROVE TypeOK'
  <2>1. SessionType' BY <1>4, <1>g, <1>w, GotoType DEF Confirm
  <2>2. LeaseType' BY <1>4, <1>w, TaskInRun DEF Confirm, TypeOK, LeaseType
  <2> QED BY <1>4, <2>1, <2>2, Frame DEF Confirm, TypeOK
<1>5. ASSUME NEW w \in Worker, Recheck(w) PROVE TypeOK'
  <2>1. SessionType' BY <1>5, <1>g, <1>w, GotoType DEF Recheck
  <2>2. LeaseType' BY <1>5, <1>w, TaskInRun, ReleaseType, Frame DEF Recheck
  <2> QED BY <1>5, <2>1, <2>2, Frame DEF Recheck, TypeOK
<1>6. ASSUME NEW w \in Worker, EnterGraph(w) PROVE TypeOK'
  <2>1. decision[task[w]] \in Answer
    BY <1>6, <1>w, TaskInRun DEF EnterGraph, TypeOK, RowType, Answer
  <2>2. SessionType' /\ LocalType' BY <1>6, <1>w, <2>1, InvokeType DEF EnterGraph
  <2> QED BY <1>6, <2>2, Frame DEF EnterGraph, TypeOK
<1>7. ASSUME NEW w \in Worker, Inspect(w) PROVE TypeOK'
  <2>1. SessionType' BY <1>7, <1>g, <1>w, GotoType DEF Inspect
  <2> QED BY <1>7, <2>1, Frame DEF Inspect, TypeOK
<1>8. ASSUME NEW w \in Worker, Settle(w) PROVE TypeOK'
  <2>1. SessionType' BY <1>8, <1>g, <1>w, GotoType DEF Settle
  <2>2. LeaseType' BY <1>8, <1>w, TaskInRun, ReleaseType DEF Settle
  <2> QED BY <1>8, <2>1, <2>2, Frame DEF Settle, TypeOK
<1>9. ASSUME NEW w \in Worker, Abandon(w), faults' \in 0..MaxFaults PROVE TypeOK'
  <2>1. SessionType' BY <1>9, <1>g, <1>w, GotoType DEF Abandon
  <2> QED BY <1>9, <2>1, Frame DEF Abandon, TypeOK
<1>10. ASSUME NEW w \in Worker, HeartbeatLost(w) \/ Interrupted(w) PROVE TypeOK'
  BY <1>9, <1>10, <1>f DEF HeartbeatLost, Interrupted, TypeOK
<1>11. ASSUME NEW w \in Worker, Blocked(w) PROVE TypeOK'
  <2>1. SessionType' BY <1>11, <1>g, <1>w, GotoType DEF Blocked
  <2> QED BY <1>11, <1>f, <2>1, Frame DEF Blocked, TypeOK
<1>12. ASSUME NEW w \in Worker, ApprovalVoid(w) PROVE TypeOK'
  <2>1. SessionType' BY <1>12, <1>g, <1>w, GotoType DEF ApprovalVoid
  <2> QED BY <1>12, <2>1, Frame DEF ApprovalVoid, TypeOK
<1>13. ASSUME NEW a \in Api, RecordApproval(a) PROVE TypeOK'
  <2>1. CASE decision[task[a]] = "none" /\ status[task[a]] = "waiting_approval"
    <3>1. answer[a] \in Answer /\ task[a] \in Run
      BY <1>13, <1>w, TaskInRun DEF RecordApproval, TypeOK, LocalType
    <3>2. SessionType' /\ LocalType' BY <1>13, <1>w, <2>1, <3>1, InvokeType DEF RecordApproval
    <3>3. RowType' BY <1>13, <2>1, <3>1, <1>s DEF RecordApproval, UpdateRun, TypeOK, RowType
    <3> QED BY <1>13, <3>2, <3>3, Frame DEF RecordApproval, TypeOK
  <2>2. CASE ~(decision[task[a]] = "none" /\ status[task[a]] = "waiting_approval")
    <3>1. SessionType' BY <1>13, <1>g, <1>w, <2>2, GotoType DEF RecordApproval
    <3> QED BY <1>13, <2>2, <3>1, Frame DEF RecordApproval, TypeOK, row, local
  <2> QED BY <2>1, <2>2
<1>14. ASSUME NEW a \in Api, ApplyReview(a) PROVE TypeOK'
  <2>1. CASE ~Refuses(task[a], "running")
    <3>1. answer[a] \in Answer /\ task[a] \in Run
      BY <1>14, <1>w, TaskInRun DEF ApplyReview, TypeOK, LocalType
    <3>2. SessionType' /\ LocalType' BY <1>14, <1>w, <2>1, <3>1, InvokeType DEF ApplyReview
    <3>3. RowType' BY <1>14, <2>1, <3>1, <1>s, UpdateRunType DEF ApplyReview
    <3> QED BY <1>14, <3>2, <3>3, Frame DEF ApplyReview, TypeOK
  <2>2. CASE Refuses(task[a], "running")
    <3>1. SessionType' BY <1>14, <1>g, <1>w, <2>2, GotoType DEF ApplyReview
    <3> QED BY <1>14, <2>2, <3>1, Frame DEF ApplyReview, TypeOK, row, local
  <2> QED BY <2>1, <2>2
<1>15. ASSUME NEW a \in Api, ApiBlocked(a) PROVE TypeOK'
  <2>1. SessionType' BY <1>15, <1>g, <1>w, GotoType DEF ApiBlocked
  <2> QED BY <1>15, <1>f, <2>1, Frame DEF ApiBlocked, TypeOK
<1>16. ASSUME NEW a \in Api, ApiVoid(a) PROVE TypeOK'
  <2>1. "voided" \in Answer BY DEF Answer
  <2>2. SessionType' /\ LocalType' BY <1>16, <1>w, <2>1, InvokeType DEF ApiVoid
  <2> QED BY <1>16, <2>2, Frame DEF ApiVoid, TypeOK
<1>17. ASSUME NEW s \in Session, Checkpoint(s) PROVE TypeOK'
  <2>1. RowType'
    BY <1>17, TaskInRun DEF Checkpoint, TypeOK, RowType, LocalType
  <2> QED BY <1>17, <2>1, Frame DEF Checkpoint, TypeOK
<1>18. ASSUME NEW s \in Session, NodeRaises(s) PROVE TypeOK'
  <2>1. SessionType' BY <1>18, <1>g, GotoType DEF NodeRaises
  <2> QED BY <1>18, <2>1, Frame DEF NodeRaises, TypeOK
<1>19. ASSUME NEW s \in Session, Crash(s) PROVE TypeOK'
  <2>1. SessionType' /\ LocalType' BY <1>19, ForgetType DEF Crash
  <2>2. LockType' BY <1>19 DEF Crash, DropRunLock, TypeOK, LockType
  <2> QED BY <1>19, <1>f, <2>1, <2>2, Frame DEF Crash, TypeOK
<1>20. ASSUME NEW r \in Run, CancelRun(r) PROVE TypeOK'
  <2>1. RowType' BY <1>20, <1>s, UpdateRunType DEF CancelRun
  <2> QED BY <1>20, <2>1, Frame DEF CancelRun, TypeOK
<1>21. ASSUME NEW r \in Run, Lapse(r) PROVE TypeOK'
  <2>1. LeaseType' BY <1>21 DEF Lapse, TypeOK, LeaseType
  <2> QED BY <1>21, <1>f, <2>1, Frame DEF Lapse, TypeOK
<1>22. CASE UNCHANGED vars
  BY <1>22, Frame DEF vars, TypeOK
<1> QED
  BY <1>w, <1>1, <1>2, <1>3, <1>4, <1>5, <1>6, <1>7, <1>8, <1>10, <1>11, <1>12, <1>13, <1>14,
     <1>15, <1>16, <1>17, <1>18, <1>19, <1>20, <1>21, <1>22, GuardingType, GraphType
     DEF Next, WorkerStep, ApiStep

(* Every variable of the queue, the guard and the graph stays in its set, for any
   number of runs, workers, requests and faults. *)
THEOREM TypeCorrect == Spec => []TypeOK
BY InitType, NextType, PTL DEF Spec

-----------------------------------------------------------------------------
(* Who holds the advisory locks. *)

(* A place inside the guard is left for another, or for the guard's finally. *)
MovesInGuard(s) ==
  \E p \in Guarded \cup {"leaving"} :
    pc[s] \in Guarded /\ Goto(s, p) /\ UNCHANGED <<task, locks>>

Arrives(s, r) ==
  /\ pc[s] = "idle"
  /\ Goto(s, "entering")
  /\ task' = [task EXCEPT ![s] = r]
  /\ UNCHANGED locks

(* To the locks, all that a step can do is one of these. *)
LEMMA StepShape ==
  ASSUME TypeOK, [Next]_vars
  PROVE  \/ UNCHANGED <<pc, task, locks>>
         \/ \E s \in Session : MovesInGuard(s) \/ Guarding(s) \/ Crash(s)
         \/ \E s \in Session, r \in Run : Arrives(s, r)
<1> DEFINE Shape == \/ UNCHANGED <<pc, task, locks>>
                    \/ \E s \in Session : MovesInGuard(s) \/ Guarding(s) \/ Crash(s)
                    \/ \E s \in Session, r \in Run : Arrives(s, r)
<1>w. Worker \subseteq Session /\ Api \subseteq Session
  BY DEF Session
<1>g. \A s \in Session : Stopped(s) \in Guarded \cup {"leaving"} /\ Returned(s) \in Guarded \cup {"leaving"}
  BY DEF Stopped, Returned, Guarded
<1>1. ASSUME NEW s \in Session, Graph(s) PROVE Shape
  <2> USE DEF MovesInGuard, Goto, Visit, Move
  <2>1. CASE Route(s) BY <1>g, <2>1 DEF Route, Guarded
  <2>2. CASE Pipeline(s) BY <2>2 DEF Pipeline
  <2>3. CASE ProposeAction(s) BY <1>g, <2>3 DEF ProposeAction, Guarded
  <2>4. CASE Approval(s) BY <1>g, <2>4 DEF Approval, Pause, Guarded
  <2>5. CASE Execute(s) BY <2>5 DEF Execute, Guarded
  <2>6. CASE Escalate(s) BY <1>g, <2>6 DEF Escalate, Pause, Guarded
  <2>7. CASE Finalize(s) BY <1>g, <2>7 DEF Finalize, Guarded
  <2>8. CASE GraphEnds(s) BY <1>g, <2>8 DEF GraphEnds, Pause, Guarded
  <2> QED BY <1>1, <2>1, <2>2, <2>3, <2>4, <2>5, <2>6, <2>7, <2>8 DEF Graph
<1>2. ASSUME NEW s \in Session, RecordFailure(s) \/ Checkpoint(s) \/ NodeRaises(s) PROVE Shape
  BY <1>g, <1>2 DEF RecordFailure, Checkpoint, NodeRaises, MovesInGuard, Guarded
<1>3. ASSUME NEW w \in Worker,
             Confirm(w) \/ Recheck(w) \/ EnterGraph(w) \/ Inspect(w) \/ Settle(w)
      PROVE Shape
  BY <1>w, <1>3 DEF Confirm, Recheck, EnterGraph, Invoke, Inspect, Settle, MovesInGuard, Guarded
<1>4. ASSUME NEW w \in Worker, HeartbeatLost(w) \/ Interrupted(w) \/ Blocked(w) \/ ApprovalVoid(w)
      PROVE Shape
  BY <1>w, <1>4 DEF HeartbeatLost, Interrupted, Abandon, Blocked, ApprovalVoid, MovesInGuard, Guarded
<1>5. ASSUME NEW a \in Api, RecordApproval(a) \/ ApplyReview(a) \/ ApiBlocked(a) \/ ApiVoid(a)
      PROVE Shape
  BY <1>w, <1>5 DEF RecordApproval, ApplyReview, ApiBlocked, ApiVoid, Invoke, MovesInGuard, Guarded
<1>6. ASSUME NEW w \in Worker, NEW r \in Run, Claim(w, r) PROVE Shape
  BY <1>w, <1>6 DEF Claim, Arrives
<1>7. ASSUME NEW a \in Api, NEW r \in Run, NEW d \in Decision \cup Resolution, Request(a, r, d)
      PROVE Shape
  BY <1>w, <1>7 DEF Request, Arrives
<1>8. ASSUME NEW r \in Run, CancelRun(r) \/ Lapse(r) PROVE Shape
  BY <1>8 DEF CancelRun, Lapse
<1>9. CASE UNCHANGED vars
  BY <1>9 DEF vars
<1> QED
  BY <1>w, <1>1, <1>2, <1>3, <1>4, <1>5, <1>6, <1>7, <1>8, <1>9 DEF Next, WorkerStep, ApiStep

(* Nobody holds anything at first. *)
LEMMA InitLocks == Init => LocksAreHeld
BY ConstantsAssumption
   DEF Init, LocksAreHeld, RunLockHolders, SlotHolders, Guarded, ConstantsAssumption

(* The locks stay with the sessions that took them. *)
LEMMA NextLocks == TypeOK /\ LocksAreHeld /\ [Next]_vars => LocksAreHeld'
<1> SUFFICES ASSUME TypeOK, LocksAreHeld, [Next]_vars PROVE LocksAreHeld'
  OBVIOUS
<1>n. Nobody \notin Session /\ NoRun \notin Run
  BY ConstantsAssumption DEF ConstantsAssumption
<1>t. /\ runLock \in [Run -> Session \cup {Nobody}]
      /\ slotLock \in [Tenant -> [Slot -> Session \cup {Nobody}]]
      /\ pc \in [Session -> Place] /\ task \in [Session -> Run \cup {NoRun}]
      /\ \A s \in Session : (task[s] = NoRun) <=> (pc[s] = "idle")
  BY DEF TypeOK, LockType, SessionType
<1>g. Guarded = {"locked", "confirmed", "entry", "graph", "returned", "failing", "settled", "deferred"}
  BY DEF Guarded
<1>1. CASE UNCHANGED <<pc, task, locks>>
  BY <1>1 DEF LocksAreHeld, RunLockHolders, SlotHolders, locks
<1>2. ASSUME NEW s \in Session, MovesInGuard(s) PROVE LocksAreHeld'
  <2>1. PICK p \in Guarded \cup {"leaving"} :
          pc[s] \in Guarded /\ pc' = [pc EXCEPT ![s] = p] /\ UNCHANGED <<task, runLock, slotLock>>
    BY <1>2 DEF MovesInGuard, Goto, locks
  <2>2. RunLockHolders' BY <2>1, <1>t, <1>g DEF LocksAreHeld, RunLockHolders
  <2>3. SlotHolders' BY <2>1, <1>t, <1>g DEF LocksAreHeld, SlotHolders
  <2> QED BY <2>2, <2>3 DEF LocksAreHeld
<1>3. ASSUME NEW s \in Session, NEW r \in Run, Arrives(s, r) PROVE LocksAreHeld'
  <2>1. /\ pc[s] = "idle" /\ pc' = [pc EXCEPT ![s] = "entering"]
        /\ task' = [task EXCEPT ![s] = r] /\ UNCHANGED <<runLock, slotLock>>
    BY <1>3 DEF Arrives, Goto, locks
  <2>2. RunLockHolders' BY <2>1, <1>t, <1>g, <1>n DEF LocksAreHeld, RunLockHolders
  <2>3. SlotHolders' BY <2>1, <1>t, <1>g, <1>n DEF LocksAreHeld, SlotHolders
  <2> QED BY <2>2, <2>3 DEF LocksAreHeld
<1>4. ASSUME NEW s \in Session, TryRunLock(s) PROVE LocksAreHeld'
  <2>1. CASE runLock[task[s]] = Nobody
    <3>1. /\ pc[s] = "entering" /\ pc' = [pc EXCEPT ![s] = "probing"]
          /\ runLock' = [runLock EXCEPT ![task[s]] = s] /\ UNCHANGED <<slotLock, task>>
      BY <1>4, <2>1 DEF TryRunLock, Goto
    <3>2. RunLockHolders' BY <2>1, <3>1, <1>t, <1>g, <1>n DEF LocksAreHeld, RunLockHolders
    <3>3. SlotHolders' BY <2>1, <3>1, <1>t, <1>g, <1>n DEF LocksAreHeld, SlotHolders
    <3> QED BY <3>2, <3>3 DEF LocksAreHeld
  <2>2. CASE runLock[task[s]] # Nobody
    <3>1. /\ pc[s] = "entering" /\ pc' = [pc EXCEPT ![s] = "refused"]
          /\ UNCHANGED <<runLock, slotLock, task>>
      BY <1>4, <2>2 DEF TryRunLock, Goto
    <3>2. RunLockHolders' BY <3>1, <1>t, <1>g, <1>n DEF LocksAreHeld, RunLockHolders
    <3>3. SlotHolders' BY <3>1, <1>t, <1>g, <1>n DEF LocksAreHeld, SlotHolders
    <3> QED BY <3>2, <3>3 DEF LocksAreHeld
  <2> QED BY <2>1, <2>2
<1>5. ASSUME NEW s \in Session, TrySlot(s) PROVE LocksAreHeld'
  <2> DEFINE t == TenantOf[task[s]]
             k == probe[s]
  <2>1. task[s] \in Run /\ t \in Tenant /\ k \in Slot
    BY <1>5, TaskInRun DEF TrySlot, TypeOK, LocalType
  <2>2. CASE slotLock[t][k] = Nobody
    <3>1. /\ pc[s] = "probing" /\ pc' = [pc EXCEPT ![s] = "locked"]
          /\ slotLock' = [slotLock EXCEPT ![t][k] = s] /\ UNCHANGED <<runLock, task>>
      BY <1>5, <2>2 DEF TrySlot, Goto
    <3>2. RunLockHolders' BY <3>1, <1>t, <1>g DEF LocksAreHeld, RunLockHolders
    <3>3. \A u \in Tenant, j \in Slot :
            slotLock'[u][j] = IF u = t /\ j = k THEN s ELSE slotLock[u][j]
      BY <3>1, <2>1, <1>t
    <3>4. \A u \in Tenant, j \in Slot : slotLock[u][j] # s
      BY <3>1, <1>t, <1>g, <1>n DEF LocksAreHeld, SlotHolders
    <3>5. runLock[task[s]] = s
      BY <3>1 DEF LocksAreHeld, RunLockHolders
    <3> HIDE DEF t, k
    <3>6. ASSUME NEW u \in Tenant, NEW j \in Slot, slotLock'[u][j] # Nobody
          PROVE  LET h == slotLock'[u][j]
                 IN /\ pc'[h] \in Guarded \cup {"leaving"}
                    /\ TenantOf[task'[h]] = u /\ runLock'[task'[h]] = h
                    /\ \A i \in Slot : slotLock'[u][i] = h => i = j
      <4>1. CASE u = t /\ j = k
        BY <4>1, <2>1, <3>1, <3>3, <3>4, <3>5, <1>t, <1>g DEF t
      <4>2. CASE ~(u = t /\ j = k)
        <5>1. slotLock[u][j] # Nobody /\ slotLock'[u][j] = slotLock[u][j] /\ slotLock[u][j] # s
          BY <4>2, <3>3, <3>4, <3>6
        <5> QED BY <5>1, <3>1, <3>3, <1>t, <1>g DEF LocksAreHeld, SlotHolders
      <4> QED BY <4>1, <4>2
    <3>7. ASSUME NEW u \in Session, pc'[u] \in Guarded
          PROVE  \E j \in Slot : slotLock'[TenantOf[task'[u]]][j] = u
      <4>1. CASE u = s BY <4>1, <2>1, <3>1, <3>3 DEF t
      <4>2. CASE u # s
        <5>1. pc[u] \in Guarded /\ TenantOf[task[u]] \in Tenant /\ UNCHANGED task
          BY <4>2, <3>1, <3>7, <1>t, <1>g, TaskInRun
        <5>2. PICK j \in Slot : slotLock[TenantOf[task[u]]][j] = u
          BY <5>1 DEF LocksAreHeld, SlotHolders
        <5> QED BY <5>1, <5>2, <3>3, <2>2, <1>n
      <4> QED BY <4>1, <4>2
    <3>8. SlotHolders' BY <3>6, <3>7 DEF SlotHolders
    <3> QED BY <3>2, <3>8 DEF LocksAreHeld
  <2>3. CASE slotLock[t][k] # Nobody
    <3>1. /\ pc[s] = "probing" /\ (UNCHANGED pc \/ pc' = [pc EXCEPT ![s] = "refused"])
          /\ UNCHANGED <<runLock, slotLock, task>>
      BY <1>5, <2>3 DEF TrySlot, Goto
    <3>2. RunLockHolders' BY <3>1, <1>t, <1>g DEF LocksAreHeld, RunLockHolders
    <3>3. SlotHolders' BY <3>1, <1>t, <1>g DEF LocksAreHeld, SlotHolders
    <3> QED BY <3>2, <3>3 DEF LocksAreHeld
  <2> QED BY <2>2, <2>3
<1>6. ASSUME NEW s \in Session, Refused(s) PROVE LocksAreHeld'
  <2>1. /\ pc[s] = "refused" /\ pc' = [pc EXCEPT ![s] = "leaving"]
        /\ UNCHANGED <<runLock, slotLock, task>>
    BY <1>6 DEF Refused, Goto, locks
  <2>2. RunLockHolders' BY <2>1, <1>t, <1>g DEF LocksAreHeld, RunLockHolders
  <2>3. SlotHolders' BY <2>1, <1>t, <1>g DEF LocksAreHeld, SlotHolders
  <2> QED BY <2>2, <2>3 DEF LocksAreHeld
<1>7. ASSUME NEW s \in Session, UnlockSlot(s) PROVE LocksAreHeld'
  <2>1. /\ pc[s] = "leaving" /\ pc' = [pc EXCEPT ![s] = "unlocking"]
        /\ UNCHANGED <<runLock, task>>
    BY <1>7 DEF UnlockSlot, Goto
  <2>2. \A t \in Tenant, k \in Slot :
          slotLock'[t][k] = IF slotLock[t][k] = s THEN Nobody ELSE slotLock[t][k]
    BY <1>7 DEF UnlockSlot
  <2>3. RunLockHolders' BY <2>1, <1>t, <1>g DEF LocksAreHeld, RunLockHolders
  <2>4. SlotHolders' BY <2>1, <2>2, <1>t, <1>g, <1>n, TaskInRun DEF LocksAreHeld, SlotHolders
  <2> QED BY <2>3, <2>4 DEF LocksAreHeld
<1>8. ASSUME NEW s \in Session, UnlockRun(s) PROVE LocksAreHeld'
  <2>1. /\ pc[s] = "unlocking" /\ pc' = [pc EXCEPT ![s] = "idle"]
        /\ task' = [task EXCEPT ![s] = NoRun] /\ UNCHANGED slotLock
        /\ runLock' = [r \in Run |-> IF runLock[r] = s THEN Nobody ELSE runLock[r]]
    BY <1>8 DEF UnlockRun, DropRunLock, Forget, Goto
  <2>2. RunLockHolders' BY <2>1, <1>t, <1>g, <1>n DEF LocksAreHeld, RunLockHolders
  <2>3. SlotHolders' BY <2>1, <1>t, <1>g, <1>n, TaskInRun DEF LocksAreHeld, SlotHolders
  <2> QED BY <2>2, <2>3 DEF LocksAreHeld
<1>9. ASSUME NEW s \in Session, Crash(s) PROVE LocksAreHeld'
  <2>1. /\ pc' = [pc EXCEPT ![s] = "idle"] /\ task' = [task EXCEPT ![s] = NoRun]
        /\ runLock' = [r \in Run |-> IF runLock[r] = s THEN Nobody ELSE runLock[r]]
    BY <1>9 DEF Crash, DropRunLock, Forget, Goto
  <2>2. \A t \in Tenant, k \in Slot :
          slotLock'[t][k] = IF slotLock[t][k] = s THEN Nobody ELSE slotLock[t][k]
    BY <1>9 DEF Crash
  <2>3. RunLockHolders' BY <2>1, <1>t, <1>g, <1>n DEF LocksAreHeld, RunLockHolders
  <2>4. SlotHolders' BY <2>1, <2>2, <1>t, <1>g, <1>n, TaskInRun DEF LocksAreHeld, SlotHolders
  <2> QED BY <2>3, <2>4 DEF LocksAreHeld
<1> QED
  BY <1>1, <1>2, <1>3, <1>4, <1>5, <1>6, <1>7, <1>8, <1>9, StepShape DEF Guarding

(* The advisory locks are where the guard's callers believe them to be, whatever
   crashes, lapses or is refused. *)
THEOREM LocksHeld == Spec => []LocksAreHeld
<1>1. Init => TypeOK /\ LocksAreHeld
  BY InitType, InitLocks
<1>2. TypeOK /\ LocksAreHeld /\ [Next]_vars => TypeOK' /\ LocksAreHeld'
  BY NextType, NextLocks
<1> QED
  BY <1>1, <1>2, PTL DEF Spec

(* execution_guard admits one session per run: the lock of the run names it. *)
THEOREM OneExecutorAlways == Spec => []OneExecutor
<1>1. LocksAreHeld => OneExecutor
  BY DEF LocksAreHeld, RunLockHolders, OneExecutor
<1> QED
  BY <1>1, LocksHeld, PTL

-----------------------------------------------------------------------------
(* The guard implements RunExecution. *)

(* While a slot of a tenant is free, the sessions inside the guard for that tenant are
   fewer than its slots: each of them holds a slot of its own. *)
LEMMA FreeSlotMeansCapacity ==
  ASSUME TypeOK, LocksAreHeld, NEW t \in Tenant, NEW k \in Slot, slotLock[t][k] = Nobody
  PROVE  Cardinality(Execution!Busy(t)) < SlotLimit
<1> DEFINE B == Execution!Busy(t)
           f == [s \in B |-> CHOOSE j \in Slot : slotLock[t][j] = s]
<1>1. \A s \in B : s \in Session /\ pc[s] \in Guarded /\ TenantOf[task[s]] = t
  BY DEF Execution!Busy, Executing
<1>2. \A s \in B : \E j \in Slot : slotLock[t][j] = s
  BY <1>1 DEF LocksAreHeld, SlotHolders
<1>3. \A s \in B : f[s] \in Slot /\ slotLock[t][f[s]] = s
  BY <1>2
<1>4. \A s \in B : f[s] # k
  BY <1>1, <1>3, ConstantsAssumption DEF ConstantsAssumption
<1> HIDE DEF B
<1>5. f \in [B -> Slot \ {k}]
  BY <1>3, <1>4
<1>6. \A s, u \in B : f[s] = f[u] => s = u
  BY <1>3
<1>7. f \in Injection(B, Slot \ {k})
  <2> HIDE DEF f
  <2> QED BY <1>5, <1>6 DEF Injection, IsInjective
<1>8. SlotLimit \in Nat /\ SlotLimit >= 1
  BY ConstantsAssumption DEF ConstantsAssumption
<1>9. IsFiniteSet(Slot) /\ Cardinality(Slot) = SlotLimit
  BY <1>8, FS_Interval DEF Slot
<1>10. IsFiniteSet(Slot \ {k}) /\ Cardinality(Slot \ {k}) = SlotLimit - 1
  BY <1>9, FS_RemoveElement
<1>11. IsFiniteSet(B) /\ Cardinality(B) <= Cardinality(Slot \ {k})
  <2> HIDE DEF f
  <2> QED BY <1>7, <1>10, FS_Injection
<1>12. Cardinality(B) \in Nat
  BY <1>11, FS_CardinalityType
<1> QED
  BY <1>8, <1>10, <1>11, <1>12 DEF B

(* At first nobody is inside. *)
LEMMA InitRefines == Init => Execution!Init
BY DEF Init, Execution!Init, Executing, Guarded

(* Every step of the code enters the guard, leaves it, or is invisible from outside. *)
LEMMA NextRefines ==
  TypeOK /\ LocksAreHeld /\ [Next]_vars => [Execution!Next]_Executing
<1> SUFFICES ASSUME TypeOK, LocksAreHeld, [Next]_vars PROVE [Execution!Next]_Executing
  OBVIOUS
<1>t. /\ pc \in [Session -> Place] /\ task \in [Session -> Run \cup {NoRun}]
      /\ \A s \in Session : (task[s] = NoRun) <=> (pc[s] = "idle")
  BY DEF TypeOK, SessionType
<1>g. Guarded = {"locked", "confirmed", "entry", "graph", "returned", "failing", "settled", "deferred"}
  BY DEF Guarded
<1>u. ASSUME NEW s \in Session, \A u \in Session \ {s} : pc'[u] = pc[u] /\ task'[u] = task[u],
             pc[s] \notin Guarded, pc'[s] \notin Guarded
      PROVE  UNCHANGED Executing
  BY <1>u DEF Executing
<1>l. ASSUME NEW s \in Session, \A u \in Session \ {s} : pc'[u] = pc[u] /\ task'[u] = task[u],
             pc[s] \in Guarded, pc'[s] \notin Guarded
      PROVE  Execution!Leave(s)
  <2>1. Executing[s] # NoRun BY <1>l, <1>t, <1>g DEF Executing
  <2>2. Executing' = [Executing EXCEPT ![s] = NoRun] BY <1>l DEF Executing
  <2> QED BY <2>1, <2>2 DEF Execution!Leave
<1>1. CASE UNCHANGED <<pc, task, locks>>
  BY <1>1 DEF Executing
<1>2. ASSUME NEW s \in Session, MovesInGuard(s) PROVE [Execution!Next]_Executing
  <2>1. PICK p \in Guarded \cup {"leaving"} :
          pc[s] \in Guarded /\ pc' = [pc EXCEPT ![s] = p] /\ UNCHANGED task
    BY <1>2 DEF MovesInGuard, Goto
  <2>2. CASE p \in Guarded
    <3>1. \A u \in Session : (pc'[u] \in Guarded) <=> (pc[u] \in Guarded)
      BY <2>1, <2>2, <1>t
    <3> QED BY <2>1, <3>1 DEF Executing
  <2>3. CASE p = "leaving"
    BY <2>1, <2>3, <1>t, <1>g, <1>l DEF Execution!Next
  <2> QED BY <2>1, <2>2, <2>3
<1>3. ASSUME NEW s \in Session, NEW r \in Run, Arrives(s, r) PROVE UNCHANGED Executing
  BY <1>3, <1>t, <1>g, <1>u DEF Arrives, Goto
<1>4. ASSUME NEW s \in Session, TryRunLock(s) \/ Refused(s) \/ UnlockSlot(s) \/ UnlockRun(s)
      PROVE  UNCHANGED Executing
  BY <1>4, <1>t, <1>g, <1>u DEF TryRunLock, Refused, UnlockSlot, UnlockRun, Forget, Goto
<1>5. ASSUME NEW s \in Session, TrySlot(s) PROVE [Execution!Next]_Executing
  <2> DEFINE t == TenantOf[task[s]]
             k == probe[s]
  <2>1. task[s] \in Run /\ t \in Tenant /\ k \in Slot
    BY <1>5, TaskInRun DEF TrySlot, TypeOK, LocalType
  <2>2. CASE slotLock[t][k] # Nobody
    BY <1>5, <2>2, <1>t, <1>g, <1>u DEF TrySlot, Goto
  <2>3. CASE slotLock[t][k] = Nobody
    <3>1. pc[s] = "probing" /\ pc' = [pc EXCEPT ![s] = "locked"] /\ UNCHANGED task
      BY <1>5, <2>3 DEF TrySlot, Goto
    <3>2. Executing[s] = NoRun
      BY <3>1, <1>g DEF Executing
    <3>3. \A u \in Session : Executing[u] # task[s]
      <4>1. runLock[task[s]] = s BY <3>1 DEF LocksAreHeld, RunLockHolders
      <4>2. \A u \in Session : pc[u] \in Guarded => runLock[task[u]] = u
        BY DEF LocksAreHeld, RunLockHolders
      <4>3. NoRun \notin Run BY ConstantsAssumption DEF ConstantsAssumption
      <4> QED BY <2>1, <3>1, <4>1, <4>2, <4>3, <1>g DEF Executing
    <3>4. Cardinality(Execution!Busy(t)) < SlotLimit
      BY <2>1, <2>3, FreeSlotMeansCapacity
    <3>5. Executing' = [Executing EXCEPT ![s] = task[s]]
      BY <3>1, <1>t, <1>g DEF Executing
    <3>c. \A S : Execution!Cardinality(S) = Cardinality(S)
      BY DEF Execution!Cardinality, Cardinality, Execution!IsFiniteSet, IsFiniteSet
    <3>6. Execution!Enter(s, task[s])
      BY <3>2, <3>3, <3>4, <3>5, <3>c DEF Execution!Enter
    <3> QED BY <2>1, <3>6 DEF Execution!Next
  <2> QED BY <2>2, <2>3
<1>6. ASSUME NEW s \in Session, Crash(s) PROVE [Execution!Next]_Executing
  BY <1>6, <1>t, <1>g, <1>u, <1>l DEF Crash, Forget, Goto, Execution!Next
<1> QED
  BY <1>1, <1>2, <1>3, <1>4, <1>5, <1>6, StepShape DEF Guarding

(* The sessions inside execution_guard behave like those of RunExecution: never two on a
   run, never more of a tenant than SlotLimit. *)
THEOREM GuardImplementsRunExecution == Spec => ImplementsRunExecution
<1>1. Spec => [](TypeOK /\ LocksAreHeld)
  BY TypeCorrect, LocksHeld, PTL
<1> QED
  BY <1>1, InitRefines, NextRefines, PTL DEF Spec, ImplementsRunExecution, Execution!Spec

-----------------------------------------------------------------------------
(* What may happen to a run's row. *)

(* Only s moves, and a checkpoint that changes becomes the node s is at. *)
Alone(s) == \A u \in Session \ {s} : ~Moves(u)
StageFollows(s) ==
  \A r \in Run : stage'[r] # stage[r] => r = task[s] /\ pc[s] = "graph" /\ stage'[r] = at[s]

(* A session inside the guard, and nobody else in that step, writes to its own run only,
   never over a cancellation and never over a decision. *)
WritesItsRun(s) ==
  LET r == task[s]
  IN /\ pc[s] \in Guarded /\ UNCHANGED locks
     /\ Alone(s) /\ StageFollows(s)
     /\ \A q \in Run \ {r} : UNCHANGED <<status[q], decision[q], stage[q]>>
     /\ status'[r] # status[r] \/ decision'[r] # decision[r] => Moves(s)
     /\ status[r] = "cancelled" => status'[r] = status[r]
     /\ decision[r] # "none" => decision'[r] = decision[r]

(* To the rows, all that a step can do is one of these. *)
LEMMA RowShape ==
  ASSUME TypeOK, [Next]_vars
  PROVE  UNCHANGED row \/ (\E s \in Session : WritesItsRun(s)) \/ (\E r \in Run : CancelRun(r))
<1> DEFINE Shape == \/ UNCHANGED row
                    \/ \E s \in Session : WritesItsRun(s)
                    \/ \E r \in Run : CancelRun(r)
<1>w. Worker \subseteq Session /\ Api \subseteq Session
  BY DEF Session
<1>t. \A s \in Session : pc[s] \in Guarded => task[s] \in Run
  BY TaskInRun DEF Guarded
<1>r. status \in [Run -> Status] /\ decision \in [Run -> Decision \cup {"none"}] /\ stage \in [Run -> Node]
  BY DEF TypeOK, RowType
<1>p. pc \in [Session -> Place] /\ at \in [Session -> Node]
  BY DEF TypeOK, SessionType, LocalType
<1>a. ASSUME NEW s \in Session, UNCHANGED pc \/ (\E place \in Place : Goto(s, place)),
             UNCHANGED at \/ (\E node \in Node : at' = [at EXCEPT ![s] = node])
      PROVE  Alone(s)
  BY <1>a, <1>p DEF Alone, Moves, Goto
<1>1. ASSUME NEW s \in Session, NEW new, pc[s] \in Guarded, UNCHANGED <<decision, locks>>,
             ~Refuses(task[s], new), UpdateRun(task[s], new),
             Alone(s), Moves(s), StageFollows(s)
      PROVE  WritesItsRun(s)
  BY <1>1, <1>t, <1>r DEF WritesItsRun, StageFollows, Refuses, UpdateRun, locks
<1>2. ASSUME NEW s \in Session, pc[s] \in Guarded, UNCHANGED <<status, decision, locks>>,
             Alone(s), StageFollows(s)
      PROVE  WritesItsRun(s)
  BY <1>2, <1>t DEF WritesItsRun, StageFollows, locks
<1>3. "graph" \in Guarded /\ "locked" \in Guarded /\ "failing" \in Guarded
  BY DEF Guarded
<1>n. \A s \in Session : Stopped(s) \in Place \ {"graph", "locked", "failing"}
                          /\ Returned(s) \in Place \ {"graph", "locked", "failing"}
  BY DEF Stopped, Returned, Place
<1>4. ASSUME NEW s \in Session, NEW node \in Node, NEW new, NEW next \in Node \ {node},
             Visit(s, node, new, next) \/ Move(s, node, next)
      PROVE  Shape
  <2>1. CASE Visit(s, node, new, next) /\ ~Refuses(task[s], new)
    <3>1. Alone(s) /\ Moves(s) /\ StageFollows(s)
      BY <1>a, <1>p, <2>1 DEF Visit, Moves, StageFollows
    <3> QED BY <1>1, <1>3, <2>1, <3>1 DEF Visit
  <2>2. CASE ~(Visit(s, node, new, next) /\ ~Refuses(task[s], new))
    BY <1>4, <2>2 DEF Visit, Move, row
  <2> QED BY <2>1, <2>2
<1>5. ASSUME NEW s \in Session, pc[s] = "graph", Pause(s), UNCHANGED at
      PROVE  Alone(s) /\ Moves(s) /\ StageFollows(s)
  <2>1. Alone(s) BY <1>5, <1>a, <1>n DEF Pause
  <2>2. Moves(s) BY <1>5, <1>n, <1>p DEF Pause, Goto, Moves
  <2>3. StageFollows(s) BY <1>5, <1>r DEF Pause, StageFollows
  <2> QED BY <2>1, <2>2, <2>3
<1>6. ASSUME NEW s \in Session, Graph(s) PROVE Shape
  <2>1. CASE Route(s) BY <2>1, <1>4 DEF Route, Node
  <2>2. CASE Pipeline(s)
    <3>1. PICK next \in {"action", "escalate", "finalize"} : Move(s, "pipeline", next)
      BY <2>2 DEF Pipeline
    <3> QED BY <3>1 DEF Move, row
  <2>3. CASE ProposeAction(s) BY <2>3, <1>4 DEF ProposeAction, Node
  <2>4. CASE Approval(s)
    <3>1. CASE answer[s] \in {"none", "rederiving"}
      BY <1>2, <1>3, <1>5, <2>4, <3>1 DEF Approval
    <3>2. CASE answer[s] \notin {"none", "rederiving"}
      BY <2>4, <3>2 DEF Approval, row
    <3> QED BY <3>1, <3>2
  <2>5. CASE Execute(s) BY <2>5 DEF Execute, Move, row
  <2>6. CASE Escalate(s)
    <3>1. CASE Refuses(task[s], "waiting_review") BY <2>6, <3>1 DEF Escalate, row
    <3>2. CASE ~Refuses(task[s], "waiting_review") /\ answer[s] \notin Decision \cup Resolution
      BY <1>1, <1>3, <1>5, <2>6, <3>2 DEF Escalate
    <3>3. CASE ~Refuses(task[s], "waiting_review") /\ answer[s] \in Decision \cup Resolution
      <4>1. PICK node \in {"finalize", "decline"} : at' = [at EXCEPT ![s] = node]
        BY <2>6, <3>3 DEF Escalate
      <4>2. Alone(s) /\ Moves(s) /\ StageFollows(s)
        BY <1>a, <1>p, <2>6, <3>3, <4>1 DEF Escalate, Moves, StageFollows, Node
      <4> QED BY <1>1, <1>3, <2>6, <3>3, <4>2 DEF Escalate
    <3> QED BY <3>1, <3>2, <3>3
  <2>7. CASE Finalize(s)
    <3>1. \/ Visit(s, "decline", "cancelled", "end")
          \/ \E new \in Terminal : Visit(s, "finalize", new, "end")
      BY <2>7 DEF Finalize
    <3>2. /\ "decline" \in Node /\ "end" \in Node \ {"decline"}
          /\ "finalize" \in Node /\ "end" \in Node \ {"finalize"}
      BY DEF Node
    <3> QED BY <3>1, <3>2, <1>4
  <2>8. CASE GraphEnds(s) BY <2>8, <1>2, <1>3, <1>5 DEF GraphEnds, local
  <2> QED BY <1>6, <2>1, <2>2, <2>3, <2>4, <2>5, <2>6, <2>7, <2>8 DEF Graph
<1>7. ASSUME NEW s \in Session, RecordFailure(s) PROVE Shape
  <2>1. Alone(s) /\ Moves(s) /\ StageFollows(s)
    <3>1. Alone(s) BY <1>7, <1>a, <1>n DEF RecordFailure, local
    <3>2. Moves(s) BY <1>7, <1>n, <1>p DEF RecordFailure, Goto, Moves
    <3> QED BY <1>7, <3>1, <3>2 DEF RecordFailure, StageFollows
  <2> QED BY <1>1, <1>3, <1>7, <2>1 DEF RecordFailure, row
<1>8. ASSUME NEW s \in Session, Checkpoint(s) PROVE Shape
  <2>1. Alone(s) BY <1>8, <1>a DEF Checkpoint, local
  <2>2. StageFollows(s) BY <1>8, <1>r DEF Checkpoint, StageFollows
  <2> QED BY <1>2, <1>3, <1>8, <2>1, <2>2 DEF Checkpoint
<1>i. ASSUME NEW s \in Session, NEW d, pc[s] = "locked", Invoke(s, d), UNCHANGED <<task, stage>>
      PROVE  Alone(s) /\ Moves(s) /\ StageFollows(s)
  <2>1. stage[task[s]] \in Node BY <1>i, <1>3, <1>r, <1>t
  <2>2. Alone(s) BY <1>i, <1>a, <2>1 DEF Invoke, Place
  <2> QED BY <1>i, <1>p, <2>2 DEF Invoke, Goto, Moves, StageFollows
<1>9. ASSUME NEW a \in Api, RecordApproval(a) PROVE Shape
  <2>1. CASE decision[task[a]] = "none" /\ status[task[a]] = "waiting_approval"
    <3>1. Alone(a) /\ Moves(a) /\ StageFollows(a)
      BY <1>9, <1>i, <1>w, <2>1 DEF RecordApproval
    <3> QED BY <1>3, <1>9, <1>r, <1>t, <1>w, <2>1, <3>1 DEF RecordApproval, UpdateRun, WritesItsRun
  <2>2. CASE ~(decision[task[a]] = "none" /\ status[task[a]] = "waiting_approval")
    BY <1>9, <2>2 DEF RecordApproval, row
  <2> QED BY <2>1, <2>2
<1>10. ASSUME NEW a \in Api, ApplyReview(a) PROVE Shape
  <2>1. CASE Refuses(task[a], "running") BY <1>10, <2>1 DEF ApplyReview, row
  <2>2. CASE ~Refuses(task[a], "running")
    <3>1. Alone(a) /\ Moves(a) /\ StageFollows(a)
      BY <1>10, <1>i, <1>w, <2>2 DEF ApplyReview
    <3> QED BY <1>1, <1>3, <1>10, <1>w, <2>2, <3>1 DEF ApplyReview
  <2> QED BY <2>1, <2>2
<1>11. ASSUME NEW w \in Worker,
              \/ Confirm(w) \/ Recheck(w) \/ EnterGraph(w) \/ Inspect(w) \/ Settle(w)
              \/ HeartbeatLost(w) \/ Interrupted(w) \/ Blocked(w) \/ ApprovalVoid(w)
              \/ \E r \in Run : Claim(w, r)
       PROVE UNCHANGED row
  BY <1>11 DEF Confirm, Recheck, EnterGraph, Inspect, Settle, HeartbeatLost, Interrupted, Abandon,
              Blocked, ApprovalVoid, Claim
<1>12. ASSUME NEW a \in Api,
              \/ ApiBlocked(a) \/ ApiVoid(a)
              \/ \E r \in Run, d \in Decision \cup Resolution : Request(a, r, d)
       PROVE UNCHANGED row
  BY <1>12 DEF ApiBlocked, ApiVoid, Request
<1>13. ASSUME NEW s \in Session, Guarding(s) \/ NodeRaises(s) \/ Crash(s) PROVE UNCHANGED row
  BY <1>13 DEF Guarding, TryRunLock, TrySlot, Refused, UnlockSlot, UnlockRun, NodeRaises, Crash
<1>14. ASSUME NEW r \in Run, Lapse(r) PROVE UNCHANGED row
  BY <1>14 DEF Lapse
<1>15. CASE UNCHANGED vars
  BY <1>15 DEF vars
<1> QED
  BY <1>w, <1>6, <1>7, <1>8, <1>9, <1>10, <1>11, <1>12, <1>13, <1>14, <1>15
     DEF Next, WorkerStep, ApiStep

(* No step of any actor takes a cancelled run to another status. *)
THEOREM CancellationHolds == Spec => CancelledIsFinal
<1>1. ASSUME TypeOK, [Next]_vars, NEW r \in Run, status[r] = "cancelled" PROVE status'[r] = "cancelled"
  <2>1. CASE UNCHANGED row BY <1>1, <2>1 DEF row
  <2>2. ASSUME NEW s \in Session, WritesItsRun(s) PROVE status'[r] = "cancelled"
    BY <1>1, <2>2 DEF WritesItsRun
  <2>3. ASSUME NEW q \in Run, CancelRun(q) PROVE status'[r] = "cancelled"
    BY <1>1, <2>3 DEF CancelRun, UpdateRun, TypeOK, RowType
  <2> QED BY <1>1, <2>1, <2>2, <2>3, RowShape
<1>2. TypeOK /\ [Next]_vars => [\A r \in Run : status[r] = "cancelled" => status'[r] = "cancelled"]_vars
  BY <1>1
<1> QED
  BY <1>2, TypeCorrect, PTL DEF Spec, CancelledIsFinal

(* No step of any actor replaces a recorded decision. *)
THEOREM DecisionHolds == Spec => DecisionIsFinal
<1>1. ASSUME TypeOK, [Next]_vars, NEW r \in Run, decision[r] # "none" PROVE decision'[r] = decision[r]
  <2>1. CASE UNCHANGED row BY <1>1, <2>1 DEF row
  <2>2. ASSUME NEW s \in Session, WritesItsRun(s) PROVE decision'[r] = decision[r]
    BY <1>1, <2>2 DEF WritesItsRun
  <2>3. ASSUME NEW q \in Run, CancelRun(q) PROVE decision'[r] = decision[r]
    BY <1>1, <2>3 DEF CancelRun, UpdateRun, TypeOK, RowType
  <2> QED BY <1>1, <2>1, <2>2, <2>3, RowShape
<1>2. TypeOK /\ [Next]_vars => [\A r \in Run : decision[r] # "none" => decision'[r] = decision[r]]_vars
  BY <1>1
<1> QED
  BY <1>2, TypeCorrect, PTL DEF Spec, DecisionIsFinal

(* Whoever writes a run's row or checkpoint is the session that holds its execution lock,
   before and after the write; the cancel endpoint alone writes past it. *)
THEOREM WritersHold == Spec => WritersHoldTheRun
<1>1. ASSUME TypeOK, LocksAreHeld, [Next]_vars, NEW r \in Run
      PROVE  RowKept(r) \/ CancelledFromOutside(r) \/ WrittenByHolder(r)
  <2>1. CASE UNCHANGED row BY <2>1 DEF row, RowKept
  <2>2. ASSUME NEW s \in Session, WritesItsRun(s), r = task[s] PROVE WrittenByHolder(r)
    <3>1. runLock[r] = s /\ runLock'[r] = s
      BY <1>1, <2>2 DEF WritesItsRun, LocksAreHeld, RunLockHolders, locks
    <3> QED BY <1>1, <2>2, <3>1 DEF WritesItsRun, Alone, StageFollows, WrittenByHolder
  <2>3. ASSUME NEW s \in Session, WritesItsRun(s), r # task[s] PROVE RowKept(r)
    BY <1>1, <2>3 DEF WritesItsRun, RowKept
  <2>4. ASSUME NEW q \in Run, CancelRun(q) PROVE RowKept(r) \/ CancelledFromOutside(r)
    BY <1>1, <2>4 DEF CancelRun, UpdateRun, TypeOK, RowType, Moves, local, RowKept, CancelledFromOutside
  <2> QED BY <1>1, <2>1, <2>2, <2>3, <2>4, RowShape
<1>2. TypeOK /\ LocksAreHeld /\ [Next]_vars =>
        [\A r \in Run : RowKept(r) \/ CancelledFromOutside(r) \/ WrittenByHolder(r)]_vars
  BY <1>1
<1> QED
  BY <1>2, TypeCorrect, LocksHeld, PTL DEF Spec, WritersHoldTheRun

-----------------------------------------------------------------------------
(* What may happen to a run's lease. *)

(* The expiry of a run that had passed lies ahead again. *)
Revived(r) == ~leaseLive[r] /\ leaseLive'[r]

(* A worker that gives its run up leaves a delay without an owner; the leases of other runs
   do not move. *)
LEMMA ReleaseRevives ==
  ASSUME TypeOK, NEW w \in Worker, NEW d \in BOOLEAN, task[w] \in Run, Release(w, task[w], d),
         NEW r \in Run, Revived(r)
  PROVE  leaseOwner'[r] = Nobody
BY DEF Release, Revived, TypeOK, LeaseType, lease

(* A renewal never makes a lapsed lease live again, whatever became of its owner meanwhile:
   an expiry moves forward only by a new claim, or by the delay an owner leaves that gives
   the run up. *)
THEOREM LostLeasesStayLost == Spec => LostLeaseStaysLost
<1> DEFINE Legal(r) == \/ leaseOwner'[r] = Nobody
                       \/ \E w \in Worker : leaseOwner'[r] = w /\ pc[w] = "idle" /\ task'[w] = r
<1>1. ASSUME TypeOK, [Next]_vars, NEW r \in Run, Revived(r) PROVE Legal(r)
  <2>w. Worker \subseteq Session /\ Api \subseteq Session
    BY DEF Session
  <2>t. \A s \in Session : pc[s] # "idle" => task[s] \in Run
    BY <1>1, TaskInRun
  <2>l. leaseOwner \in [Run -> Worker \cup {Nobody}] /\ leaseLive \in [Run -> BOOLEAN]
    BY <1>1 DEF TypeOK, LeaseType
  <2>u. ~UNCHANGED leaseLive
    BY <1>1 DEF Revived
  <2>1. ASSUME NEW w \in Worker, NEW q \in Run, Claim(w, q) PROVE Legal(r)
    <3>1. r = q
      BY <1>1, <2>1, <2>l DEF Claim, Revived
    <3>2. task \in [Session -> Run \cup {NoRun}]
      BY <1>1 DEF TypeOK, SessionType
    <3> QED
      BY <2>1, <2>l, <2>w, <3>1, <3>2 DEF Claim
  <2>2. ASSUME NEW s \in Session, Guarding(s) PROVE Legal(r)
    <3>1. Refused(s)
      BY <2>2, <2>u DEF Guarding, TryRunLock, TrySlot, UnlockSlot, UnlockRun, lease
    <3>2. s \in Worker /\ task[s] \in Run /\ Release(s, task[s], TRUE)
      BY <2>t, <2>u, <3>1 DEF Refused, lease
    <3> QED
      BY <1>1, <3>2, ReleaseRevives
  <2>3. ASSUME NEW w \in Worker, Confirm(w) PROVE FALSE
    BY <1>1, <2>3, <2>l, <2>t, <2>w DEF Confirm, Renewable, Revived
  <2>4. ASSUME NEW w \in Worker, Recheck(w) PROVE Legal(r)
    <3>1. task[w] \in Run /\ Release(w, task[w], FALSE)
      BY <2>4, <2>t, <2>u, <2>w DEF Recheck, lease
    <3> QED
      BY <1>1, <3>1, ReleaseRevives
  <2>5. ASSUME NEW w \in Worker, Settle(w) PROVE Legal(r)
    <3>1. task[w] \in Run /\ Release(w, task[w], pc[w] = "deferred")
      BY <2>5, <2>t, <2>w DEF Settle
    <3> QED
      BY <1>1, <3>1, ReleaseRevives
  <2>6. ASSUME NEW q \in Run, Lapse(q) PROVE FALSE
    BY <1>1, <2>6, <2>l DEF Lapse, Revived
  <2>7. ASSUME NEW s \in Session, Graph(s) PROVE FALSE
    BY <2>7, <2>u DEF Graph, Route, Pipeline, ProposeAction, Approval, Execute, Escalate, Finalize,
                      GraphEnds, Visit, Move, lease
  <2>8. ASSUME NEW s \in Session, RecordFailure(s) \/ Checkpoint(s) \/ NodeRaises(s) \/ Crash(s)
        PROVE FALSE
    BY <2>8, <2>u DEF RecordFailure, Checkpoint, NodeRaises, Crash, lease
  <2>9. ASSUME NEW w \in Worker,
               \/ EnterGraph(w) \/ Inspect(w) \/ HeartbeatLost(w) \/ Interrupted(w)
               \/ Blocked(w) \/ ApprovalVoid(w)
        PROVE FALSE
    BY <2>9, <2>u DEF EnterGraph, Inspect, HeartbeatLost, Interrupted, Abandon, Blocked, ApprovalVoid, lease
  <2>10. ASSUME NEW a \in Api,
                \/ RecordApproval(a) \/ ApplyReview(a) \/ ApiBlocked(a) \/ ApiVoid(a)
                \/ \E q \in Run, d \in Decision \cup Resolution : Request(a, q, d)
         PROVE FALSE
    BY <2>10, <2>u DEF RecordApproval, ApplyReview, ApiBlocked, ApiVoid, Request, lease
  <2>11. ASSUME NEW q \in Run, CancelRun(q) PROVE FALSE
    BY <2>11, <2>u DEF CancelRun, lease
  <2>12. CASE UNCHANGED vars
    BY <2>12, <2>u DEF vars, lease
  <2> QED
    BY <1>1, <2>w, <2>1, <2>2, <2>3, <2>4, <2>5, <2>6, <2>7, <2>8, <2>9, <2>10, <2>11, <2>12
       DEF Next, WorkerStep, ApiStep
<1>2. TypeOK /\ [Next]_vars
        => [\A r \in Run : ~leaseLive[r] /\ leaseLive'[r] =>
              \/ leaseOwner'[r] = Nobody
              \/ \E w \in Worker : leaseOwner'[r] = w /\ pc[w] = "idle" /\ task'[w] = r]_vars
  BY <1>1 DEF Revived
<1> QED
  BY <1>2, TypeCorrect, PTL DEF Spec, LostLeaseStaysLost

-----------------------------------------------------------------------------
(* Only approved runs execute. *)

(* A step of s that brings nobody to the write step but by an approved answer. *)
Harmless(s) ==
  /\ \A u \in Session \ {s} :
       pc'[u] = "graph" => /\ pc[u] = "graph" /\ task'[u] = task[u]
                           /\ at'[u] = at[u] /\ answer'[u] = answer[u]
  /\ \A r \in Run : stage'[r] = "execute" =>
       stage[r] = "execute" \/ (pc[s] = "graph" /\ at[s] = "execute" /\ task[s] = r)
  /\ pc'[s] = "graph" =>
       /\ pc[s] = "graph" /\ task'[s] = task[s]
       /\ at'[s] = "execute" => at[s] = "execute" \/ answer[s] = "approved"
       /\ answer'[s] = "approved" => answer[s] = "approved"

(* An invocation that answers "approved" only for an approved run. *)
Honest(s) ==
  \E d \in Answer :
    /\ Invoke(s, d) /\ UNCHANGED <<task, stage>>
    /\ d = "approved" => decision'[task[s]] = "approved"

(* An approval is never taken back. *)
LEMMA ApprovalStays ==
  ASSUME TypeOK, [Next]_vars, NEW r \in Run, decision[r] = "approved"
  PROVE  decision'[r] = "approved"
<1>1. CASE UNCHANGED row BY <1>1 DEF row
<1>2. ASSUME NEW s \in Session, WritesItsRun(s) PROVE decision'[r] = decision[r]
  BY <1>2 DEF WritesItsRun
<1>3. ASSUME NEW q \in Run, CancelRun(q) PROVE decision'[r] = decision[r]
  BY <1>3 DEF CancelRun
<1> QED BY <1>1, <1>2, <1>3, RowShape

(* A harmless step and an honest invocation keep the write step to approved runs. *)
LEMMA HarmlessKeeps ==
  ASSUME TypeOK, OnlyApprovedExecutes, [Next]_vars, NEW s \in Session, Harmless(s) \/ Honest(s)
  PROVE  OnlyApprovedExecutes'
<1>d. \A r \in Run : decision[r] = "approved" => decision'[r] = "approved"
  BY ApprovalStays
<1>t. \A u \in Session : pc[u] = "graph" => task[u] \in Run
  BY TaskInRun
<1>1. CASE Harmless(s)
  BY <1>1, <1>d, <1>t DEF Harmless, OnlyApprovedExecutes
<1>2. CASE Honest(s)
  <2>1. PICK d \in Answer : /\ Invoke(s, d) /\ UNCHANGED <<task, stage>>
                            /\ d = "approved" => decision'[task[s]] = "approved"
    BY <1>2 DEF Honest
  <2> DEFINE v == CASE stage[task[s]] = "approval" /\ d \in Decision \cup {"voided"} -> d
                    [] stage[task[s]] = "escalate" /\ d \in Resolution -> d
                    [] OTHER -> "none"
  <2>2. /\ pc' = [pc EXCEPT ![s] = "graph"]
        /\ at' = [at EXCEPT ![s] = stage[task[s]]]
        /\ answer' = [answer EXCEPT ![s] = v]
    BY <2>1 DEF Invoke, Goto
  <2>3. v = "approved" => d = "approved"
    OBVIOUS
  <2> HIDE DEF v
  <2>4. pc \in [Session -> Place] /\ at \in [Session -> Node] /\ answer \in [Session -> Answer]
    BY DEF TypeOK, SessionType, LocalType
  <2>5. ASSUME stage[task[s]] = "execute" PROVE decision'[task[s]] = "approved"
    <3>1. pc[s] # "idle" => task[s] \in Run BY TaskInRun
    <3>2. CASE pc[s] # "idle" BY <2>5, <3>1, <3>2, <1>d DEF OnlyApprovedExecutes
    <3>3. CASE pc[s] = "idle"
      BY <3>3, <2>1, NextType DEF TypeOK, SessionType, Invoke, Goto, Place
    <3> QED BY <3>2, <3>3
  <2> QED
    BY <1>d, <1>t, <2>1, <2>2, <2>3, <2>4, <2>5 DEF OnlyApprovedExecutes
<1> QED BY <1>1, <1>2

(* To the write step, every step is one of these. *)
LEMMA ExecuteShape ==
  ASSUME TypeOK, [Next]_vars
  PROVE  (\E s \in Session : Harmless(s) \/ Honest(s)) \/ UNCHANGED <<pc, task, at, answer, stage>>
<1> DEFINE Shape == (\E s \in Session : Harmless(s) \/ Honest(s))
                      \/ UNCHANGED <<pc, task, at, answer, stage>>
<1>w. Worker \subseteq Session /\ Api \subseteq Session
  BY DEF Session
<1>t. /\ pc \in [Session -> Place] /\ at \in [Session -> Node] /\ answer \in [Session -> Answer]
      /\ task \in [Session -> Run \cup {NoRun}] /\ stage \in [Run -> Node]
      /\ \A s \in Session : pc[s] # "idle" => task[s] \in Run
  BY TaskInRun DEF TypeOK, RowType, SessionType, LocalType
<1>q. \A s \in Session : Stopped(s) # "graph" /\ Returned(s) # "graph"
  BY DEF Stopped, Returned
<1>l. ASSUME NEW s \in Session, NEW p, p # "graph", Goto(s, p), UNCHANGED <<task, at, answer, stage>>
      PROVE  Harmless(s)
  BY <1>l, <1>t DEF Harmless, Goto
<1>p. ASSUME NEW s \in Session, pc[s] = "graph", Pause(s), UNCHANGED <<task, at, answer>>
      PROVE  Harmless(s)
  BY <1>p, <1>t, <1>q DEF Harmless, Pause, Goto
<1>v. ASSUME NEW s \in Session, NEW node, NEW new, NEW next, next # "execute",
             Visit(s, node, new, next) \/ Move(s, node, next)
      PROVE  Harmless(s)
  <2>1. CASE Visit(s, node, new, next) /\ Refuses(task[s], new)
    BY <1>l, <1>q, <2>1 DEF Visit, local
  <2>2. CASE Visit(s, node, new, next) /\ ~Refuses(task[s], new)
    BY <1>t, <1>v, <2>2 DEF Visit, Harmless
  <2>3. CASE Move(s, node, next)
    BY <1>t, <1>v, <2>3 DEF Move, Harmless, row
  <2> QED BY <1>v, <2>1, <2>2, <2>3
<1>1. ASSUME NEW s \in Session, Graph(s) PROVE Harmless(s)
  <2>1. CASE Route(s) BY <2>1, <1>v DEF Route
  <2>2. CASE Pipeline(s) BY <2>2, <1>v DEF Pipeline
  <2>3. CASE ProposeAction(s) BY <2>3, <1>v DEF ProposeAction
  <2>4. CASE Execute(s)
    <3>1. CASE answer[s] = "rederiving" BY <2>4, <3>1, <1>l DEF Execute, row, local
    <3>2. CASE answer[s] # "rederiving" BY <2>4, <1>v, <3>2 DEF Execute
    <3> QED BY <3>1, <3>2
  <2>5. CASE Finalize(s) BY <2>5, <1>v DEF Finalize
  <2>6. CASE GraphEnds(s) BY <2>6, <1>p DEF GraphEnds, local
  <2>7. CASE Approval(s)
    <3>1. CASE answer[s] \in {"none", "rederiving"} BY <2>7, <3>1, <1>p DEF Approval
    <3>2. CASE answer[s] \notin {"none", "rederiving"}
      <4>1. /\ pc[s] = "graph" /\ UNCHANGED <<pc, task, stage>>
            /\ at' = [at EXCEPT ![s] = AfterApproval(answer[s])]
            /\ answer' = [answer EXCEPT ![s] = IF @ = "voided" THEN "rederiving" ELSE "none"]
        BY <2>7, <3>2 DEF Approval
      <4>2. AfterApproval(answer[s]) = "execute" => answer[s] = "approved"
        BY DEF AfterApproval
      <4> QED BY <4>1, <4>2, <1>t DEF Harmless
    <3> QED BY <3>1, <3>2
  <2>8. CASE Escalate(s)
    <3>1. CASE Refuses(task[s], "waiting_review") BY <2>8, <3>1, <1>l, <1>q DEF Escalate
    <3>2. CASE ~Refuses(task[s], "waiting_review") /\ answer[s] \notin Decision \cup Resolution
      BY <2>8, <3>2, <1>p DEF Escalate
    <3>3. CASE ~Refuses(task[s], "waiting_review") /\ answer[s] \in Decision \cup Resolution
      <4>1. /\ pc[s] = "graph" /\ UNCHANGED <<pc, task, stage>>
            /\ at' = [at EXCEPT ![s] = IF answer[s] = "stop" THEN "decline" ELSE "finalize"]
            /\ answer' = [answer EXCEPT ![s] = "none"]
        BY <2>8, <3>3 DEF Escalate
      <4> QED BY <4>1, <1>t DEF Harmless
    <3> QED BY <3>1, <3>2, <3>3
  <2> QED BY <1>1, <2>1, <2>2, <2>3, <2>4, <2>5, <2>6, <2>7, <2>8 DEF Graph
<1>2. ASSUME NEW s \in Session, RecordFailure(s) \/ NodeRaises(s) PROVE Harmless(s)
  BY <1>2, <1>l, <1>q DEF RecordFailure, NodeRaises, row, local
<1>3. ASSUME NEW s \in Session, Checkpoint(s) PROVE Harmless(s)
  BY <1>3, <1>t DEF Checkpoint, Harmless, local
<1>4. ASSUME NEW w \in Worker,
             \/ Confirm(w) \/ Recheck(w) \/ Inspect(w) \/ Settle(w)
             \/ HeartbeatLost(w) \/ Interrupted(w) \/ Blocked(w) \/ ApprovalVoid(w)
      PROVE Harmless(w)
  BY <1>4, <1>l, <1>w DEF Confirm, Recheck, Inspect, Settle, HeartbeatLost, Interrupted, Abandon,
                          Blocked, ApprovalVoid, row, local
<1>5. ASSUME NEW w \in Worker, NEW r \in Run, Claim(w, r) PROVE Harmless(w)
  BY <1>5, <1>t, <1>w DEF Claim, Harmless, Goto, row, local
<1>6. ASSUME NEW a \in Api, NEW r \in Run, NEW d \in Decision \cup Resolution, Request(a, r, d)
      PROVE Harmless(a)
  BY <1>6, <1>t, <1>w DEF Request, Harmless, Goto, row
<1>7. ASSUME NEW w \in Worker, EnterGraph(w) PROVE Honest(w)
  <2>1. decision[task[w]] \in Answer
    BY <1>7, <1>t, <1>w DEF EnterGraph, TypeOK, RowType, Answer
  <2> QED BY <1>7, <2>1 DEF EnterGraph, Honest, row
<1>8. ASSUME NEW a \in Api, ApiVoid(a) PROVE Honest(a)
  BY <1>8 DEF ApiVoid, Honest, Answer, row
<1>9. ASSUME NEW a \in Api, ApiBlocked(a) PROVE Harmless(a)
  BY <1>9, <1>l, <1>w DEF ApiBlocked, row, local
<1>10. ASSUME NEW a \in Api, RecordApproval(a) PROVE Harmless(a) \/ Honest(a)
  <2>1. CASE decision[task[a]] = "none" /\ status[task[a]] = "waiting_approval"
    <3>1. task[a] \in Run /\ answer[a] \in Answer
      BY <1>10, <1>t, <1>w DEF RecordApproval
    <3>2. decision' = [decision EXCEPT ![task[a]] = answer[a]] /\ decision \in [Run -> Decision \cup {"none"}]
      BY <1>10, <2>1 DEF RecordApproval, TypeOK, RowType
    <3> QED BY <1>10, <2>1, <3>1, <3>2 DEF RecordApproval, Honest
  <2>2. CASE ~(decision[task[a]] = "none" /\ status[task[a]] = "waiting_approval")
    BY <1>10, <1>l, <1>w, <2>2 DEF RecordApproval
  <2> QED BY <2>1, <2>2
<1>11. ASSUME NEW a \in Api, ApplyReview(a) PROVE Harmless(a) \/ Honest(a)
  <2>1. CASE Refuses(task[a], "running") BY <1>11, <1>l, <1>w, <2>1 DEF ApplyReview
  <2>2. CASE ~Refuses(task[a], "running")
    BY <1>11, <2>2 DEF ApplyReview, Honest, Resolution, Answer
  <2> QED BY <2>1, <2>2
<1>12. ASSUME NEW s \in Session, Guarding(s) PROVE Harmless(s)
  <2>1. CASE TryRunLock(s) BY <2>1, <1>l DEF TryRunLock, row, local
  <2>2. CASE TrySlot(s) BY <2>2, <1>t DEF TrySlot, Harmless, Goto, row
  <2>3. CASE Refused(s) BY <2>3, <1>l DEF Refused, row, local
  <2>4. CASE UnlockSlot(s) BY <2>4, <1>l DEF UnlockSlot, row, local
  <2>5. CASE UnlockRun(s) BY <2>5, <1>t DEF UnlockRun, Forget, Harmless, Goto, row
  <2> QED BY <1>12, <2>1, <2>2, <2>3, <2>4, <2>5 DEF Guarding
<1>13. ASSUME NEW s \in Session, Crash(s) PROVE Harmless(s)
  BY <1>13, <1>t DEF Crash, Forget, Harmless, Goto, row
<1>14. ASSUME NEW r \in Run, CancelRun(r) \/ Lapse(r) PROVE Shape
  BY <1>14 DEF CancelRun, Lapse, row, local
<1>15. CASE UNCHANGED vars
  BY <1>15 DEF vars, row, local
<1> QED
  BY <1>w, <1>1, <1>2, <1>3, <1>4, <1>5, <1>6, <1>7, <1>8, <1>9, <1>10, <1>11, <1>12, <1>13,
     <1>14, <1>15 DEF Next, WorkerStep, ApiStep

(* The node that writes to GLPI is run for approved runs only, whoever runs it and however
   often the run was interrupted, taken back or replayed. *)
THEOREM ExecutionIsApproved == Spec => []OnlyApprovedExecutes
<1>1. Init => OnlyApprovedExecutes
  BY DEF Init, OnlyApprovedExecutes
<1>2. TypeOK /\ OnlyApprovedExecutes /\ [Next]_vars => OnlyApprovedExecutes'
  <2> SUFFICES ASSUME TypeOK, OnlyApprovedExecutes, [Next]_vars PROVE OnlyApprovedExecutes'
    OBVIOUS
  <2>1. CASE \E s \in Session : Harmless(s) \/ Honest(s)
    BY <2>1, HarmlessKeeps
  <2>2. CASE UNCHANGED <<pc, task, at, answer, stage>>
    BY <2>2, ApprovalStays, TaskInRun DEF OnlyApprovedExecutes
  <2> QED BY <2>1, <2>2, ExecuteShape
<1> QED
  BY <1>1, <1>2, TypeCorrect, PTL DEF Spec

-----------------------------------------------------------------------------
(* Checkpoints. *)

(* Getting ahead twice is getting ahead, and every node is ahead of itself. *)
LEMMA OnwardIsAnOrder ==
  /\ \A n \in Node : n \in Onward(n)
  /\ \A n, m, k \in Node : m \in Onward(n) /\ k \in Onward(m) => k \in Onward(n)
BY DEF Onward, Node

(* Whoever runs the graph is not behind the checkpoint. *)
InvocationIsAhead == \A s \in Session : pc[s] = "graph" => at[s] \in Onward(stage[task[s]])

(* A step of s after which nobody but s is at another node, and s is at one the graph leads
   to, or at the checkpoint. *)
Walks(s) ==
  /\ \A u \in Session \ {s} :
       pc'[u] = "graph" => pc[u] = "graph" /\ task'[u] = task[u] /\ at'[u] = at[u]
  /\ \/ UNCHANGED stage
     \/ pc[s] = "graph" /\ stage' = [stage EXCEPT ![task[s]] = at[s]]
  /\ pc'[s] = "graph" =>
       \/ pc[s] = "graph" /\ task'[s] = task[s] /\ at'[s] \in Onward(at[s])
       \/ UNCHANGED stage /\ task'[s] = task[s] /\ pc[s] # "idle" /\ at'[s] = stage[task[s]]

LEMMA WalkGoesForward ==
  ASSUME TypeOK, OneExecutor, InvocationIsAhead, NEW s \in Session, Walks(s)
  PROVE  /\ \A r \in Run : stage'[r] \in Onward(stage[r])
         /\ InvocationIsAhead'
<1>1. /\ stage \in [Run -> Node] /\ at \in [Session -> Node]
      /\ \A u \in Session : pc[u] # "idle" => task[u] \in Run
  BY TaskInRun DEF TypeOK, RowType, LocalType
<1>2. pc[s] = "graph" => task[s] \in Run /\ at[s] \in Onward(stage[task[s]])
  BY <1>1 DEF InvocationIsAhead
<1>3. \A r \in Run : stage'[r] \in Onward(stage[r])
  BY <1>1, <1>2, OnwardIsAnOrder DEF Walks
<1>4. ASSUME NEW u \in Session \ {s}, pc'[u] = "graph" PROVE at'[u] \in Onward(stage'[task'[u]])
  <2>1. /\ pc[u] = "graph" /\ task'[u] = task[u] /\ at'[u] = at[u]
        /\ task[u] \in Run /\ at[u] \in Onward(stage[task[u]])
    BY <1>1, <1>4 DEF Walks, InvocationIsAhead
  <2>2. pc[s] = "graph" => task[s] # task[u]
    BY <1>4, <2>1 DEF OneExecutor, Guarded
  <2>3. stage'[task[u]] = stage[task[u]]
    BY <1>1, <2>1, <2>2 DEF Walks
  <2> QED
    BY <2>1, <2>3
<1>5. ASSUME pc'[s] = "graph" PROVE at'[s] \in Onward(stage'[task'[s]])
  <2>1. CASE UNCHANGED stage /\ task'[s] = task[s] /\ pc[s] # "idle" /\ at'[s] = stage[task[s]]
    BY <1>1, <2>1, OnwardIsAnOrder
  <2>2. CASE pc[s] = "graph" /\ task'[s] = task[s] /\ at'[s] \in Onward(at[s])
    <3>1. CASE UNCHANGED stage
      <4>1. at'[s] \in Node
        BY <1>1, <2>2 DEF Onward, Node
      <4> QED
        BY <1>1, <1>2, <2>2, <3>1, <4>1, OnwardIsAnOrder
    <3>2. CASE stage' = [stage EXCEPT ![task[s]] = at[s]]
      BY <1>1, <1>2, <2>2, <3>2
    <3> QED
      BY <2>2, <3>1, <3>2 DEF Walks
  <2> QED
    BY <1>5, <2>1, <2>2 DEF Walks
<1> QED
  BY <1>3, <1>4, <1>5 DEF InvocationIsAhead

(* To the checkpoints, every step is a walk of one session. *)
LEMMA EveryStepWalks ==
  ASSUME TypeOK, [Next]_vars
  PROVE  (\E s \in Session : Walks(s)) \/ UNCHANGED <<pc, task, at, stage>>
<1>w. Worker \subseteq Session /\ Api \subseteq Session
  BY DEF Session
<1>t. /\ pc \in [Session -> Place] /\ at \in [Session -> Node]
      /\ task \in [Session -> Run \cup {NoRun}] /\ stage \in [Run -> Node]
  BY DEF TypeOK, RowType, SessionType, LocalType
<1>q. \A s \in Session : Stopped(s) # "graph" /\ Returned(s) # "graph"
  BY DEF Stopped, Returned
<1>l. ASSUME NEW s \in Session, NEW p, p # "graph", Goto(s, p), UNCHANGED <<task, at, stage>>
      PROVE  Walks(s)
  BY <1>l, <1>t DEF Walks, Goto
<1>p. ASSUME NEW s \in Session, pc[s] = "graph", Pause(s), UNCHANGED <<task, at>>
      PROVE  Walks(s)
  BY <1>p, <1>t, <1>q DEF Walks, Pause, Goto
<1>m. ASSUME NEW s \in Session, NEW next \in Onward(at[s]), pc[s] = "graph",
             UNCHANGED <<pc, task, stage>>, at' = [at EXCEPT ![s] = next]
      PROVE  Walks(s)
  BY <1>m, <1>t DEF Walks
<1>v. ASSUME NEW s \in Session, NEW node, NEW new, NEW next \in Onward(node),
             Visit(s, node, new, next) \/ Move(s, node, next)
      PROVE  Walks(s)
  <2>1. CASE Visit(s, node, new, next) /\ Refuses(task[s], new)
    BY <1>l, <1>q, <2>1 DEF Visit
  <2>2. CASE Visit(s, node, new, next) /\ ~Refuses(task[s], new)
    BY <1>m, <2>2 DEF Visit
  <2>3. CASE Move(s, node, next)
    BY <1>m, <2>3 DEF Move, row
  <2> QED
    BY <1>v, <2>1, <2>2, <2>3
<1>i. ASSUME NEW s \in Session, NEW d, pc[s] # "idle", Invoke(s, d), UNCHANGED <<task, stage>>
      PROVE  Walks(s)
  BY <1>i, <1>t DEF Walks, Invoke, Goto
<1>1. ASSUME NEW s \in Session, Graph(s) PROVE Walks(s)
  <2>n. /\ "pipeline" \in Onward("route") /\ "approval" \in Onward("action")
        /\ {"action", "escalate", "finalize"} \subseteq Onward("pipeline")
        /\ "finalize" \in Onward("execute")
        /\ "end" \in Onward("decline") /\ "end" \in Onward("finalize")
        /\ {"execute", "decline", "pipeline"} \subseteq Onward("approval")
        /\ {"finalize", "decline"} \subseteq Onward("escalate")
    BY DEF Onward, Node
  <2>1. CASE Route(s) BY <2>1, <2>n, <1>v DEF Route
  <2>2. CASE Pipeline(s) BY <2>2, <2>n, <1>v DEF Pipeline
  <2>3. CASE ProposeAction(s) BY <2>3, <2>n, <1>v DEF ProposeAction
  <2>4. CASE Execute(s)
    <3>1. CASE answer[s] = "rederiving" BY <2>4, <3>1, <1>l DEF Execute, row, local
    <3>2. CASE answer[s] # "rederiving" BY <2>4, <2>n, <1>v, <3>2 DEF Execute
    <3> QED BY <3>1, <3>2
  <2>5. CASE Finalize(s) BY <2>5, <2>n, <1>v DEF Finalize
  <2>6. CASE GraphEnds(s) BY <2>6, <1>p DEF GraphEnds, local
  <2>7. CASE Approval(s)
    <3>1. CASE answer[s] \in {"none", "rederiving"}
      BY <2>7, <3>1, <1>p DEF Approval
    <3>2. CASE answer[s] \notin {"none", "rederiving"}
      <4>1. AfterApproval(answer[s]) \in {"execute", "decline", "pipeline"}
        BY DEF AfterApproval
      <4> QED
        BY <2>7, <2>n, <3>2, <4>1, <1>m DEF Approval
    <3> QED BY <3>1, <3>2
  <2>8. CASE Escalate(s)
    <3>1. CASE Refuses(task[s], "waiting_review")
      BY <2>8, <3>1, <1>l, <1>q DEF Escalate
    <3>2. CASE ~Refuses(task[s], "waiting_review") /\ answer[s] \notin Decision \cup Resolution
      BY <2>8, <3>2, <1>p DEF Escalate
    <3>3. CASE ~Refuses(task[s], "waiting_review") /\ answer[s] \in Decision \cup Resolution
      BY <2>8, <2>n, <3>3, <1>m DEF Escalate
    <3> QED BY <3>1, <3>2, <3>3
  <2> QED BY <1>1, <2>1, <2>2, <2>3, <2>4, <2>5, <2>6, <2>7, <2>8 DEF Graph
<1>2. ASSUME NEW s \in Session, RecordFailure(s) \/ NodeRaises(s) PROVE Walks(s)
  BY <1>2, <1>l, <1>q DEF RecordFailure, NodeRaises, row, local
<1>3. ASSUME NEW s \in Session, Checkpoint(s) PROVE Walks(s)
  BY <1>3, <1>t, OnwardIsAnOrder DEF Checkpoint, Walks, local
<1>4. ASSUME NEW w \in Worker,
             \/ Confirm(w) \/ Recheck(w) \/ Inspect(w) \/ Settle(w)
             \/ HeartbeatLost(w) \/ Interrupted(w) \/ Blocked(w) \/ ApprovalVoid(w)
      PROVE Walks(w)
  BY <1>4, <1>l, <1>w DEF Confirm, Recheck, Inspect, Settle, HeartbeatLost, Interrupted, Abandon,
                          Blocked, ApprovalVoid, row, local
<1>5. ASSUME NEW w \in Worker, NEW r \in Run, Claim(w, r) PROVE Walks(w)
  BY <1>5, <1>t, <1>w DEF Claim, Walks, Goto, row, local
<1>6. ASSUME NEW a \in Api, NEW r \in Run, NEW d \in Decision \cup Resolution, Request(a, r, d)
      PROVE Walks(a)
  BY <1>6, <1>t, <1>w DEF Request, Walks, Goto, row
<1>7. ASSUME NEW w \in Worker, EnterGraph(w) PROVE Walks(w)
  BY <1>7, <1>i, <1>w DEF EnterGraph, row
<1>8. ASSUME NEW a \in Api, ApiVoid(a) PROVE Walks(a)
  BY <1>8, <1>i, <1>w DEF ApiVoid, row
<1>9. ASSUME NEW a \in Api, ApiBlocked(a) PROVE Walks(a)
  BY <1>9, <1>l, <1>w DEF ApiBlocked, row, local
<1>10. ASSUME NEW a \in Api, RecordApproval(a) PROVE Walks(a)
  BY <1>10, <1>i, <1>l, <1>w DEF RecordApproval
<1>11. ASSUME NEW a \in Api, ApplyReview(a) PROVE Walks(a)
  BY <1>11, <1>i, <1>l, <1>w DEF ApplyReview
<1>12. ASSUME NEW s \in Session, Guarding(s) PROVE Walks(s)
  <2>1. CASE TryRunLock(s) BY <2>1, <1>l DEF TryRunLock, row, local
  <2>2. CASE TrySlot(s) BY <2>2, <1>t DEF TrySlot, Walks, Goto, row
  <2>3. CASE Refused(s) BY <2>3, <1>l DEF Refused, row, local
  <2>4. CASE UnlockSlot(s) BY <2>4, <1>l DEF UnlockSlot, row, local
  <2>5. CASE UnlockRun(s) BY <2>5, <1>t DEF UnlockRun, Forget, Walks, Goto, row
  <2> QED BY <1>12, <2>1, <2>2, <2>3, <2>4, <2>5 DEF Guarding
<1>13. ASSUME NEW s \in Session, Crash(s) PROVE Walks(s)
  BY <1>13, <1>t DEF Crash, Forget, Walks, Goto, row
<1>14. ASSUME NEW r \in Run, CancelRun(r) \/ Lapse(r) PROVE UNCHANGED <<pc, task, at, stage>>
  BY <1>14 DEF CancelRun, Lapse, row, local
<1>15. CASE UNCHANGED vars
  BY <1>15 DEF vars, row, local
<1> QED
  BY <1>w, <1>1, <1>2, <1>3, <1>4, <1>5, <1>6, <1>7, <1>8, <1>9, <1>10, <1>11, <1>12, <1>13,
     <1>14, <1>15 DEF Next, WorkerStep, ApiStep

(* No run is resumed before what was made durable of it, whoever resumes it and however
   often it was interrupted, taken over or decided. *)
THEOREM ProgressIsKept == Spec => CheckpointsGoForward
<1>1. Init => InvocationIsAhead
  BY DEF Init, InvocationIsAhead
<1>2. TypeOK /\ OneExecutor /\ InvocationIsAhead /\ [Next]_vars =>
        /\ InvocationIsAhead'
        /\ \A r \in Run : stage'[r] \in Onward(stage[r])
  <2> SUFFICES ASSUME TypeOK, OneExecutor, InvocationIsAhead, [Next]_vars
               PROVE  /\ InvocationIsAhead'
                      /\ \A r \in Run : stage'[r] \in Onward(stage[r])
    OBVIOUS
  <2>1. CASE \E s \in Session : Walks(s)
    BY <2>1, WalkGoesForward
  <2>2. CASE UNCHANGED <<pc, task, at, stage>>
    BY <2>2, OnwardIsAnOrder DEF InvocationIsAhead, TypeOK, RowType
  <2> QED
    BY <2>1, <2>2, EveryStepWalks
<1>3. TypeOK /\ OneExecutor /\ InvocationIsAhead /\ [Next]_vars =>
        [\A r \in Run : stage'[r] \in Onward(stage[r])]_vars
  BY <1>2
<1> QED
  BY <1>1, <1>2, <1>3, TypeCorrect, OneExecutorAlways, PTL DEF Spec, CheckpointsGoForward
=============================================================================
