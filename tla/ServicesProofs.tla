--------------------------- MODULE ServicesProofs ---------------------------
(* Proofs about the parts of Services that share no state, and about their  *)
(* composition: the MCP task store, the entitlement cache, the tool         *)
(* ledger, the knowledge index and the spend ledger here, the others in     *)
(* modules of their own.                                                    *)
EXTENDS Services, RunAdmissionProofs, ActionSlotProofs, MemoryLifecycleProofs

-----------------------------------------------------------------------------
(* MCP tasks: rows are never forgotten, and a poll is about one of them.   *)

TaskRow ==
    [ask : RequestId, owner : Replica, lapsed : BOOLEAN, aged : BOOLEAN, kept : BOOLEAN,
     status : {"working", "completed", "failed", "cancelled"}]
Poll ==
    [at : {"close", "signal", "cancel"}, replica : Replica, task : Nat,
     method : {"get", "cancel"}]
Executing == Running \cup {"gone"}

TaskInv ==
    /\ tasks \in Seq(TaskRow)
    /\ executor \in Seq(Executing) /\ Len(executor) = Len(tasks)
    /\ \A m, n \in TaskIds : tasks[m].kept /\ tasks[n].kept /\ tasks[m].ask = tasks[n].ask => m = n
    /\ poller \in [Poller -> {NoPoll} \cup Poll]
    /\ \A l \in Poller : poller[l] # NoPoll => poller[l].task \in TaskIds

(* What TasksEndOnce says of one step. *)
EndsOnce ==
    \A n \in TaskIds :
         tasks'[n].status # tasks[n].status =>
            \/ ClosedLate(n) /\ tasks'[n].status = "failed"
            \/ /\ Working(n)
               /\ tasks'[n].status = "failed" /\ executor[n] = "calling" => tasks[n].lapsed

LEMMA TasksAreNumbered ==
  ASSUME TaskInv
  PROVE  /\ Len(tasks) \in Nat /\ TaskIds = 1..Len(tasks)
         /\ tasks \in [TaskIds -> TaskRow]
         /\ executor \in [TaskIds -> Executing]
  BY LenProperties DEF TaskInv, TaskIds

(* A step that adds no row. *)
LEMMA TaskRewrite ==
  ASSUME TaskInv, tasks' \in [TaskIds -> TaskRow], executor' \in [TaskIds -> Executing],
         \A n \in TaskIds : tasks'[n].ask = tasks[n].ask /\ (tasks'[n].kept => tasks[n].kept),
         poller' \in [Poller -> {NoPoll} \cup Poll],
         \A l \in Poller : poller'[l] # NoPoll => poller'[l].task \in TaskIds
  PROVE  TaskInv'
<1>1. Len(tasks) \in Nat /\ TaskIds = 1..Len(tasks)
  BY TasksAreNumbered
<1>2. tasks' \in Seq(TaskRow) /\ DOMAIN tasks' = 1..Len(tasks)
  BY <1>1, FunctionIsSeq
<1>3. executor' \in Seq(Executing) /\ Len(tasks') = Len(tasks) /\ Len(executor') = Len(tasks)
  BY <1>1, FunctionIsSeq
<1>4. TaskIds' = TaskIds
  BY <1>1, <1>2 DEF TaskIds
<1> QED
  BY <1>2, <1>3, <1>4 DEF TaskInv

LEMMA TaskStarts ==
  ASSUME TaskInit
  PROVE  TaskInv
<1>1. tasks = <<>> /\ executor = <<>> /\ TaskIds = {}
  BY DEF TaskInit, TaskIds
<1>2. tasks \in Seq(TaskRow) /\ executor \in Seq(Executing) /\ Len(executor) = Len(tasks)
  BY <1>1
<1> QED
  BY <1>1, <1>2 DEF TaskInit, TaskInv

LEMMA CreateKeeps ==
  ASSUME TaskInv, NEW p \in Replica, NEW ask \in RequestId, Create(p, ask)
  PROVE  TaskInv' /\ EndsOnce
<1> DEFINE row == [ask |-> ask, owner |-> p, status |-> "working",
                   lapsed |-> FALSE, aged |-> FALSE, kept |-> TRUE]
           k == Len(tasks)
<1>1. k \in Nat /\ TaskIds = 1..k /\ tasks \in [TaskIds -> TaskRow] /\ Len(executor) = k
  BY TasksAreNumbered DEF TaskInv
<1>2. row \in TaskRow
  BY DEF TaskRow
<1>3. /\ tasks' = Append(tasks, row) /\ executor' = Append(executor, "calling")
      /\ poller' = poller
      /\ \A n \in TaskIds : tasks[n].kept => tasks[n].ask # ask
  BY DEF Create
<1>4. /\ row.ask = ask
  OBVIOUS
<1> HIDE DEF row
<1>5. /\ tasks' \in Seq(TaskRow) /\ DOMAIN tasks' = 1..(k + 1)
      /\ \A n \in 1..k : tasks'[n] = tasks[n]
      /\ tasks'[k + 1] = row
  <2>1. Len(tasks') = k + 1
    BY <1>1, <1>2, <1>3, AppendProperties DEF TaskInv
  <2> QED
    BY <1>2, <1>3, <2>1, AppendProperties, LenProperties DEF TaskInv
<1>6. executor' \in Seq(Executing) /\ Len(executor') = k + 1
  <2>1. "calling" \in Executing
    BY DEF Executing, Running
  <2> QED
    BY <1>1, <1>3, <2>1, AppendProperties DEF TaskInv
<1>7. TaskIds' = 1..(k + 1) /\ TaskIds \subseteq TaskIds' /\ TaskIds' = TaskIds \cup {k + 1}
  BY <1>1, <1>5 DEF TaskIds
<1>8. Len(tasks') = k + 1
  BY <1>1, <1>2, <1>3, AppendProperties DEF TaskInv
<1>9. ASSUME NEW m \in TaskIds', NEW n \in TaskIds', tasks'[m].kept, tasks'[n].kept,
             tasks'[m].ask = tasks'[n].ask
      PROVE  m = n
  BY <1>1, <1>3, <1>4, <1>5, <1>7, <1>9 DEF TaskInv
<1>10. TaskInv'
  BY <1>3, <1>5, <1>6, <1>7, <1>8, <1>9 DEF TaskInv
<1> QED
  BY <1>1, <1>5, <1>10 DEF EndsOnce

(* One row's new status. *)
LEMMA StatusSet ==
  ASSUME TaskInv, NEW n \in TaskIds, SetStatus(n, "failed") \/ SetStatus(n, "completed")
                                     \/ SetStatus(n, "cancelled")
  PROVE  /\ tasks' \in [TaskIds -> TaskRow]
         /\ \A m \in TaskIds : tasks'[m].ask = tasks[m].ask /\ (tasks'[m].kept => tasks[m].kept)
         /\ \A m \in TaskIds : m # n => tasks'[m] = tasks[m]
<1>1. tasks \in [TaskIds -> TaskRow]
  BY TasksAreNumbered
<1>2. PICK end \in {"completed", "failed", "cancelled"} : SetStatus(n, end)
  OBVIOUS
<1>3. /\ tasks' = [tasks EXCEPT ![n] = [tasks[n] EXCEPT !.status = end]]
      /\ tasks[n] \in TaskRow
  BY <1>1, <1>2 DEF SetStatus
<1>4. /\ [tasks[n] EXCEPT !.status = end] \in TaskRow
      /\ [tasks[n] EXCEPT !.status = end].ask = tasks[n].ask
      /\ [tasks[n] EXCEPT !.status = end].kept = tasks[n].kept
  BY <1>3 DEF TaskRow
<1> QED
  BY <1>1, <1>3, <1>4

LEMMA TaskStepKeeps ==
  ASSUME TaskInv, NEW n \in TaskIds, TaskStep(n)
  PROVE  TaskInv' /\ EndsOnce
<1>1. /\ tasks \in [TaskIds -> TaskRow] /\ executor \in [TaskIds -> Executing]
      /\ tasks[n] \in TaskRow
  BY TasksAreNumbered
<1>2. /\ poller' = poller /\ poller \in [Poller -> {NoPoll} \cup Poll]
      /\ \A l \in Poller : poller[l] # NoPoll => poller[l].task \in TaskIds
  BY DEF TaskInv, TaskStep, CallEnds, Heartbeat, Finish, Cancelled, LeaseLapses, Age
<1>3. executor' \in [TaskIds -> Executing]
  BY <1>1 DEF TaskStep, CallEnds, Heartbeat, Finish, Cancelled, LeaseLapses, Age, Executing, Running
<1>4. ASSUME NEW lapsed \in BOOLEAN, NEW old \in BOOLEAN,
             tasks' = [tasks EXCEPT ![n].lapsed = lapsed] \/ tasks' = [tasks EXCEPT ![n].aged = old]
             \/ tasks' = tasks
      PROVE  TaskInv' /\ EndsOnce
  <2>1. /\ [tasks[n] EXCEPT !.lapsed = lapsed] \in TaskRow
        /\ [tasks[n] EXCEPT !.aged = old] \in TaskRow
    BY <1>1 DEF TaskRow
  <2>2. /\ tasks' \in [TaskIds -> TaskRow]
        /\ \A m \in TaskIds : /\ tasks'[m].ask = tasks[m].ask /\ tasks'[m].kept = tasks[m].kept
                              /\ tasks'[m].status = tasks[m].status
    BY <1>1, <1>4, <2>1 DEF TaskRow
  <2> QED
    BY <1>2, <1>3, <2>2, TaskRewrite DEF EndsOnce
<1>5. CASE \E how \in {"returned", "raised"} : CallEnds(n, how)
  BY <1>4, <1>5 DEF CallEnds
<1>6. CASE Heartbeat(n)
  BY <1>4, <1>6 DEF Heartbeat
<1>7. CASE Finish(n)
  <2>1. CASE Working(n)
    <3>1. SetStatus(n, "completed") \/ SetStatus(n, "failed")
      BY <1>7, <2>1 DEF Finish
    <3>2. executor[n] # "calling"
      BY <1>7 DEF Finish
    <3>3. TaskInv'
      BY <1>2, <1>3, <3>1, StatusSet, TaskRewrite
    <3> QED
      BY <2>1, <3>1, <3>2, <3>3, StatusSet DEF EndsOnce
  <2>2. CASE ~Working(n)
    BY <1>4, <1>7, <2>2 DEF Finish
  <2> QED
    BY <2>1, <2>2
<1>8. CASE Cancelled(n)
  <2>1. CASE Working(n)
    <3>1. SetStatus(n, "cancelled") /\ executor[n] = "cancelling"
      BY <1>8, <2>1 DEF Cancelled
    <3>2. TaskInv'
      BY <1>2, <1>3, <3>1, StatusSet, TaskRewrite
    <3> QED
      BY <2>1, <3>1, <3>2, StatusSet DEF EndsOnce
  <2>2. CASE ~Working(n)
    BY <1>4, <1>8, <2>2 DEF Cancelled
  <2> QED
    BY <2>1, <2>2
<1>9. CASE LeaseLapses(n) \/ Age(n)
  BY <1>4, <1>9 DEF LeaseLapses, Age
<1> QED
  BY <1>5, <1>6, <1>7, <1>8, <1>9 DEF TaskStep

(* A poller's step; only the flush of a lapsed row writes over an end.     *)
LEMMA PollerStepKeeps ==
  ASSUME TaskInv, NEW l \in Poller, PollerStep(l)
  PROVE  TaskInv' /\ EndsOnce
<1>1. /\ tasks \in [TaskIds -> TaskRow] /\ executor \in [TaskIds -> Executing]
      /\ TaskIds \subseteq Nat
      /\ poller \in [Poller -> {NoPoll} \cup Poll]
      /\ \A m \in Poller : poller[m] # NoPoll => poller[m].task \in TaskIds
  BY TasksAreNumbered DEF TaskInv
<1>2. executor' \in [TaskIds -> Executing]
  BY <1>1 DEF PollerStep, Read, Close, Signal, Cancel, Executing, Running
<1>3. ASSUME NEW next \in {NoPoll} \cup Poll, poller' = [poller EXCEPT ![l] = next],
             next # NoPoll => next.task \in TaskIds
      PROVE  /\ poller' \in [Poller -> {NoPoll} \cup Poll]
             /\ \A m \in Poller : poller'[m] # NoPoll => poller'[m].task \in TaskIds
  BY <1>1, <1>3
<1>4. ASSUME NEW at \in {"close", "signal", "cancel"}, poller[l] # NoPoll
      PROVE  /\ [poller[l] EXCEPT !.at = at] \in Poll
             /\ [poller[l] EXCEPT !.at = at].task = poller[l].task
             /\ [poller[l] EXCEPT !.at = at].at = at
  BY <1>1, <1>4 DEF Poll
<1>5. CASE tasks' = tasks
  <2>1. \A n \in TaskIds : tasks'[n].ask = tasks[n].ask /\ (tasks'[n].kept => tasks[n].kept)
    BY <1>5
  <2>2. \E next \in {NoPoll} \cup Poll :
           poller' = [poller EXCEPT ![l] = next] /\ (next # NoPoll => next.task \in TaskIds)
    <3>1. CASE Cancel(l) \/ Close(l)
      <4>1. \/ poller' = [poller EXCEPT ![l] = NoPoll]
            \/ poller[l].at = "close" /\ poller' = [poller EXCEPT ![l].at = "signal"]
        <5>1. CASE Cancel(l)
          BY <5>1 DEF Cancel, Done
        <5>2. CASE Close(l)
          BY <5>2 DEF Close, Done, Onward
        <5> QED
          BY <3>1, <5>1, <5>2
      <4>2. poller[l].at = "close" => poller[l] # NoPoll
        BY DEF NoPoll
      <4> QED
        BY <1>1, <1>4, <4>1, <4>2
    <3>2. CASE Signal(l)
      <4>1. poller[l] # NoPoll /\ poller' = [poller EXCEPT ![l].at = "cancel"]
        BY <3>2 DEF Signal, NoPoll
      <4> QED
        BY <1>1, <1>4, <4>1
    <3>3. CASE \E p \in Replica, n \in TaskIds, method \in {"get", "cancel"} : Read(l, p, n, method)
      <4>1. PICK p \in Replica, n \in TaskIds, method \in {"get", "cancel"} : Read(l, p, n, method)
        BY <3>3
      <4> DEFINE at == IF Working(n) /\ tasks[n].lapsed THEN "close" ELSE "signal"
                 next == [at |-> at, replica |-> p, task |-> n, method |-> method]
      <4>2. next \in Poll /\ next.task = n
        BY <1>1 DEF Poll
      <4> QED
        BY <4>1, <4>2 DEF Read
    <3> QED
      BY <3>1, <3>2, <3>3 DEF PollerStep
  <2> QED
    BY <1>1, <1>2, <1>3, <1>5, <2>1, <2>2, TaskRewrite DEF EndsOnce
<1>6. CASE tasks' # tasks
  <2> DEFINE n == poller[l].task
  <2>1. \/ /\ poller[l].at = "close" /\ SetStatus(n, "failed")
           /\ poller' = [poller EXCEPT ![l] = NoPoll]
              \/ poller' = [poller EXCEPT ![l].at = "signal"]
        \/ /\ poller[l].at = "cancel" /\ SetStatus(n, "cancelled") /\ Working(n)
           /\ poller' = [poller EXCEPT ![l] = NoPoll]
    BY <1>6 DEF PollerStep, Read, Close, Signal, Cancel, Done, Onward
  <2>2. poller[l] # NoPoll /\ n \in TaskIds /\ NoPoll.at = "none"
    BY <1>1, <2>1 DEF NoPoll
  <2>3. /\ poller' \in [Poller -> {NoPoll} \cup Poll]
        /\ \A m \in Poller : poller'[m] # NoPoll => poller'[m].task \in TaskIds
    <3>1. \E next \in {NoPoll} \cup Poll :
             poller' = [poller EXCEPT ![l] = next] /\ (next # NoPoll => next.task \in TaskIds)
      BY <1>1, <1>4, <2>1, <2>2
    <3> QED
      BY <1>3, <3>1
  <2> HIDE DEF n
  <2>4. /\ tasks' \in [TaskIds -> TaskRow]
        /\ \A m \in TaskIds : tasks'[m].ask = tasks[m].ask /\ (tasks'[m].kept => tasks[m].kept)
        /\ \A m \in TaskIds : m # n => tasks'[m] = tasks[m]
    BY <2>1, <2>2, StatusSet
  <2>5. TaskInv'
    BY <1>2, <2>3, <2>4, TaskRewrite
  <2>6. \/ tasks'[n].status = "failed" /\ ClosedLate(n)
        \/ tasks'[n].status = "cancelled" /\ Working(n)
    <3>1. CASE poller[l].at = "close" /\ SetStatus(n, "failed")
      <4>1. poller'[l].at # "close"
        BY <1>1, <1>4, <2>1, <2>2, <3>1
      <4>2. ClosedLate(n)
        BY <3>1, <4>1 DEF ClosedLate, n
      <4>3. tasks'[n].status = "failed"
        BY <1>1, <2>2, <3>1 DEF SetStatus, TaskRow
      <4> QED
        BY <4>2, <4>3
    <3>2. CASE SetStatus(n, "cancelled") /\ Working(n)
      BY <1>1, <2>2, <3>2 DEF SetStatus, TaskRow
    <3> QED
      BY <2>1, <3>1, <3>2
  <2> QED
    BY <2>4, <2>5, <2>6 DEF EndsOnce
<1> QED
  BY <1>5, <1>6

LEMMA RecoverKeeps ==
  ASSUME TaskInv, Recover
  PROVE  TaskInv' /\ EndsOnce
<1>1. /\ tasks \in [TaskIds -> TaskRow] /\ executor \in [TaskIds -> Executing]
      /\ tasks' = [n \in TaskIds |-> Recovered(tasks[n])]
      /\ executor' = executor /\ poller' = poller
  BY TasksAreNumbered DEF Recover
<1>2. ASSUME NEW n \in TaskIds
      PROVE  /\ tasks'[n] \in TaskRow
             /\ tasks'[n].ask = tasks[n].ask /\ (tasks'[n].kept => tasks[n].kept)
             /\ tasks'[n].status # tasks[n].status =>
                  tasks'[n].status = "failed" /\ Working(n) /\ tasks[n].lapsed
  <2>1. tasks[n] \in TaskRow /\ tasks'[n] = Recovered(tasks[n])
    BY <1>1
  <2> QED
    BY <2>1 DEF Recovered, TaskRow, Working
<1>3. TaskInv'
  BY <1>1, <1>2, TaskRewrite DEF TaskInv
<1> QED
  BY <1>2, <1>3 DEF EndsOnce

LEMMA CrashKeeps ==
  ASSUME TaskInv, NEW p \in Replica, Crash(p)
  PROVE  TaskInv' /\ EndsOnce
<1>1. tasks \in [TaskIds -> TaskRow] /\ executor \in [TaskIds -> Executing] /\ tasks' = tasks
  BY TasksAreNumbered DEF Crash
<1>2. executor' \in [TaskIds -> Executing]
  BY <1>1 DEF Crash, Executing
<1>3. /\ poller' \in [Poller -> {NoPoll} \cup Poll]
      /\ \A l \in Poller : poller'[l] # NoPoll => poller'[l].task \in TaskIds
  BY DEF Crash, TaskInv
<1> QED
  BY <1>1, <1>2, <1>3, TaskRewrite DEF EndsOnce

LEMMA TaskNextKeeps ==
  ASSUME TaskInv, [TaskNext]_taskVars
  PROVE  TaskInv' /\ [EndsOnce]_taskVars
<1>1. CASE TaskNext
  BY <1>1, CreateKeeps, TaskStepKeeps, PollerStepKeeps, RecoverKeeps, CrashKeeps DEF TaskNext
<1>2. CASE UNCHANGED taskVars
  BY <1>2 DEF taskVars, TaskInv, TaskIds
<1> QED
  BY <1>1, <1>2

(* An executor, a canceller and recovery never write over a task's end,    *)
(* and only a lapsed lease lets anyone fail a task whose call is running;  *)
(* the flush of a poller that read the row as lapsed is the one exception. *)
THEOREM TaskEndsStand == TaskSpec => TasksEndOnce
<1>1. TaskInit => TaskInv
  BY TaskStarts
<1>2. TaskInv /\ [TaskNext]_taskVars => TaskInv' /\ [EndsOnce]_taskVars
  BY TaskNextKeeps
<1>3. [EndsOnce]_taskVars =>
        [\A n \in TaskIds :
         tasks'[n].status # tasks[n].status =>
            \/ ClosedLate(n) /\ tasks'[n].status = "failed"
            \/ /\ Working(n)
               /\ tasks'[n].status = "failed" /\ executor[n] = "calling" => tasks[n].lapsed]_taskVars
  BY DEF EndsOnce
<1> QED
  BY <1>1, <1>2, <1>3, PTL DEF TaskSpec, TasksEndOnce

-----------------------------------------------------------------------------
(* Entitlements: whatever an asker or the cache carries was held at a      *)
(* moment since the question it answers.                                   *)

(* v was held at this tick or later. *)
HeldSince(tick, v) == v \in DOMAIN lastHeld /\ lastHeld[v] >= tick

HistoryFits ==
    /\ ticks \in 0..MaxTicks
    /\ \A v \in DOMAIN lastHeld : lastHeld[v] \in 0..ticks
    /\ account \in DOMAIN lastHeld /\ lastHeld[account] = ticks
    /\ role \in DOMAIN lastHeld /\ lastHeld[role] = ticks

RememberedFits ==
    /\ remembered.until \in 0..(MaxTicks + Window)
    /\ remembered.until > 0 =>
         \E since \in 0..ticks :
            /\ remembered.until = since + Window
            /\ HeldSince(since, remembered.account)
            /\ remembered.account \notin Refused => HeldSince(since, remembered.role)

AskersFit ==
    /\ DOMAIN asker = Asker
    /\ \A s \in Asker :
         \/ asker[s] = NotAsking
         \/ asker[s].at = "account" /\ asker[s].since \in 0..ticks
         \/ /\ asker[s].at = "roles" /\ asker[s].since \in 0..ticks
            /\ HeldSince(asker[s].since, asker[s].account)
         \/ asker[s].at = "answered"

GrantInv == HistoryFits /\ RememberedFits /\ AskersFit

(* What RevocationIsSeen says of one step. *)
InTimeAsTheyAnswer ==
    \A s \in Asker : Replies(s) =>
         LET answer == asker'[s]
             InTime(v) == IF answer.cached THEN lastHeld[v] + Window > ticks
                                           ELSE lastHeld[v] >= answer.since
         IN  InTime(answer.account) /\ (answer.account \notin Refused => InTime(answer.role))

LEMMA GrantStarts ==
  ASSUME GrantInit
  PROVE  GrantInv
<1> USE DEF GrantInit
<1>1. HistoryFits
  BY TimeIsCounted DEF HistoryFits
<1>2. RememberedFits
  BY TimeIsCounted DEF RememberedFits, Nothing
<1>3. AskersFit
  BY DEF AskersFit
<1> QED
  BY <1>1, <1>2, <1>3 DEF GrantInv

(* History only grows: what was held since a tick stays so.                *)
LEMMA HeldSinceStays ==
  ASSUME HistoryFits, NEW tick \in ticks..MaxTicks, ticks' = tick, lastHeld' = HeldNow(tick)
  PROVE  /\ HistoryFits'
         /\ \A v, since : HeldSince(since, v) /\ since \in Nat => HeldSince(since, v)'
<1>1. ticks \in Nat /\ tick \in Nat
  BY TimeIsCounted DEF HistoryFits
<1>2. /\ DOMAIN lastHeld' = DOMAIN lastHeld \cup {account', role'}
      /\ \A v \in {account', role'} : lastHeld'[v] = tick
      /\ \A v \in DOMAIN lastHeld \ {account', role'} : lastHeld'[v] = lastHeld[v]
  BY DEF HeldNow
<1>3. \A v \in DOMAIN lastHeld : lastHeld[v] \in 0..ticks
  BY DEF HistoryFits
<1>4. HistoryFits'
  <2>1. \A v \in DOMAIN lastHeld' : lastHeld'[v] \in 0..tick
    BY <1>1, <1>2, <1>3
  <2>2. tick \in 0..MaxTicks
    BY <1>1, TimeIsCounted
  <2> QED
    BY <1>2, <2>1, <2>2 DEF HistoryFits
<1>5. ASSUME NEW v, NEW since \in Nat, HeldSince(since, v)
      PROVE  HeldSince(since, v)'
  BY <1>1, <1>2, <1>3, <1>5 DEF HeldSince
<1> QED
  BY <1>4, <1>5

LEMMA RememberedStays ==
  ASSUME GrantInv, remembered' = remembered, ticks \in Nat, ticks' \in Nat, ticks' >= ticks,
         \A v, since : HeldSince(since, v) /\ since \in Nat => HeldSince(since, v)'
  PROVE  RememberedFits'
<1> SUFFICES ASSUME remembered.until > 0
             PROVE  \E since \in 0..ticks' :
                      /\ remembered.until = since + Window
                      /\ HeldSince(since, remembered.account)'
                      /\ remembered.account \notin Refused => HeldSince(since, remembered.role)'
  BY DEF GrantInv, RememberedFits
<1>1. PICK since \in 0..ticks :
            /\ remembered.until = since + Window
            /\ HeldSince(since, remembered.account)
            /\ remembered.account \notin Refused => HeldSince(since, remembered.role)
  BY DEF GrantInv, RememberedFits
<1> QED
  BY <1>1

LEMMA AskersStay ==
  ASSUME GrantInv, asker' = asker, ticks \in Nat, ticks' \in Nat, ticks' >= ticks,
         \A v, since : HeldSince(since, v) /\ since \in Nat => HeldSince(since, v)'
  PROVE  AskersFit'
<1>1. ASSUME NEW s \in Asker
      PROVE  \/ asker[s] = NotAsking
             \/ asker[s].at = "account" /\ asker[s].since \in 0..ticks'
             \/ /\ asker[s].at = "roles" /\ asker[s].since \in 0..ticks'
                /\ HeldSince(asker[s].since, asker[s].account)'
             \/ asker[s].at = "answered"
  BY DEF GrantInv, AskersFit
<1> QED
  BY <1>1 DEF GrantInv, AskersFit

(* One asker turns to something that fits. *)
LEMMA TurnFits ==
  ASSUME GrantInv, NEW s \in Asker, NEW place, Turn(s, place),
         ticks' = ticks, lastHeld' = lastHeld,
         \/ place = NotAsking
         \/ place.at = "account" /\ place.since \in 0..ticks
         \/ /\ place.at = "roles" /\ place.since \in 0..ticks
            /\ HeldSince(place.since, place.account)
         \/ place.at = "answered"
  PROVE  AskersFit'
<1>1. DOMAIN asker' = Asker /\ asker'[s] = place /\ \A t \in Asker \ {s} : asker'[t] = asker[t]
  BY DEF Turn, GrantInv, AskersFit
<1>2. ASSUME NEW t \in Asker
      PROVE  \/ asker'[t] = NotAsking
             \/ asker'[t].at = "account" /\ asker'[t].since \in 0..ticks
             \/ /\ asker'[t].at = "roles" /\ asker'[t].since \in 0..ticks
                /\ HeldSince(asker'[t].since, asker'[t].account)
             \/ asker'[t].at = "answered"
  <2>1. CASE t = s
    BY <1>1, <2>1
  <2>2. CASE t # s
    BY <1>1, <2>2 DEF GrantInv, AskersFit
  <2> QED
    BY <2>1, <2>2
<1>3. \A v, since : HeldSince(since, v)' <=> (v \in DOMAIN lastHeld /\ lastHeld[v] >= since)
  BY DEF HeldSince
<1>4. ASSUME NEW t \in Asker
      PROVE  \/ asker'[t] = NotAsking
             \/ asker'[t].at = "account" /\ asker'[t].since \in 0..ticks'
             \/ /\ asker'[t].at = "roles" /\ asker'[t].since \in 0..ticks'
                /\ HeldSince(asker[t].since, asker[t].account)'
             \/ asker'[t].at = "answered"
  BY <1>2 DEF HeldSince
<1> QED
  BY <1>1, <1>4 DEF AskersFit

(* A question's answer is remembered for a window from when it was asked.  *)
LEMMA AnswerFits ==
  ASSUME GrantInv, NEW s \in Asker, NEW learned, NEW mapped,
         Informed(s, learned, mapped), Remember(s, learned, mapped),
         asker[s].since \in 0..ticks,
         HeldSince(asker[s].since, learned),
         learned \notin Refused => HeldSince(asker[s].since, mapped),
         UNCHANGED <<ticks, account, role, lastHeld>>
  PROVE  GrantInv' /\ InTimeAsTheyAnswer
<1> DEFINE place == [at |-> "answered", account |-> learned, role |-> mapped,
                     cached |-> FALSE, since |-> asker[s].since]
<1>1. Turn(s, place) /\ place.at = "answered"
  BY DEF Informed
<1>2. AskersFit'
  <2> HIDE DEF place
  <2> QED
    BY <1>1, TurnFits
<1>3. HistoryFits'
  BY DEF GrantInv, HistoryFits
<1>4. RememberedFits'
  <2> DEFINE since == asker[s].since
  <2>1. /\ remembered'.until = since + Window /\ remembered'.account = learned
        /\ remembered'.role = mapped
    BY DEF Remember
  <2>2. ticks \in 0..MaxTicks
    BY DEF GrantInv, HistoryFits
  <2>3. remembered'.until \in 0..(MaxTicks + Window)
    BY <2>1, <2>2, TimeIsCounted
  <2>4. /\ since \in 0..ticks' /\ HeldSince(since, remembered'.account)
        /\ remembered'.account \notin Refused => HeldSince(since, remembered'.role)
    BY <2>1
  <2> HIDE DEF since
  <2>5. \E tick \in 0..ticks' :
            /\ remembered'.until = tick + Window
            /\ remembered'.account \in DOMAIN lastHeld' /\ lastHeld'[remembered'.account] >= tick
            /\ remembered'.account \notin Refused =>
                 remembered'.role \in DOMAIN lastHeld' /\ lastHeld'[remembered'.role] >= tick
    BY <2>1, <2>4 DEF HeldSince
  <2> QED
    BY <2>3, <2>5 DEF RememberedFits, HeldSince
<1>5. InTimeAsTheyAnswer
  <2> SUFFICES ASSUME NEW t \in Asker, Replies(t)
               PROVE  LET answer == asker'[t]
                          InTime(v) == IF answer.cached THEN lastHeld[v] + Window > ticks
                                                        ELSE lastHeld[v] >= answer.since
                      IN  InTime(answer.account) /\ (answer.account \notin Refused => InTime(answer.role))
    BY DEF InTimeAsTheyAnswer
  <2>1. t = s /\ asker'[t] = place
    BY <1>1 DEF Turn, Replies, GrantInv, AskersFit
  <2> QED
    BY <2>1 DEF HeldSince
<1> QED
  BY <1>2, <1>3, <1>4, <1>5 DEF GrantInv

(* A step in which nobody gets an answer. *)
LEMMA NobodyAnswered ==
  ASSUME GrantInv, NEW s \in Asker, NEW place, Turn(s, place), place.at # "answered"
  PROVE  InTimeAsTheyAnswer
  BY DEF Turn, GrantInv, AskersFit, InTimeAsTheyAnswer, Replies

LEMMA AnswerFromCacheKeeps ==
  ASSUME GrantInv, NEW s \in Asker, AnswerFromCache(s)
  PROVE  GrantInv' /\ InTimeAsTheyAnswer
<1> DEFINE place == [at |-> "answered", account |-> remembered.account, role |-> remembered.role,
                     cached |-> TRUE, since |-> ticks]
<1>1. Turn(s, place) /\ place.at = "answered" /\ UNCHANGED <<ticks, account, role, lastHeld, remembered>>
      /\ remembered.until > ticks
  BY DEF AnswerFromCache
<1>2. ticks \in 0..MaxTicks /\ ticks \in Nat
  BY TimeIsCounted DEF GrantInv, HistoryFits
<1>3. AskersFit'
  <2> HIDE DEF place
  <2> QED
    BY <1>1, TurnFits
<1>4. RememberedFits' /\ HistoryFits'
  BY <1>1 DEF GrantInv, RememberedFits, HistoryFits, HeldSince
<1>5. PICK since \in 0..ticks :
            /\ remembered.until = since + Window
            /\ HeldSince(since, remembered.account)
            /\ remembered.account \notin Refused => HeldSince(since, remembered.role)
  <2>1. remembered.until > 0
    BY <1>1, <1>2 DEF GrantInv, RememberedFits
  <2> QED
    BY <2>1 DEF GrantInv, RememberedFits
<1>6. ASSUME NEW v, HeldSince(since, v)
      PROVE  lastHeld[v] + Window > ticks
  <2>1. lastHeld[v] \in 0..ticks /\ lastHeld[v] >= since
    BY <1>6 DEF HeldSince, GrantInv, HistoryFits
  <2> QED
    BY <1>1, <1>2, <1>5, <2>1, TimeIsCounted
<1>7. InTimeAsTheyAnswer
  <2> SUFFICES ASSUME NEW t \in Asker, Replies(t)
               PROVE  LET answer == asker'[t]
                          InTime(v) == IF answer.cached THEN lastHeld[v] + Window > ticks
                                                        ELSE lastHeld[v] >= answer.since
                      IN  InTime(answer.account) /\ (answer.account \notin Refused => InTime(answer.role))
    BY DEF InTimeAsTheyAnswer
  <2>1. t = s /\ asker'[t] = place
    BY <1>1 DEF Turn, Replies, GrantInv, AskersFit
  <2> QED
    BY <1>5, <1>6, <2>1
<1> QED
  BY <1>3, <1>4, <1>7 DEF GrantInv

LEMMA AskerStepKeeps ==
  ASSUME GrantInv, NEW s \in Asker,
         \/ \E fresh \in BOOLEAN : AskProvider(s, fresh)
         \/ AnswerFromCache(s) \/ LearnAccount(s) \/ LearnRoles(s)
         \/ LookupFails(s) \/ Decides(s)
  PROVE  GrantInv' /\ InTimeAsTheyAnswer
<1>1. ticks \in 0..MaxTicks /\ ticks \in Nat
  BY TimeIsCounted DEF GrantInv, HistoryFits
<1>2. ASSUME NEW place, Turn(s, place), place.at # "answered",
             \/ place = NotAsking
             \/ place.at = "account" /\ place.since \in 0..ticks
             \/ /\ place.at = "roles" /\ place.since \in 0..ticks
                /\ HeldSince(place.since, place.account),
             UNCHANGED <<ticks, account, role, lastHeld, remembered>>
      PROVE  GrantInv' /\ InTimeAsTheyAnswer
  <2>1. AskersFit'
    BY <1>2, TurnFits
  <2>2. HistoryFits' /\ RememberedFits'
    BY <1>2 DEF GrantInv, HistoryFits, RememberedFits, HeldSince
  <2> QED
    BY <1>2, <2>1, <2>2, NobodyAnswered DEF GrantInv
<1>3. NotAsking.at = "none"
  BY DEF NotAsking
<1>4. CASE \E fresh \in BOOLEAN : AskProvider(s, fresh)
  <2> DEFINE place == [at |-> "account", since |-> ticks]
  <2>1. /\ Turn(s, place) /\ place.at = "account" /\ place.since \in 0..ticks
        /\ UNCHANGED <<ticks, account, role, lastHeld, remembered>>
    BY <1>1, <1>4 DEF AskProvider
  <2> HIDE DEF place
  <2> QED
    BY <1>2, <2>1
<1>5. CASE LookupFails(s) \/ Decides(s)
  BY <1>2, <1>3, <1>5 DEF LookupFails, Decides
<1>6. CASE LearnAccount(s)
  <2>1. asker[s].at = "account" /\ asker[s].since \in 0..ticks
    BY <1>3, <1>6 DEF LearnAccount, GrantInv, AskersFit
  <2>2. HeldSince(asker[s].since, account)
    BY <2>1, <1>1 DEF HeldSince, GrantInv, HistoryFits
  <2>3. CASE account \in Refused
    BY <1>6, <2>1, <2>2, <2>3, AnswerFits DEF LearnAccount
  <2>4. CASE account \notin Refused
    <3> DEFINE place == [at |-> "roles", since |-> asker[s].since, account |-> account]
    <3>1. /\ Turn(s, place) /\ place.at = "roles" /\ place.since \in 0..ticks
          /\ HeldSince(place.since, place.account)
          /\ UNCHANGED <<ticks, account, role, lastHeld, remembered>>
      BY <1>6, <2>1, <2>2, <2>4 DEF LearnAccount
    <3> HIDE DEF place
    <3> QED
      BY <1>2, <3>1
  <2> QED
    BY <2>3, <2>4
<1>7. CASE LearnRoles(s)
  <2>1. /\ asker[s].at = "roles" /\ asker[s].since \in 0..ticks
        /\ HeldSince(asker[s].since, asker[s].account)
    BY <1>3, <1>7 DEF LearnRoles, GrantInv, AskersFit
  <2>2. HeldSince(asker[s].since, role)
    BY <2>1, <1>1 DEF HeldSince, GrantInv, HistoryFits
  <2> QED
    BY <1>7, <2>1, <2>2, AnswerFits DEF LearnRoles
<1> QED
  BY <1>4, <1>5, <1>6, <1>7, AnswerFromCacheKeeps

LEMMA GrantNextKeeps ==
  ASSUME GrantInv, [GrantNext]_grantVars
  PROVE  GrantInv' /\ [InTimeAsTheyAnswer]_grantVars
<1>1. ticks \in 0..MaxTicks /\ ticks \in Nat
  BY TimeIsCounted DEF GrantInv, HistoryFits
<1>2. CASE ChangeGrants \/ Tick
  <2>1. /\ ticks' \in ticks..MaxTicks /\ lastHeld' = HeldNow(ticks')
        /\ asker' = asker /\ remembered' = remembered
    BY <1>1, <1>2, TimeIsCounted DEF ChangeGrants, Tick
  <2>2. /\ HistoryFits'
        /\ \A v, since : HeldSince(since, v) /\ since \in Nat => HeldSince(since, v)'
    BY <2>1, HeldSinceStays DEF GrantInv
  <2>3. ticks' \in Nat /\ ticks' >= ticks
    BY <1>1, <2>1, TimeIsCounted
  <2>4. RememberedFits' /\ AskersFit'
    BY <1>1, <2>1, <2>2, <2>3, RememberedStays, AskersStay
  <2>5. InTimeAsTheyAnswer
    BY <2>1 DEF InTimeAsTheyAnswer, Replies
  <2> QED
    BY <2>2, <2>4, <2>5 DEF GrantInv
<1>3. CASE \E s \in Asker :
         \/ \E fresh \in BOOLEAN : AskProvider(s, fresh)
         \/ AnswerFromCache(s) \/ LearnAccount(s) \/ LearnRoles(s)
         \/ LookupFails(s) \/ Decides(s)
  BY <1>3, AskerStepKeeps
<1>4. CASE UNCHANGED grantVars
  BY <1>4 DEF grantVars, GrantInv, HistoryFits, RememberedFits, AskersFit, HeldSince
<1> QED
  BY <1>2, <1>3, <1>4 DEF GrantNext

(* The clock, the history and what is remembered are in range.             *)
LEMMA GrantInvTypes ==
  ASSUME GrantInv
  PROVE  GrantTypeOK
  BY DEF GrantInv, HistoryFits, RememberedFits, AskersFit, GrantTypeOK, NotAsking

(* Whatever an answer says was so at a moment since it was asked, or since *)
(* the window before a remembered one, however the lookups overlap.        *)
THEOREM AnswersAreInTime == GrantSpec => RevocationIsSeen
<1>1. GrantInit => GrantInv
  BY GrantStarts
<1>2. GrantInv /\ [GrantNext]_grantVars => GrantInv' /\ [InTimeAsTheyAnswer]_grantVars
  BY GrantNextKeeps
<1>3. [InTimeAsTheyAnswer]_grantVars =>
        [\A s \in Asker : Replies(s) =>
         LET answer == asker'[s]
             InTime(v) == IF answer.cached THEN lastHeld[v] + Window > ticks
                                           ELSE lastHeld[v] >= answer.since
         IN  InTime(answer.account) /\ (answer.account \notin Refused => InTime(answer.role))]_grantVars
  BY DEF InTimeAsTheyAnswer
<1> QED
  BY <1>1, <1>2, <1>3, PTL DEF GrantSpec, RevocationIsSeen

-----------------------------------------------------------------------------
(* Sequences that name each element once. *)

LEMMA UnlistedIs ==
  ASSUME NEW S, NEW s \in Seq(S), IsInjective(s), NEW e
  PROVE  LET r == Unlisted(s, e)
         IN  /\ r \in Seq(S) /\ IsInjective(r)
             /\ Len(r) \in Nat /\ Len(s) \in Nat /\ Len(s) <= Len(r) + 1
             /\ \A k \in 1..Len(r) : r[k] # e
<1> DEFINE r == Unlisted(s, e)
           I == {i \in 1..Len(s) : s[i] = e}
<1>1. Len(s) \in Nat /\ DOMAIN s = 1..Len(s)
  BY LenProperties
<1>2. CASE I = {}
  <2>1. r = s
    BY <1>1, <1>2 DEF Unlisted
  <2> QED
    BY <1>1, <1>2, <2>1
<1>3. CASE I # {}
  <2> DEFINE n == CHOOSE n \in DOMAIN s : s[n] = e
  <2>1. n \in I
    BY <1>1, <1>3
  <2>2. r = SubSeq(s, 1, n - 1) \o SubSeq(s, n + 1, Len(s))
    BY <1>1, <1>3 DEF Unlisted
  <2> HIDE DEF n
  <2>3. n \in 1..Len(s) /\ s[n] = e
    BY <2>1
  <2> DEFINE front == SubSeq(s, 1, n - 1)
             back == SubSeq(s, n + 1, Len(s))
  <2>4. /\ front \in Seq(S) /\ Len(front) = n - 1
        /\ \A k \in 1..(n - 1) : front[k] = s[k]
    BY <1>1, <2>3, SubSeqProperties
  <2>5. /\ back \in Seq(S) /\ Len(back) = Len(s) - n
        /\ \A k \in 1..(Len(s) - n) : back[k] = s[n + k]
    <3>1. n + 1 \in Int /\ Len(s) \in Int /\ \A k \in (n + 1)..Len(s) : s[k] \in S
      BY <1>1, <2>3
    <3>2. /\ back \in Seq(S)
          /\ Len(back) = IF n + 1 <= Len(s) THEN Len(s) - (n + 1) + 1 ELSE 0
          /\ \A k \in 1..(Len(s) - (n + 1) + 1) : back[k] = s[(n + 1) + k - 1]
      BY <3>1, SubSeqProperties
    <3> HIDE DEF back, I, r
    <3>3. Len(back) = Len(s) - n
      <4>1. n \in Nat /\ Len(s) \in Nat /\ n <= Len(s)
        BY <1>1, <2>3
      <4>2. CASE n + 1 <= Len(s)
        <5>1. Len(back) = Len(s) - (n + 1) + 1
          BY <3>2, <4>2
        <5> QED
          BY <4>1, <5>1
      <4>3. CASE ~(n + 1 <= Len(s))
        <5>1. Len(back) = 0
          BY <3>2, <4>3
        <5>2. n = Len(s)
          BY <4>1, <4>3
        <5> QED
          BY <5>1, <5>2
      <4> QED
        BY <4>2, <4>3
    <3>4. ASSUME NEW k \in 1..(Len(s) - n) PROVE back[k] = s[n + k]
      <4>1. (n + 1) + k - 1 = n + k /\ k \in 1..(Len(s) - (n + 1) + 1)
        BY <1>1, <2>3
      <4> QED
        BY <3>2, <4>1
    <3> QED
      BY <3>2, <3>3, <3>4
  <2>6. r = front \o back
    BY <2>2
  <2> HIDE DEF front, back, r
  <2>7. /\ r \in Seq(S) /\ Len(r) = Len(s) - 1
        /\ \A k \in 1..Len(r) : r[k] = IF k < n THEN s[k] ELSE s[k + 1]
    <3>1. r \in Seq(S) /\ Len(r) = Len(front) + Len(back)
      BY <2>4, <2>5, <2>6, ConcatProperties
    <3>2. ASSUME NEW k \in 1..Len(r)
          PROVE  r[k] = IF k < n THEN s[k] ELSE s[k + 1]
      <4>1. r[k] = IF k <= Len(front) THEN front[k] ELSE back[k - Len(front)]
        <5>1. \A m \in 1..(Len(front) + Len(back)) :
                (front \o back)[m] = IF m <= Len(front) THEN front[m] ELSE back[m - Len(front)]
          BY <2>4, <2>5, ConcatProperties
        <5> QED
          BY <2>6, <3>1, <5>1
      <4> QED
        BY <1>1, <2>3, <2>4, <2>5, <3>1, <4>1
    <3> QED
      BY <1>1, <2>3, <2>4, <2>5, <3>1, <3>2
  <2>8. \A k, m \in 1..Len(s) : s[k] = s[m] => k = m
    BY <1>1 DEF IsInjective
  <2>9. \A k, m \in 1..Len(r) : r[k] = r[m] => k = m
    BY <1>1, <2>3, <2>7, <2>8
  <2>10. \A k \in 1..Len(r) : r[k] # e
    BY <1>1, <2>3, <2>7, <2>8
  <2>11. DOMAIN r = 1..Len(r)
    BY <2>7, LenProperties
  <2> QED
    BY <1>1, <2>3, <2>7, <2>9, <2>10, <2>11 DEF IsInjective, r
<1> QED
  BY <1>2, <1>3

-----------------------------------------------------------------------------
(* The tool ledger: a call whose entry was not pruned under it holds the   *)
(* arguments and the lock that the ledger has for its request.             *)

Kept == [for : Argument \cup {NoArgument}, pruned : BOOLEAN]
Waiting == [at : {"lock", "slot", "run", "audit"}, q : ToolRequest, args : Argument,
            lock : Nat, pruned : BOOLEAN]
Told == [at : {"answered"}, q : ToolRequest, args : Argument, lock : Nat,
         pruned : BOOLEAN, got : Kept]
CallPlace == {NotCalling} \cup Waiting \cup Told
Locked == {"slot", "run", "audit"}

EntriesFit ==
    /\ accepted \in Nat
    /\ hashes \in [ToolRequest -> Argument \cup {NoArgument}]
    /\ locks \in [ToolRequest -> 0..accepted]
    /\ \A q \in ToolRequest : hashes[q] # NoArgument <=> locks[q] # 0
    /\ results \in [ToolRequest -> Kept]
    /\ \A q \in ToolRequest :
         \/ results[q] = NoResult \/ results[q].pruned
         \/ hashes[q] # NoArgument /\ results[q].for = hashes[q]

CapacityKept == IsFiniteSet(Entries) /\ Cardinality(Entries) <= Capacity

CompletedFit ==
    completed \in Seq(ToolRequest) /\ IsInjective(completed) /\ aged \in 0..Len(completed)

CallFits(row) ==
    row # NotCalling =>
        /\ row.lock \in 1..accepted
        /\ ~row.pruned =>
             /\ hashes[row.q] = row.args /\ locks[row.q] = row.lock
             /\ row.at = "run" => results[row.q] = NoResult \/ results[row.q].pruned
             /\ row.at = "answered" => row.got.for = row.args \/ row.got.pruned

CallsFit ==
    /\ call \in [Caller -> CallPlace]
    /\ \A c \in Caller : CallFits(call[c])
    /\ \A c, e \in Caller :
         c # e /\ call[c].at \in Locked /\ call[e].at \in Locked => call[c].lock # call[e].lock

ToolInv == EntriesFit /\ CapacityKept /\ CompletedFit /\ CallsFit

LEMMA CallPlaceIs ==
  ASSUME NEW row \in CallPlace
  PROVE  /\ row = NotCalling <=> row.at = "idle"
         /\ row.at \in {"lock", "slot", "run", "audit"} => row \in Waiting
         /\ row.at = "answered" => row \in Told
         /\ row # NotCalling => /\ row.at \in {"lock", "slot", "run", "audit", "answered"}
                                /\ row.q \in ToolRequest /\ row.args \in Argument
                                /\ row.lock \in Nat /\ row.pruned \in BOOLEAN
<1>1. CASE row = NotCalling
  BY <1>1 DEF NotCalling
<1>2. CASE row \in Waiting
  BY <1>2 DEF Waiting, NotCalling
<1>3. CASE row \in Told
  BY <1>3 DEF Told, NotCalling
<1> QED
  BY <1>1, <1>2, <1>3 DEF CallPlace

LEMMA ToolStarts ==
  ASSUME ToolInit
  PROVE  ToolInv
<1> USE DEF ToolInit
<1>1. EntriesFit
  BY NoArgumentIsNone DEF EntriesFit, Kept, NoResult
<1>2. Entries = {}
  BY DEF Entries
<1>3. CapacityKept
  BY <1>2, FS_EmptySet, LedgerHasRoom DEF CapacityKept
<1>4. CompletedFit
  <2>1. completed = <<>> /\ Len(completed) = 0 /\ DOMAIN completed = {}
    OBVIOUS
  <2> QED
    BY <2>1 DEF CompletedFit, IsInjective
<1>5. CallsFit
  BY DEF CallsFit, CallPlace, CallFits, NotCalling, Locked
<1> QED
  BY <1>1, <1>3, <1>4, <1>5 DEF ToolInv

(* A step of one call that leaves the ledger's entries alone.              *)
LEMMA CallMoves ==
  ASSUME ToolInv, NEW c \in Caller, NEW next \in CallPlace, call' = [call EXCEPT ![c] = next],
         UNCHANGED <<hashes, locks, results, accepted>>, CallFits(next),
         next.at \in Locked => \A e \in Caller \ {c} : call[e].at \in Locked => call[e].lock # next.lock
  PROVE  EntriesFit' /\ CapacityKept' /\ CallsFit'
<1>1. EntriesFit' /\ CapacityKept'
  <2>1. Entries' = Entries
    BY DEF Entries
  <2> QED
    BY <2>1 DEF ToolInv, EntriesFit, CapacityKept
<1>2. call' \in [Caller -> CallPlace] /\ call'[c] = next /\ \A e \in Caller \ {c} : call'[e] = call[e]
  BY DEF ToolInv, CallsFit
<1>3. ASSUME NEW e \in Caller PROVE CallFits(call[e])'
  <2>1. CallFits(call'[e])
    BY <1>2 DEF ToolInv, CallsFit
  <2> QED
    BY <2>1 DEF CallFits
<1>4. ASSUME NEW d \in Caller, NEW e \in Caller, d # e,
             call'[d].at \in Locked, call'[e].at \in Locked
      PROVE  call'[d].lock # call'[e].lock
  BY <1>2, <1>4 DEF ToolInv, CallsFit
<1> QED
  BY <1>1, <1>2, <1>3, <1>4 DEF CallsFit

LEMMA IdleCallFits == NotCalling \in CallPlace /\ CallFits(NotCalling) /\ NotCalling.at \notin Locked
  BY DEF CallPlace, CallFits, NotCalling, Locked

(* A new number is nobody's, and everything else stays. *)
LEMMA JoinKeeps ==
  ASSUME ToolInv, NEW c \in Caller, NEW q \in ToolRequest, Join(c, q)
  PROVE  ToolInv'
<1> DEFINE next == Calling(q, hashes[q], locks[q])
<1>1. /\ accepted \in Nat /\ accepted' = accepted + 1 /\ call' = [call EXCEPT ![c] = next]
      /\ UNCHANGED <<hashes, locks, results, completed, aged>>
      /\ hashes[q] # NoArgument
  BY DEF Join, ToolInv, EntriesFit
<1>2. hashes[q] \in Argument /\ locks[q] \in 1..accepted
  BY <1>1 DEF ToolInv, EntriesFit
<1>3. /\ next \in CallPlace /\ next.at = "lock" /\ next.at \notin Locked
      /\ next.lock = locks[q] /\ next.q = q /\ next.args = hashes[q]
  BY <1>2 DEF Calling, CallPlace, Waiting, Locked
<1> HIDE DEF next
<1>4. EntriesFit' /\ CapacityKept' /\ CompletedFit'
  <2>1. Entries' = Entries
    BY <1>1 DEF Entries
  <2>2. 0..accepted \subseteq 0..accepted'
    BY <1>1
  <2> QED
    BY <1>1, <2>1, <2>2 DEF ToolInv, EntriesFit, CapacityKept, CompletedFit
<1>5. call' \in [Caller -> CallPlace] /\ call'[c] = next /\ \A e \in Caller \ {c} : call'[e] = call[e]
  BY <1>1, <1>3 DEF ToolInv, CallsFit
<1>6. ASSUME NEW e \in Caller PROVE CallFits(call[e])'
  <2>1. 1..accepted \subseteq 1..accepted'
    BY <1>1
  <2>2. CASE e = c
    BY <1>1, <1>2, <1>3, <1>5, <2>1, <2>2 DEF CallFits
  <2>3. CASE e # c
    <3>1. CallFits(call'[e])
      BY <1>5, <2>3 DEF ToolInv, CallsFit
    <3> QED
      BY <1>1, <2>1, <3>1 DEF CallFits
  <2> QED
    BY <2>2, <2>3
<1>7. ASSUME NEW d \in Caller, NEW e \in Caller, d # e,
             call'[d].at \in Locked, call'[e].at \in Locked
      PROVE  call'[d].lock # call'[e].lock
  BY <1>3, <1>5, <1>7 DEF ToolInv, CallsFit
<1> QED
  BY <1>4, <1>5, <1>6, <1>7 DEF ToolInv, CallsFit

(* Pruning entries: who was with one is marked, and nothing else changes.  *)
LEMMA WithoutIs ==
  ASSUME ToolInv, NEW gone, NEW e \in Caller
  PROVE  /\ Without(gone)[e] \in CallPlace
         /\ Without(gone)[e].at = call[e].at
         /\ Without(gone)[e] = NotCalling <=> call[e] = NotCalling
         /\ call[e] # NotCalling =>
              /\ Without(gone)[e].q = call[e].q /\ Without(gone)[e].args = call[e].args
              /\ Without(gone)[e].lock = call[e].lock
              /\ ~Without(gone)[e].pruned => ~call[e].pruned /\ call[e].q \notin gone
         /\ call[e].at = "answered" => Without(gone)[e].got = call[e].got
<1> DEFINE row == call[e]
           new == Without(gone)[e]
<1>1. row \in CallPlace
  BY DEF ToolInv, CallsFit
<1>2. new = IF row # NotCalling /\ row.q \in gone THEN [row EXCEPT !.pruned = TRUE] ELSE row
  BY DEF Without
<1> HIDE DEF row, new
<1>3. CASE row # NotCalling /\ row.q \in gone
  <2>1. new = [row EXCEPT !.pruned = TRUE]
    BY <1>2, <1>3
  <2>2. CASE row \in Waiting
    BY <2>1, <2>2 DEF Waiting, CallPlace, NotCalling, row, new
  <2>3. CASE row \in Told
    BY <2>1, <2>3 DEF Told, CallPlace, NotCalling, row, new
  <2> QED
    BY <1>1, <1>3, <2>2, <2>3 DEF CallPlace
<1>4. CASE ~(row # NotCalling /\ row.q \in gone)
  <2>1. new = row
    BY <1>2, <1>4
  <2> QED
    BY <1>1, <1>4, <2>1, CallPlaceIs DEF row, new
<1> QED
  BY <1>3, <1>4

LEMMA PrunedIs ==
  ASSUME ToolInv
  PROVE  Pruned \in 0..Len(completed)
<1> DEFINE Enough(k) ==
             \/ k = Len(completed)
             \/ k >= aged /\ Cardinality(Entries \ Oldest(k)) < Capacity
           K == {k \in 0..Len(completed) : Enough(k)}
<1>1. Len(completed) \in Nat
  BY LenProperties DEF ToolInv, CompletedFit
<1>2. K \subseteq Nat /\ K # {} /\ K \subseteq 0..Len(completed)
  BY <1>1
<1>3. PICK k \in K : \A j \in K : k <= j
  <2> HIDE DEF K
  <2> QED
    BY <1>2, LeastElement
<1>4. \A j \in 0..(k - 1) : ~Enough(j)
  BY <1>1, <1>3
<1>5. /\ k \in 0..Len(completed)
      /\ Enough(k)
      /\ \A j \in 0..(k - 1) :
             ~(j >= aged /\ Cardinality(Entries \ Oldest(j)) < Capacity)
  BY <1>3, <1>4
<1> QED
  BY <1>5 DEF Pruned

(* The oldest of the ended requests go. *)
LEMMA CompletedPruned ==
  ASSUME ToolInv, completed' = SubSeq(completed, Pruned + 1, Len(completed)), aged' = 0
  PROVE  CompletedFit'
<1> DEFINE n == Len(completed)
           k == Pruned
           rest == SubSeq(completed, k + 1, n)
<1>1. n \in Nat /\ DOMAIN completed = 1..n /\ k \in 0..n
  BY LenProperties, PrunedIs DEF ToolInv, CompletedFit
<1>2. \A i \in 1..n : completed[i] \in ToolRequest
  BY <1>1 DEF ToolInv, CompletedFit
<1> HIDE DEF k
<1>3. k + 1 \in Int /\ n \in Int /\ \A i \in (k + 1)..n : completed[i] \in ToolRequest
  BY <1>1, <1>2
<1> HIDE DEF n
<1>4. /\ rest \in Seq(ToolRequest)
      /\ Len(rest) = IF k + 1 <= n THEN n - (k + 1) + 1 ELSE 0
      /\ \A i \in 1..(n - (k + 1) + 1) : rest[i] = completed[(k + 1) + i - 1]
  BY <1>3, SubSeqProperties
<1>5. completed' = rest
  BY DEF n, k
<1> HIDE DEF rest
<1>6. Len(rest) \in Nat /\ DOMAIN rest = 1..Len(rest)
  BY <1>4, LenProperties
<1>7. ASSUME NEW i \in 1..Len(rest), NEW j \in 1..Len(rest), rest[i] = rest[j]
      PROVE  i = j
  <2>1. i \in 1..(n - (k + 1) + 1) /\ j \in 1..(n - (k + 1) + 1)
    BY <1>1, <1>4
  <2>2. rest[i] = completed[(k + 1) + i - 1] /\ rest[j] = completed[(k + 1) + j - 1]
    BY <1>4, <2>1
  <2>3. (k + 1) + i - 1 \in 1..n /\ (k + 1) + j - 1 \in 1..n
    BY <1>1, <2>1
  <2>4. (k + 1) + i - 1 = (k + 1) + j - 1
    BY <1>1, <1>7, <2>2, <2>3 DEF ToolInv, CompletedFit, IsInjective
  <2> QED
    BY <1>1, <2>1, <2>4
<1>8. IsInjective(rest)
  BY <1>6, <1>7 DEF IsInjective
<1>9. aged' \in 0..Len(rest)
  BY <1>6
<1> QED
  BY <1>4, <1>5, <1>8, <1>9 DEF CompletedFit

(* complete and abort: each ended request once, the last one at the end.   *)
LEMMA MovedToEndKeeps ==
  ASSUME ToolInv, NEW q \in ToolRequest, MovedToEnd(q)
  PROVE  CompletedFit'
<1> DEFINE r == Unlisted(completed, q)
           n == Len(completed)
<1>1. /\ r \in Seq(ToolRequest) /\ IsInjective(r)
      /\ Len(r) \in Nat /\ n \in Nat /\ n <= Len(r) + 1
      /\ \A k \in 1..Len(r) : r[k] # q
  BY UnlistedIs DEF ToolInv, CompletedFit
<1>2. completed' = Append(r, q) /\ aged' = Cardinality({i \in 1..aged : completed[i] # q})
  BY DEF MovedToEnd
<1> HIDE DEF r
<1>3. /\ completed' \in Seq(ToolRequest) /\ Len(completed') = Len(r) + 1
      /\ \A i \in 1..Len(r) : completed'[i] = r[i]
      /\ completed'[Len(r) + 1] = q
  BY <1>1, <1>2, AppendProperties
<1>4. DOMAIN completed' = 1..(Len(r) + 1) /\ DOMAIN r = 1..Len(r)
  BY <1>1, <1>3, LenProperties
<1>5. IsInjective(completed')
  <2>1. \A i, j \in 1..Len(r) : r[i] = r[j] => i = j
    BY <1>1, <1>4 DEF IsInjective
  <2>2. ASSUME NEW i \in 1..(Len(r) + 1), NEW j \in 1..(Len(r) + 1), completed'[i] = completed'[j]
        PROVE  i = j
    BY <1>1, <1>3, <2>1, <2>2
  <2> QED
    BY <1>4, <2>2 DEF IsInjective
<1>6. aged' \in 0..Len(completed')
  <2> DEFINE young == {i \in 1..aged : completed[i] # q}
  <2>1. aged \in 0..n /\ aged \in Nat
    BY <1>1 DEF ToolInv, CompletedFit
  <2>2. IsFiniteSet(1..aged) /\ Cardinality(1..aged) = aged
    BY <2>1, FS_Interval
  <2>3. young \subseteq 1..aged
    OBVIOUS
  <2> HIDE DEF young
  <2>4. IsFiniteSet(young) /\ Cardinality(young) <= aged
    BY <2>2, <2>3, FS_Subset
  <2>5. Cardinality(young) \in Nat
    BY <2>4, FS_CardinalityType
  <2> QED
    BY <1>1, <1>2, <1>3, <2>1, <2>4, <2>5 DEF young
<1> QED
  BY <1>3, <1>5, <1>6 DEF CompletedFit

(* A new entry, or none when pruning made no room. *)
LEMMA EnlistKeeps ==
  ASSUME ToolInv, NEW c \in Caller, NEW q \in ToolRequest, NEW args \in Argument,
         Enlist(c, q, args)
  PROVE  ToolInv'
<1> DEFINE gone == Oldest(Pruned)
           room == Cardinality(Entries \ gone) < Capacity
           next == Calling(q, args, accepted + 1)
<1>1. /\ call[c] = NotCalling /\ hashes[q] = NoArgument
      /\ completed' = SubSeq(completed, Pruned + 1, Len(completed)) /\ aged' = 0
      /\ results' = Left(results, gone, NoResult)
      /\ room =>
           /\ accepted' = accepted + 1
           /\ hashes' = [Left(hashes, gone, NoArgument) EXCEPT ![q] = args]
           /\ locks' = [Left(locks, gone, 0) EXCEPT ![q] = accepted + 1]
           /\ call' = [Without(gone) EXCEPT ![c] = next]
      /\ ~room =>
           /\ accepted' = accepted
           /\ hashes' = Left(hashes, gone, NoArgument)
           /\ locks' = Left(locks, gone, 0)
           /\ call' = Without(gone)
  BY DEF Enlist
<1>2. CompletedFit'
  BY <1>1, CompletedPruned
<1> HIDE DEF gone
<1>3. /\ accepted \in Nat /\ accepted' \in Nat /\ accepted <= accepted'
      /\ args # NoArgument
  BY <1>1, NoArgumentIsNone DEF ToolInv, EntriesFit
<1>4. \A r \in ToolRequest :
         /\ hashes'[r] = IF room /\ r = q THEN args
                         ELSE IF r \in gone THEN NoArgument ELSE hashes[r]
         /\ locks'[r] = IF room /\ r = q THEN accepted + 1
                        ELSE IF r \in gone THEN 0 ELSE locks[r]
         /\ results'[r] = IF r \in gone THEN NoResult ELSE results[r]
  BY <1>1 DEF Left
<1>5. EntriesFit'
  <2>1. /\ hashes' \in [ToolRequest -> Argument \cup {NoArgument}]
        /\ locks' \in [ToolRequest -> 0..accepted']
        /\ results' \in [ToolRequest -> Kept]
    <3>1. /\ DOMAIN hashes' = ToolRequest /\ hashes' = [r \in ToolRequest |-> hashes'[r]]
          /\ DOMAIN locks' = ToolRequest /\ locks' = [r \in ToolRequest |-> locks'[r]]
          /\ DOMAIN results' = ToolRequest /\ results' = [r \in ToolRequest |-> results'[r]]
      BY <1>1 DEF Left
    <3>2. ASSUME NEW r \in ToolRequest
          PROVE  /\ hashes'[r] \in Argument \cup {NoArgument}
                 /\ locks'[r] \in 0..accepted'
                 /\ results'[r] \in Kept
      <4>1. /\ hashes[r] \in Argument \cup {NoArgument} /\ locks[r] \in 0..accepted
            /\ results[r] \in Kept /\ NoResult \in Kept
        BY DEF ToolInv, EntriesFit, NoResult, Kept
      <4>2. 0..accepted \subseteq 0..accepted' /\ 0 \in 0..accepted'
        BY <1>3
      <4>3. room => accepted + 1 \in 0..accepted'
        BY <1>1, <1>3
      <4> QED
        BY <1>4, <4>1, <4>2, <4>3
    <3> QED
      BY <3>1, <3>2
  <2>2. ASSUME NEW r \in ToolRequest
        PROVE  /\ hashes'[r] # NoArgument <=> locks'[r] # 0
               /\ \/ results'[r] = NoResult \/ results'[r].pruned
                  \/ hashes'[r] # NoArgument /\ results'[r].for = hashes'[r]
    <3>1. /\ hashes[r] # NoArgument <=> locks[r] # 0
          /\ \/ results[r] = NoResult \/ results[r].pruned
             \/ hashes[r] # NoArgument /\ results[r].for = hashes[r]
      BY DEF ToolInv, EntriesFit
    <3>2. accepted + 1 # 0
      BY <1>3
    <3> HIDE DEF room
    <3>3. hashes'[r] # NoArgument <=> locks'[r] # 0
      BY <1>3, <1>4, <3>1, <3>2
    <3>4. CASE r \in gone
      BY <1>4, <3>3, <3>4
    <3>5. CASE r \notin gone /\ r = q
      BY <1>1, <1>4, <3>1, <3>3, <3>5
    <3>6. CASE r \notin gone /\ r # q
      BY <1>4, <3>1, <3>3, <3>6
    <3> QED
      BY <3>3, <3>4, <3>5, <3>6
  <2> QED
    BY <1>3, <2>1, <2>2 DEF EntriesFit
<1>6. CapacityKept'
  <2>1. IsFiniteSet(Entries) /\ Cardinality(Entries) <= Capacity /\ Capacity \in Nat
    BY LedgerHasRoom DEF ToolInv, CapacityKept
  <2> DEFINE left == Entries \ gone
  <2>2. left \subseteq Entries /\ q \notin left
    BY <1>1 DEF Entries
  <2>3. Entries' = IF room THEN left \cup {q} ELSE left
    <3> HIDE DEF room
    <3> QED
      BY <1>3, <1>4 DEF Entries
  <2> HIDE DEF left
  <2>4. IsFiniteSet(left) /\ Cardinality(left) <= Cardinality(Entries)
    BY <2>1, <2>2, FS_Subset
  <2>5. Cardinality(left) \in Nat /\ Cardinality(Entries) \in Nat
    BY <2>1, <2>4, FS_CardinalityType
  <2>6. IsFiniteSet(left \cup {q}) /\ Cardinality(left \cup {q}) = Cardinality(left) + 1
    BY <2>2, <2>4, FS_AddElement
  <2>7. CASE room
    <3>1. Cardinality(left) < Capacity
      BY <2>7 DEF left
    <3> QED
      BY <2>1, <2>3, <2>5, <2>6, <2>7, <3>1 DEF CapacityKept
  <2>8. CASE ~room
    BY <2>1, <2>3, <2>4, <2>5, <2>8 DEF CapacityKept
  <2> QED
    BY <2>7, <2>8
<1>7. CallsFit'
  <2>1. next \in CallPlace /\ next.at = "lock" /\ next.at \notin Locked
        /\ next.q = q /\ next.args = args /\ next.lock = accepted + 1
    BY <1>3 DEF Calling, CallPlace, Waiting, Locked
  <2> HIDE DEF next
  <2>2. \A e \in Caller : Without(gone)[e] \in CallPlace
    BY WithoutIs
  <2>3. Without(gone) \in [Caller -> CallPlace]
    <3>1. Without(gone) = [e \in Caller |-> Without(gone)[e]]
      BY DEF Without
    <3> QED
      BY <2>2, <3>1
  <2>4. /\ call' \in [Caller -> CallPlace]
        /\ \A e \in Caller : call'[e] = IF room /\ e = c THEN next ELSE Without(gone)[e]
    <3> HIDE DEF room
    <3> QED
      BY <1>1, <2>1, <2>3
  <2>5. ASSUME NEW e \in Caller PROVE CallFits(call[e])'
    <3>1. CASE room /\ e = c
      <4>1. call'[e] = next
        BY <2>4, <3>1
      <4>2. next.lock \in 1..accepted' /\ hashes'[q] = args /\ locks'[q] = accepted + 1
        BY <1>1, <1>3, <1>4, <2>1, <3>1
      <4> QED
        BY <2>1, <4>1, <4>2 DEF CallFits
    <3>2. CASE ~(room /\ e = c)
      <4> DEFINE row == call'[e]
      <4>1. row = Without(gone)[e]
        BY <2>4, <3>2
      <4>2. CallFits(call[e]) /\ call[e] \in CallPlace
        BY DEF ToolInv, CallsFit
      <4>3. /\ row.at = call[e].at
            /\ row = NotCalling <=> call[e] = NotCalling
            /\ call[e] # NotCalling =>
                 /\ row.q = call[e].q /\ row.args = call[e].args /\ row.lock = call[e].lock
                 /\ ~row.pruned => ~call[e].pruned /\ call[e].q \notin gone
            /\ call[e].at = "answered" => row.got = call[e].got
        BY <4>1, WithoutIs
      <4> HIDE DEF row
      <4>4. ASSUME row # NotCalling
            PROVE  row.lock \in 1..accepted'
        <5>1. row.lock \in 1..accepted
          BY <4>2, <4>3, <4>4 DEF CallFits
        <5> QED
          BY <1>3, <5>1
      <4>5. ASSUME row # NotCalling, ~row.pruned
            PROVE  /\ hashes'[row.q] = row.args /\ locks'[row.q] = row.lock
                   /\ row.at = "run" => results'[row.q] = NoResult \/ results'[row.q].pruned
                   /\ row.at = "answered" => row.got.for = row.args \/ row.got.pruned
        <5>1. /\ row.q \in ToolRequest /\ row.args \in Argument /\ row.q \notin gone
              /\ hashes[row.q] = row.args /\ locks[row.q] = row.lock
              /\ row.at = "run" => results[row.q] = NoResult \/ results[row.q].pruned
              /\ row.at = "answered" => row.got.for = row.args \/ row.got.pruned
          BY <4>2, <4>3, <4>5, CallPlaceIs DEF CallFits
        <5>2. row.q # q
          BY <1>1, <5>1, NoArgumentIsNone
        <5> QED
          BY <1>4, <5>1, <5>2
      <4> QED
        BY <4>4, <4>5 DEF CallFits, row
    <3> QED
      BY <3>1, <3>2
  <2>6. ASSUME NEW d \in Caller, NEW e \in Caller, d # e,
               call'[d].at \in Locked, call'[e].at \in Locked
        PROVE  call'[d].lock # call'[e].lock
    <3>1. ASSUME NEW f \in Caller, call'[f].at \in Locked
          PROVE  call[f].at \in Locked /\ call'[f].lock = call[f].lock
      <4>1. call'[f] = Without(gone)[f]
        BY <2>1, <2>4, <3>1
      <4>2. call[f].at \in Locked
        BY <3>1, <4>1, WithoutIs
      <4>3. call[f] # NotCalling
        BY <4>2, IdleCallFits
      <4> QED
        BY <4>1, <4>2, <4>3, WithoutIs
    <3> QED
      BY <2>6, <3>1 DEF ToolInv, CallsFit
  <2> QED
    BY <2>4, <2>5, <2>6 DEF CallsFit
<1> QED
  BY <1>2, <1>5, <1>6, <1>7 DEF ToolInv

LEMMA CompletedStays ==
  ASSUME ToolInv, completed' = completed, aged' \in 0..Len(completed)
  PROVE  CompletedFit'
  BY DEF ToolInv, CompletedFit

(* Steps of one call that write nothing in the ledger. *)
LEMMA WaitingCallKeeps ==
  ASSUME ToolInv, NEW c \in Caller,
         TakeLock(c) \/ Start(c) \/ Answered(c) \/ Deliver(c) \/ CancelWaiting(c)
  PROVE  ToolInv'
<1> DEFINE row == call[c]
<1>1. /\ UNCHANGED <<hashes, locks, results, completed, aged, accepted>>
      /\ aged \in 0..Len(completed)
  BY DEF TakeLock, Start, Answered, Deliver, CancelWaiting, ToolInv, CompletedFit
<1>2. CompletedFit'
  BY <1>1, CompletedStays
<1>3. /\ row \in CallPlace /\ CallFits(row) /\ call \in [Caller -> CallPlace]
      /\ \A e \in Caller \ {c} :
           row.at \in Locked /\ call[e].at \in Locked => call[e].lock # row.lock
  BY DEF ToolInv, CallsFit
<1>4. SUFFICES EntriesFit' /\ CapacityKept' /\ CallsFit'
  BY <1>2 DEF ToolInv
<1>5. CASE Answered(c) \/ Deliver(c) \/ CancelWaiting(c)
  BY <1>1, <1>5, IdleCallFits, CallMoves DEF Answered, Deliver, CancelWaiting, Hangup
<1>6. CASE TakeLock(c)
  <2> DEFINE next == [row EXCEPT !.at = "slot"]
  <2>1. /\ row.at = "lock" /\ call' = [call EXCEPT ![c] = next]
        /\ \A e \in Caller : call[e].at \in Locked => call[e].lock # row.lock
    BY <1>6 DEF TakeLock, Reaches, Locked
  <2>2. row \in Waiting
    BY <1>3, <2>1, CallPlaceIs
  <2>3. /\ next \in Waiting /\ next.at = "slot" /\ next.q = row.q /\ next.args = row.args
        /\ next.lock = row.lock /\ next.pruned = row.pruned
    BY <2>2 DEF Waiting
  <2> HIDE DEF next
  <2>4. next \in CallPlace /\ row # NotCalling
    BY <1>3, <2>1, <2>3, CallPlaceIs DEF CallPlace
  <2> HIDE DEF row
  <2>5. CallFits(next)
    BY <1>3, <2>3, <2>4 DEF CallFits
  <2> QED
    BY <1>1, <2>1, <2>3, <2>4, <2>5, CallMoves
<1>7. CASE Start(c)
  <2>1. row.at = "slot" /\ row \in Waiting /\ row # NotCalling
    <3>1. row.at = "slot"
      BY <1>7 DEF Start
    <3> QED
      BY <1>3, <3>1, CallPlaceIs
  <2>2. row.q \in ToolRequest /\ results[row.q] \in Kept
    BY <2>1 DEF Waiting, ToolInv, EntriesFit
  <2>3. CASE results[row.q] = NoResult
    <3> DEFINE next == [row EXCEPT !.at = "run"]
    <3>1. call' = [call EXCEPT ![c] = next]
      BY <1>7, <2>3 DEF Start, Reaches
    <3>2. /\ next \in Waiting /\ next.at = "run" /\ next.q = row.q /\ next.args = row.args
          /\ next.lock = row.lock /\ next.pruned = row.pruned
      BY <2>1 DEF Waiting
    <3> HIDE DEF next, row
    <3>3. next \in CallPlace /\ CallFits(next)
      BY <1>3, <2>1, <2>3, <3>2 DEF CallPlace, CallFits
    <3>4. row.at \in Locked
      BY <2>1 DEF Locked
    <3> QED
      BY <1>1, <1>3, <3>1, <3>2, <3>3, <3>4, CallMoves
  <2>4. CASE results[row.q] # NoResult
    <3> DEFINE next == [at |-> "answered", q |-> row.q, args |-> row.args, lock |-> row.lock,
                        pruned |-> row.pruned, got |-> results[row.q]]
    <3>1. call' = [call EXCEPT ![c] = next]
      BY <1>7, <2>4 DEF Start
    <3>2. next \in Told /\ next.at \notin Locked
      BY <2>1, <2>2 DEF Waiting, Told, Locked
    <3>3. \/ results[row.q].pruned
          \/ hashes[row.q] # NoArgument /\ results[row.q].for = hashes[row.q]
      BY <2>2, <2>4 DEF ToolInv, EntriesFit
    <3>4. /\ next.q = row.q /\ next.args = row.args /\ next.lock = row.lock
          /\ next.pruned = row.pruned /\ next.got = results[row.q] /\ next.at = "answered"
      OBVIOUS
    <3> HIDE DEF next, row
    <3>5. next \in CallPlace /\ CallFits(next)
      BY <1>3, <2>1, <3>2, <3>3, <3>4 DEF CallPlace, CallFits
    <3> QED
      BY <1>1, <3>1, <3>2, <3>5, CallMoves
  <2> QED
    BY <2>3, <2>4
<1> QED
  BY <1>5, <1>6, <1>7

(* A running call's end.  Who else runs the same request was pruned, or is *)
(* the reason that the result it leaves is marked.                         *)
LEMMA EndingCallKeeps ==
  ASSUME ToolInv, NEW c \in Caller, Complete(c) \/ Fail(c)
  PROVE  ToolInv'
<1> DEFINE row == call[c]
<1>1. /\ row.at \in {"run", "audit"} /\ row.at \in Locked
      /\ row \in Waiting /\ row # NotCalling /\ CallFits(row)
  <2>1. row.at \in {"run", "audit"}
    BY DEF Complete, Fail
  <2>2. row \in CallPlace /\ CallFits(row)
    BY DEF ToolInv, CallsFit
  <2> QED
    BY <2>1, <2>2, CallPlaceIs DEF Locked
<1>2. row.q \in ToolRequest /\ row.args \in Argument /\ row.pruned \in BOOLEAN
  BY <1>1 DEF Waiting
<1>3. UNCHANGED <<hashes, locks, accepted>> /\ MovedToEnd(row.q)
  BY DEF Complete, Fail
<1>4. CompletedFit'
  BY <1>2, <1>3, MovedToEndKeeps
<1>5. CapacityKept'
  BY <1>3 DEF ToolInv, CapacityKept, Entries
<1>6. PICK result \in Kept :
         /\ results' = [results EXCEPT ![row.q] = result]
         /\ \/ result = NoResult
            \/ result.for = row.args /\ result.pruned = row.pruned
  <2>1. CASE Complete(c)
    <3>1. [for |-> row.args, pruned |-> row.pruned] \in Kept
      BY <1>2 DEF Kept
    <3> QED
      BY <2>1, <3>1 DEF Complete
  <2>2. CASE Fail(c)
    <3>1. NoResult \in Kept
      BY DEF Kept, NoResult
    <3>2. results' = [results EXCEPT ![row.q] = NoResult]
      BY <2>2 DEF Fail
    <3> HIDE DEF row
    <3> QED
      BY <3>1, <3>2
  <2> QED
    BY <2>1, <2>2
<1>7. /\ results' \in [ToolRequest -> Kept] /\ results'[row.q] = result
      /\ \A r \in ToolRequest \ {row.q} : results'[r] = results[r]
  BY <1>2, <1>6 DEF ToolInv, EntriesFit
<1>8. ~row.pruned => hashes[row.q] = row.args /\ locks[row.q] = row.lock
  BY <1>1 DEF CallFits
<1>9. EntriesFit'
  <2>1. ASSUME NEW r \in ToolRequest
        PROVE  \/ results'[r] = NoResult \/ results'[r].pruned
               \/ hashes[r] # NoArgument /\ results'[r].for = hashes[r]
    <3>1. CASE r = row.q
      <4> HIDE DEF row
      <4> QED
        BY <1>2, <1>6, <1>7, <1>8, <3>1, NoArgumentIsNone
    <3>2. CASE r # row.q
      BY <1>7, <3>2 DEF ToolInv, EntriesFit
    <3> QED
      BY <3>1, <3>2
  <2> QED
    BY <1>3, <1>7, <2>1 DEF ToolInv, EntriesFit
<1>10. PICK next \in CallPlace :
          /\ call' = [call EXCEPT ![c] = next]
          /\ \/ next = NotCalling
             \/ /\ next.at = "audit" /\ next.lock = row.lock
                /\ next.q = row.q /\ next.args = row.args /\ next.pruned = row.pruned
  <2>1. CASE Complete(c)
    <3>1. call' = [call EXCEPT ![c] = [row EXCEPT !.at = "audit"]]
      BY <2>1 DEF Complete, Reaches
    <3>2. LET next == [row EXCEPT !.at = "audit"]
          IN  /\ next \in Waiting /\ next.at = "audit" /\ next.lock = row.lock
              /\ next.q = row.q /\ next.args = row.args /\ next.pruned = row.pruned
      BY <1>1 DEF Waiting
    <3> QED
      BY <3>1, <3>2 DEF CallPlace
  <2>2. CASE Fail(c)
    <3>1. call' = [call EXCEPT ![c] = NotCalling]
      BY <2>2 DEF Fail, Hangup
    <3> HIDE DEF row
    <3> QED
      BY <3>1, IdleCallFits
  <2> QED
    BY <2>1, <2>2
<1>11. call' \in [Caller -> CallPlace] /\ call'[c] = next /\ \A e \in Caller \ {c} : call'[e] = call[e]
  BY <1>10 DEF ToolInv, CallsFit
<1>12. ASSUME NEW e \in Caller PROVE CallFits(call[e])'
  <2>1. CASE e = c
    <3>1. call'[e] = next
      BY <1>11, <2>1
    <3> HIDE DEF row
    <3>2. CASE next = NotCalling
      BY <3>1, <3>2 DEF CallFits
    <3>3. CASE next # NotCalling
      BY <1>1, <1>3, <1>10, <3>1, <3>3 DEF CallFits
    <3> QED
      BY <3>2, <3>3
  <2>2. CASE e # c
    <3>1. call'[e] = call[e] /\ call[e] \in CallPlace /\ CallFits(call[e])
      BY <1>11, <2>2 DEF ToolInv, CallsFit
    <3>2. CASE call[e] # NotCalling /\ ~call[e].pruned /\ call[e].at = "run" /\ call[e].q = row.q
      <4>1. locks[row.q] = call[e].lock
        BY <3>1, <3>2 DEF CallFits
      <4>2. call[e].lock # row.lock
        BY <1>1, <2>2, <3>2 DEF ToolInv, CallsFit, Locked
      <4>3. row.pruned
        BY <1>8, <4>1, <4>2
      <4>4. results'[call[e].q] = NoResult \/ results'[call[e].q].pruned
        BY <1>6, <1>7, <3>2, <4>3
      <4> QED
        BY <1>3, <3>1, <3>2, <4>4 DEF CallFits
    <3>3. CASE ~(call[e] # NotCalling /\ ~call[e].pruned /\ call[e].at = "run" /\ call[e].q = row.q)
      <4>1. call[e] # NotCalling => call[e].q \in ToolRequest
        BY <3>1, CallPlaceIs
      <4> QED
        BY <1>3, <1>7, <3>1, <3>3, <4>1 DEF CallFits
    <3> QED
      BY <3>2, <3>3
  <2> QED
    BY <2>1, <2>2
<1>13. ASSUME NEW d \in Caller, NEW e \in Caller, d # e,
              call'[d].at \in Locked, call'[e].at \in Locked
       PROVE  call'[d].lock # call'[e].lock
  <2>1. call'[c].at \in Locked => call'[c].lock = row.lock
    BY <1>10, <1>11, IdleCallFits
  <2>2. \A f, g \in Caller :
          f # g /\ call[f].at \in Locked /\ call[g].at \in Locked => call[f].lock # call[g].lock
    BY DEF ToolInv, CallsFit
  <2> HIDE DEF row
  <2>3. call[c].at \in Locked /\ call[c].lock = row.lock
    BY <1>1 DEF row
  <2> QED
    BY <1>11, <1>13, <2>1, <2>2, <2>3
<1> QED
  BY <1>4, <1>5, <1>9, <1>11, <1>12, <1>13 DEF ToolInv, CallsFit

LEMMA ToolNextKeeps ==
  ASSUME ToolInv, [ToolNext]_toolVars
  PROVE  ToolInv'
<1>1. CASE AgeEntry
  <2>1. CompletedFit'
    BY <1>1 DEF AgeEntry, ToolInv, CompletedFit
  <2>2. Entries' = Entries
    BY <1>1 DEF AgeEntry, Entries
  <2>3. EntriesFit' /\ CapacityKept'
    BY <1>1, <2>2 DEF AgeEntry, ToolInv, EntriesFit, CapacityKept
  <2>4. UNCHANGED <<hashes, locks, results, call, accepted>>
    BY <1>1 DEF AgeEntry
  <2>5. CallsFit'
    BY <2>4 DEF ToolInv, CallsFit, CallFits
  <2> QED
    BY <2>1, <2>3, <2>5 DEF ToolInv
<1>2. CASE \E c \in Caller :
             \/ \E q \in ToolRequest :
                  \/ Join(c, q)
                  \/ \E args \in Argument : Enlist(c, q, args)
             \/ TakeLock(c) \/ Start(c) \/ Answered(c)
             \/ Complete(c) \/ Deliver(c) \/ Fail(c) \/ CancelWaiting(c)
  <2>1. PICK c \in Caller :
             \/ \E q \in ToolRequest :
                  \/ Join(c, q)
                  \/ \E args \in Argument : Enlist(c, q, args)
             \/ TakeLock(c) \/ Start(c) \/ Answered(c)
             \/ Complete(c) \/ Deliver(c) \/ Fail(c) \/ CancelWaiting(c)
    BY <1>2
  <2>2. CASE \E q \in ToolRequest : Join(c, q)
    BY <2>2, JoinKeeps
  <2>3. CASE \E q \in ToolRequest, args \in Argument : Enlist(c, q, args)
    BY <2>3, EnlistKeeps
  <2>4. CASE TakeLock(c) \/ Start(c) \/ Answered(c) \/ Deliver(c) \/ CancelWaiting(c)
    BY <2>4, WaitingCallKeeps
  <2>5. CASE Complete(c) \/ Fail(c)
    BY <2>5, EndingCallKeeps
  <2> QED
    BY <2>1, <2>2, <2>3, <2>4, <2>5
<1>3. CASE UNCHANGED toolVars
  <2>1. Entries' = Entries
    BY <1>3 DEF toolVars, Entries
  <2>2. UNCHANGED <<hashes, locks, results, completed, aged, call, accepted>>
    BY <1>3 DEF toolVars
  <2>3. EntriesFit' /\ CapacityKept' /\ CompletedFit'
    BY <2>1, <2>2 DEF ToolInv, EntriesFit, CapacityKept, CompletedFit
  <2>4. CallsFit'
    BY <2>2 DEF ToolInv, CallsFit, CallFits
  <2> QED
    BY <2>3, <2>4 DEF ToolInv
<1> QED
  BY <1>1, <1>2, <1>3 DEF ToolNext

LEMMA ToolInvAlways == ToolSpec => []ToolInv
<1>1. ToolInit => ToolInv
  BY ToolStarts
<1>2. ToolInv /\ [ToolNext]_toolVars => ToolInv'
  BY ToolNextKeeps
<1> QED
  BY <1>1, <1>2, PTL DEF ToolSpec

(* The ledger is never over its capacity, its ended entries are listed     *)
(* once, an entry has a lock if and only if it has arguments, and a call   *)
(* holds a lock that was handed out.  (IdempotencyLedger.lock, _prune,     *)
(* complete and abort.)                                                    *)
LEMMA ToolInvTypes ==
  ASSUME ToolInv
  PROVE  ToolTypeOK
<1>1. \A c \in Caller : call[c].at # "idle" => call[c].lock \in 1..accepted
  <2> SUFFICES ASSUME NEW c \in Caller, call[c].at # "idle"
               PROVE  call[c].lock \in 1..accepted
    OBVIOUS
  <2>1. call[c] # NotCalling
    BY DEF NotCalling
  <2> QED
    BY <2>1 DEF ToolInv, CallsFit, CallFits
<1> QED
  BY <1>1 DEF ToolInv, EntriesFit, CapacityKept, CompletedFit, IsInjective, ToolTypeOK

(* The ledger never outgrows its capacity, lists a completed entry once,   *)
(* and keeps a lock for every request whose arguments it keeps.            *)
THEOREM LedgerTypeCorrect == ToolSpec => []ToolTypeOK
<1>1. ToolInv => ToolTypeOK
  BY ToolInvTypes
<1> QED
  BY <1>1, ToolInvAlways, PTL

LEMMA DuplicatesAreTold ==
  ASSUME ToolInv
  PROVE  DuplicatesAreSuppressed
<1>1. ASSUME NEW c \in Caller, NEW e \in Caller,
             c # e /\ Going(c) /\ Going(e) /\ Current(c) /\ Current(e)
      PROVE  call[c].q # call[e].q
  <2>1. /\ call[c].at \in Locked /\ call[e].at \in Locked
        /\ call[c] # NotCalling /\ call[e] # NotCalling
    BY <1>1 DEF Going, Locked, NotCalling
  <2>2. call[c].lock = locks[call[c].q] /\ call[e].lock = locks[call[e].q]
    BY <1>1, <2>1 DEF Current, ToolInv, CallsFit, CallFits
  <2>3. call[c].lock # call[e].lock
    BY <1>1, <2>1 DEF ToolInv, CallsFit
  <2> QED
    BY <2>2, <2>3
<1>2. ASSUME NEW c \in Caller, Current(c), call[c].at \in {"run", "answered"}
      PROVE  /\ call[c].at = "run" => results[call[c].q] = NoResult \/ results[call[c].q].pruned
             /\ call[c].at = "answered" => call[c].got.for = call[c].args \/ call[c].got.pruned
  <2>1. call[c] # NotCalling
    BY <1>2 DEF NotCalling
  <2> QED
    BY <1>2, <2>1 DEF Current, ToolInv, CallsFit, CallFits
<1> QED
  BY <1>1, <1>2 DEF DuplicatesAreSuppressed

(* Two calls with one request id do not run together, one whose result is  *)
(* kept does not run again, and a kept result answers its own arguments,   *)
(* but for a call whose entry was pruned under it.  (ToolGateway.execute   *)
(* under the ledger's lock, and abort's tombstones.)                       *)
THEOREM DuplicatesStaySuppressed == ToolSpec => []DuplicatesAreSuppressed
<1>1. ToolInv => DuplicatesAreSuppressed
  BY DuplicatesAreTold
<1> QED
  BY <1>1, ToolInvAlways, PTL

-----------------------------------------------------------------------------
(* The corpus: a document that the ingester is writing is pending and has  *)
(* the build that the ingester made; once a regeneration was requested, a  *)
(* document counts as indexed only with its present rows in the new        *)
(* generation; and the ingester that met another generation has requested  *)
(* one before it publishes.                                                *)

StoredRow == [text : Text, active : BOOLEAN, build : 1..builds,
              status : {"pending_index", "indexed"}]
IndexRow == [doc : Document, build : 1..builds, active : BOOLEAN]

CorpusFits ==
    /\ supplied \in [Document -> Text]
    /\ identity \in Generation
    /\ Stored \subseteq Document
    /\ \A d \in Stored : stored[d] \in StoredRow
    /\ builds \in Nat
    /\ index \in [Generation -> SUBSET IndexRow]
    /\ \A g \in Generation : \A r \in index[g] : r.doc \in Stored
    /\ alias \in Generation \cup {NoGeneration}
    /\ operator \in [Operator -> {NoRequest} \cup [doc : Document, active : BOOLEAN]]
    /\ events \in 0..MaxEvents

Stage == {"todo", "replaced", "cleared", "written", "done", "failed"}
Resting == [at : {"reconcile", "source"}, left : SUBSET Source, requested : BOOLEAN]
Busy(S) == [at : {"ingest", "publish", "retire"}, left : SUBSET Source, requested : BOOLEAN,
            batch : [S -> Text], stage : [S -> Stage], build : [S -> Nat]]
Ingesting == \E s \in Source : ingester \in Busy(s)

Projected(d) == \E r \in index[identity] : r.doc = d /\ r.build = stored[d].build

StagesFit ==
    \A d \in DOMAIN ingester.batch :
        /\ ingester.stage[d] \in {"replaced", "cleared", "written"} =>
             d \in Stored /\ stored[d].status = "pending_index" /\ ingester.build[d] = stored[d].build
        /\ ingester.stage[d] = "written" => Projected(d)

IngesterFits ==
    /\ ingester = Off \/ ingester \in Resting \/ Ingesting
    /\ Ingesting =>
         /\ StagesFit
         /\ alias \notin {NoGeneration, identity} => ingester.requested
    /\ ingester.at = "publish" => NothingPending
    /\ ingester.at = "retire" => alias = identity
    /\ ingester.at = "reconcile" => ~ingester.requested
    /\ ingester # Off /\ ingester.requested /\ alias # identity =>
         \A d \in Stored : stored[d].status = "indexed" => Projected(d)

ReaderFits ==
    /\ \/ reader = Searching
       \/ reader \in [at : {"expand"}, hits : SUBSET IndexRow]
       \/ reader \in [at : {"served"}, passages : SUBSET IndexRow]
    /\ reader.at = "expand" => \A r \in reader.hits : r.active /\ r.doc \in Stored

CorpusInv == CorpusFits /\ IngesterFits /\ ReaderFits

(* What the two promises say of one step.                                  *)
FlipIsWhole ==
    alias # NoGeneration /\ alias' # alias =>
        \A d \in Stored : \E r \in index[alias'] : r.doc = d /\ r.build = stored[d].build

ServesInForce ==
    reader.at = "expand" /\ reader'.at = "served" =>
        \A r \in reader'.passages :
            /\ r.doc \in Stored /\ stored[r.doc].active
            /\ \A q \in reader'.passages : q.doc = r.doc => q = r

LEMMA CorpusStarts ==
  ASSUME KnowledgeInit
  PROVE  CorpusInv
<1>1. Stored = {}
  BY DEF KnowledgeInit, NothingIngested, Stored
<1>2. CorpusFits
  BY <1>1, EventsAreBounded DEF KnowledgeInit, NothingIngested, CorpusFits
<1>3. ingester.at = "off" /\ ~Ingesting
  BY DEF KnowledgeInit, NothingIngested, Off, Ingesting, Busy
<1>4. IngesterFits
  BY <1>3 DEF KnowledgeInit, NothingIngested, IngesterFits
<1>5. ReaderFits
  BY DEF KnowledgeInit, NothingIngested, Searching, ReaderFits
<1> QED
  BY <1>2, <1>4, <1>5 DEF CorpusInv

LEMMA IngesterIs ==
  ASSUME CorpusInv
  PROVE  /\ ingester = Off <=> ingester.at = "off"
         /\ ingester.at \in {"reconcile", "source"} <=> ingester \in Resting
         /\ ingester.at \in {"ingest", "publish", "retire"} <=> Ingesting
<1>1. ingester = Off => ingester.at = "off"
  BY DEF Off
<1>2. ingester \in Resting => ingester.at \in {"reconcile", "source"}
  BY DEF Resting
<1>3. Ingesting => ingester.at \in {"ingest", "publish", "retire"}
  BY DEF Ingesting, Busy
<1> QED
  BY <1>1, <1>2, <1>3 DEF CorpusInv, IngesterFits

(* What was read stays of documents that are there. *)
LEMMA ReaderStays ==
  ASSUME CorpusInv, UNCHANGED reader, builds' \in Nat, builds <= builds', Stored \subseteq Stored'
  PROVE  ReaderFits'
<1>1. IndexRow \subseteq IndexRow'
  BY DEF IndexRow, CorpusInv, CorpusFits
<1>2. \/ reader = Searching
      \/ reader \in [at : {"expand"}, hits : SUBSET IndexRow']
      \/ reader \in [at : {"served"}, passages : SUBSET IndexRow']
  <2>1. CASE reader \in [at : {"expand"}, hits : SUBSET IndexRow]
    BY <1>1, <2>1
  <2>2. CASE reader \in [at : {"served"}, passages : SUBSET IndexRow]
    BY <1>1, <2>2
  <2> QED
    BY <2>1, <2>2 DEF CorpusInv, ReaderFits
<1> QED
  BY <1>2 DEF CorpusInv, ReaderFits

(* A step beside the ingester that leaves builds, status and rows.         *)
LEMMA IngesterStays ==
  ASSUME CorpusInv, UNCHANGED <<identity, alias, ingester>>, Stored' = Stored,
         \A d \in Stored : /\ stored'[d].status = stored[d].status
                           /\ stored'[d].build = stored[d].build
                           /\ Projected(d) => Projected(d)'
  PROVE  IngesterFits'
<1>1. Ingesting' <=> Ingesting
  BY DEF Ingesting, Busy
<1>2. ASSUME Ingesting, StagesFit PROVE StagesFit'
  <2> SUFFICES ASSUME NEW d \in DOMAIN ingester.batch
               PROVE  /\ ingester.stage[d] \in {"replaced", "cleared", "written"} =>
                           /\ d \in Stored' /\ stored'[d].status = "pending_index"
                           /\ ingester.build[d] = stored'[d].build
                      /\ ingester.stage[d] = "written" => Projected(d)'
    BY DEF StagesFit
  <2> QED
    BY <1>2 DEF StagesFit
<1>3. ASSUME NothingPending PROVE NothingPending'
  BY <1>3 DEF NothingPending
<1> QED
  BY <1>1, <1>2, <1>3 DEF CorpusInv, IngesterFits, Resting

LEMMA CorpusStays ==
  ASSUME CorpusInv, UNCHANGED <<supplied, identity, stored, builds, index, alias, operator>>,
         events' \in 0..MaxEvents
  PROVE  CorpusFits' /\ (UNCHANGED reader => ReaderFits')
<1>1. CorpusFits'
  BY DEF CorpusInv, CorpusFits, Stored, StoredRow, IndexRow
<1>2. builds \in Nat /\ builds <= builds' /\ Stored' = Stored
  BY DEF CorpusInv, CorpusFits, Stored
<1> QED
  BY <1>1, <1>2, ReaderStays

LEMMA EventCounts ==
  ASSUME CorpusInv, Event
  PROVE  events' \in 0..MaxEvents
  BY EventsAreBounded DEF CorpusInv, CorpusFits, Event

LEMMA RowsAreLeft ==
  ASSUME CorpusInv, UNCHANGED <<identity, stored, index>>
  PROVE  \A d \in Stored : Projected(d)' <=> Projected(d)
  BY DEF Projected

(* The process ends: what it had in hand is forgotten. *)
LEMMA EndsAndKeeps ==
  ASSUME CorpusInv, ingester' = Off
  PROVE  IngesterFits'
<1>1. ingester'.at = "off"
  BY DEF Off
<1>2. ~Ingesting'
  BY <1>1 DEF Ingesting, Busy
<1> QED
  BY <1>1, <1>2 DEF IngesterFits

-----------------------------------------------------------------------------
(* Steps beside the ingester. *)

LEMMA SurroundingsKeep ==
  ASSUME CorpusInv,
         \/ Upgrade
         \/ \E d \in Document : Change(d)
         \/ \E o \in Operator : ProjectionFails(o)
  PROVE  CorpusInv' /\ FlipIsWhole /\ ServesInForce
<1>1. /\ UNCHANGED <<stored, builds, index, alias, ingester, reader>>
      /\ events' \in 0..MaxEvents /\ Stored' = Stored
  BY EventCounts DEF Upgrade, Change, ProjectionFails, Stored
<1>2. CorpusFits'
  <2>1. /\ supplied' \in [Document -> Text]
        /\ identity' \in Generation
        /\ operator' \in [Operator -> {NoRequest} \cup [doc : Document, active : BOOLEAN]]
    BY DEF CorpusInv, CorpusFits, Upgrade, Change, ProjectionFails
  <2> QED
    BY <1>1, <2>1 DEF CorpusInv, CorpusFits, StoredRow, IndexRow
<1>3. ReaderFits'
  BY <1>1, ReaderStays DEF CorpusInv, CorpusFits
<1>4. IngesterFits'
  <2>1. CASE Upgrade
    BY <2>1, <1>1, EndsAndKeeps DEF Upgrade
  <2>2. CASE UNCHANGED identity
    BY <1>1, <2>2, RowsAreLeft, IngesterStays
  <2> QED
    BY <2>1, <2>2 DEF Change, ProjectionFails
<1>5. FlipIsWhole /\ ServesInForce
  <2>1. FlipIsWhole
    BY <1>1 DEF FlipIsWhole
  <2>2. reader.at = "expand" => reader'.at # "served"
    BY <1>1
  <2> QED
    BY <2>1, <2>2 DEF ServesInForce
<1> QED
  BY <1>2, <1>3, <1>4, <1>5 DEF CorpusInv

LEMMA AuthorityKeeps ==
  ASSUME CorpusInv, NEW o \in Operator, NEW d \in Document, NEW active \in BOOLEAN,
         Authority(o, d, active)
  PROVE  CorpusInv' /\ FlipIsWhole /\ ServesInForce
<1>1. /\ UNCHANGED <<supplied, identity, builds, index, alias, ingester, reader>>
      /\ events' \in 0..MaxEvents
      /\ operator' = [operator EXCEPT ![o] = [doc |-> d, active |-> active]]
      /\ stored' = IF d \in Stored THEN [stored EXCEPT ![d].active = active] ELSE stored
  BY EventCounts DEF Authority
<1>2. Stored' = Stored
  BY <1>1 DEF Stored
<1>3. ASSUME NEW e \in Stored
      PROVE  /\ stored'[e] \in StoredRow
             /\ stored'[e].status = stored[e].status /\ stored'[e].build = stored[e].build
  <2>1. stored[e] \in StoredRow
    BY DEF CorpusInv, CorpusFits
  <2>2. stored'[e] = stored[e] \/ stored'[e] = [stored[e] EXCEPT !.active = active]
    BY <1>1 DEF Stored
  <2> QED
    BY <2>1, <2>2 DEF StoredRow
<1>4. CorpusFits'
  <2>1. operator' \in [Operator -> {NoRequest} \cup [doc : Document, active : BOOLEAN]]
    BY <1>1 DEF CorpusInv, CorpusFits
  <2> QED
    BY <1>1, <1>2, <1>3, <2>1 DEF CorpusInv, CorpusFits, StoredRow, IndexRow
<1>5. ReaderFits'
  BY <1>1, <1>2, ReaderStays DEF CorpusInv, CorpusFits
<1>6. ASSUME NEW e \in Stored, Projected(e) PROVE Projected(e)'
  BY <1>1, <1>3, <1>6 DEF Projected
<1>7. IngesterFits'
  BY <1>1, <1>2, <1>3, <1>6, IngesterStays
<1>8. FlipIsWhole /\ (reader.at = "expand" => reader'.at # "served")
  BY <1>1 DEF FlipIsWhole
<1> QED
  BY <1>4, <1>5, <1>7, <1>8 DEF CorpusInv, ServesInForce

LEMMA ProjectionKeeps ==
  ASSUME CorpusInv, NEW o \in Operator, Projection(o)
  PROVE  CorpusInv' /\ FlipIsWhole /\ ServesInForce
<1> DEFINE Patched(r) == IF r.doc = operator[o].doc
                           THEN [r EXCEPT !.active = operator[o].active] ELSE r
<1>1. /\ UNCHANGED <<supplied, identity, stored, builds, alias, ingester, reader, events>>
      /\ operator' = [operator EXCEPT ![o] = NoRequest]
      /\ index' = [g \in Generation |-> {Patched(r) : r \in index[g]}]
      /\ operator[o] # NoRequest
  BY DEF Projection
<1>2. ASSUME NEW r \in IndexRow
      PROVE  Patched(r) \in IndexRow /\ Patched(r).doc = r.doc /\ Patched(r).build = r.build
  <2>1. operator[o] \in [doc : Document, active : BOOLEAN]
    BY <1>1 DEF CorpusInv, CorpusFits
  <2> QED
    BY <2>1 DEF IndexRow
<1>3. index \in [Generation -> SUBSET IndexRow] /\ identity \in Generation /\ Stored' = Stored
  BY <1>1 DEF CorpusInv, CorpusFits, Stored
<1> HIDE DEF Patched
<1>4. CorpusFits'
  <2>1. operator' \in [Operator -> {NoRequest} \cup [doc : Document, active : BOOLEAN]]
    BY <1>1 DEF CorpusInv, CorpusFits
  <2>2. ASSUME NEW g \in Generation
        PROVE  index'[g] \subseteq IndexRow /\ \A r \in index'[g] : r.doc \in Stored
    <3> SUFFICES ASSUME NEW r \in index'[g] PROVE r \in IndexRow /\ r.doc \in Stored
      OBVIOUS
    <3>1. PICK q \in index[g] : r = Patched(q)
      BY <1>1
    <3>2. q \in IndexRow /\ q.doc \in Stored
      BY <1>3 DEF CorpusInv, CorpusFits
    <3> QED
      BY <1>2, <3>1, <3>2
  <2>3. index' \in [Generation -> SUBSET IndexRow]
    BY <1>1, <2>2
  <2> QED
    BY <1>1, <1>3, <2>1, <2>2, <2>3 DEF CorpusInv, CorpusFits, StoredRow, IndexRow
<1>5. ReaderFits'
  BY <1>1, <1>3, ReaderStays DEF CorpusInv, CorpusFits
<1>6. ASSUME NEW e \in Stored, Projected(e) PROVE Projected(e)'
  <2>1. PICK r \in index[identity] : r.doc = e /\ r.build = stored[e].build
    BY <1>6 DEF Projected
  <2>2. Patched(r) \in index'[identity'] /\ r \in IndexRow
    BY <1>1, <1>3
  <2> QED
    BY <1>1, <1>2, <2>1, <2>2 DEF Projected
<1>7. IngesterFits'
  BY <1>1, <1>3, <1>6, IngesterStays
<1>8. FlipIsWhole /\ (reader.at = "expand" => reader'.at # "served")
  BY <1>1 DEF FlipIsWhole
<1> QED
  BY <1>4, <1>5, <1>7, <1>8 DEF CorpusInv, ServesInForce

(* Two rows that agree with the authority on a document are one row.       *)
LEMMA ReaderKeeps ==
  ASSUME CorpusInv, Search \/ Expand \/ Served
  PROVE  CorpusInv' /\ FlipIsWhole /\ ServesInForce
<1>1. UNCHANGED <<supplied, identity, stored, builds, index, alias, ingester, operator, events>>
  BY DEF Search, Expand, Served
<1>2. CorpusFits' /\ IngesterFits' /\ FlipIsWhole
  <2>1. CorpusFits'
    BY <1>1, CorpusStays DEF CorpusInv, CorpusFits
  <2>2. Stored' = Stored
    BY <1>1 DEF Stored
  <2> QED
    BY <1>1, <2>1, <2>2, RowsAreLeft, IngesterStays DEF FlipIsWhole
<1>3. /\ IndexRow' = IndexRow /\ Stored' = Stored
  BY <1>1 DEF IndexRow, Stored
<1>4. CASE Search
  <2>1. /\ reader' = [at |-> "expand", hits |-> {r \in index[alias] : r.active}]
        /\ alias \in Generation /\ reader.at = "query"
    BY <1>4 DEF Search, CorpusInv, CorpusFits
  <2>2. index[alias] \subseteq IndexRow /\ \A r \in index[alias] : r.doc \in Stored
    BY <2>1 DEF CorpusInv, CorpusFits
  <2>3. ReaderFits'
    BY <1>3, <2>1, <2>2 DEF ReaderFits
  <2> QED
    BY <1>2, <2>1, <2>3 DEF CorpusInv, ServesInForce
<1>5. CASE Expand
  <2>1. /\ reader.at = "expand"
        /\ reader' = [at |-> "served", passages |-> Authorized(reader.hits)]
    BY <1>5 DEF Expand
  <2>2. reader.hits \subseteq IndexRow /\ \A r \in reader.hits : r.active /\ r.doc \in Stored
    BY <2>1 DEF CorpusInv, ReaderFits, Searching
  <2>3. Authorized(reader.hits) \subseteq IndexRow
    BY <2>2 DEF Authorized
  <2>4. ReaderFits'
    BY <1>3, <2>1, <2>3 DEF ReaderFits
  <2>5. ServesInForce
    <3> SUFFICES ASSUME NEW r \in Authorized(reader.hits)
                 PROVE  /\ r.doc \in Stored /\ stored[r.doc].active
                        /\ \A q \in Authorized(reader.hits) : q.doc = r.doc => q = r
      BY <2>1 DEF ServesInForce
    <3>1. r.doc \in Stored /\ stored[r.doc].active /\ r \in reader.hits
      BY <2>2 DEF Authorized
    <3>2. ASSUME NEW q \in Authorized(reader.hits), q.doc = r.doc PROVE q = r
      <4>1. q.build = r.build /\ q.active /\ r.active /\ q \in IndexRow /\ r \in IndexRow
        BY <2>2, <3>2 DEF Authorized
      <4> QED
        BY <3>2, <4>1 DEF IndexRow
    <3> QED
      BY <3>1, <3>2
  <2> QED
    BY <1>2, <2>4, <2>5 DEF CorpusInv
<1>6. CASE Served
  <2>1. reader' = Searching /\ reader.at = "served"
    BY <1>6 DEF Served
  <2>2. ReaderFits'
    BY <2>1 DEF ReaderFits, Searching
  <2> QED
    BY <1>2, <2>1, <2>2 DEF CorpusInv, ServesInForce
<1> QED
  BY <1>4, <1>5, <1>6

-----------------------------------------------------------------------------
(* Steps of the ingester between sources. *)

LEMMA StartIngesterKeeps ==
  ASSUME CorpusInv, NEW sources \in SUBSET Source, StartIngester(sources)
  PROVE  CorpusInv'
<1>1. /\ UNCHANGED <<supplied, identity, stored, builds, index, alias, operator, reader>>
      /\ events' \in 0..MaxEvents
      /\ ingester' = [at |-> "reconcile", left |-> sources, requested |-> FALSE]
  BY EventCounts DEF StartIngester
<1>2. CorpusFits' /\ ReaderFits'
  BY <1>1, CorpusStays
<1>3. ingester' \in Resting /\ ingester'.at = "reconcile" /\ ~ingester'.requested
  BY <1>1 DEF Resting
<1>4. ~Ingesting'
  BY <1>3 DEF Ingesting, Busy
<1> QED
  BY <1>2, <1>3, <1>4 DEF CorpusInv, IngesterFits

LEMMA ReconcileKeeps ==
  ASSUME CorpusInv, Reconcile
  PROVE  CorpusInv'
<1>1. /\ UNCHANGED <<supplied, identity, builds, index, alias, operator, reader, events>>
      /\ stored' = [d \in Stored |-> IF d \in Confirmed
                                       THEN [stored[d] EXCEPT !.status = "indexed"]
                                       ELSE stored[d]]
      /\ ingester' = [ingester EXCEPT !.at = "source"]
      /\ ingester.at = "reconcile"
  BY DEF Reconcile
<1>2. /\ Stored' = Stored
      /\ \A d \in Stored : stored'[d] \in StoredRow
  BY <1>1 DEF Stored, CorpusInv, CorpusFits, StoredRow
<1>3. CorpusFits' /\ ReaderFits'
  <2>1. CorpusFits'
    BY <1>1, <1>2 DEF CorpusInv, CorpusFits, StoredRow, IndexRow
  <2> QED
    BY <1>1, <1>2, <2>1, ReaderStays DEF CorpusInv, CorpusFits
<1>4. ingester \in Resting /\ ~ingester.requested
  BY <1>1, IngesterIs DEF CorpusInv, IngesterFits
<1>5. ingester' \in Resting /\ ingester'.at = "source" /\ ~ingester'.requested
  BY <1>1, <1>4 DEF Resting
<1>6. ~Ingesting'
  BY <1>5 DEF Ingesting, Busy
<1> QED
  BY <1>3, <1>5, <1>6 DEF CorpusInv, IngesterFits

(* A regeneration that is due makes every document pending at once.        *)
LEMMA LoadKeeps ==
  ASSUME CorpusInv, NEW s \in Source, Load(s)
  PROVE  CorpusInv'
<1>1. /\ UNCHANGED <<supplied, identity, builds, index, alias, operator, reader, events>>
      /\ stored' = IF RegenerationDue
                     THEN [d \in Stored |-> [stored[d] EXCEPT !.status = "pending_index"]]
                     ELSE stored
      /\ ingester' = [at |-> "ingest", left |-> ingester.left \ {s},
                      requested |-> ingester.requested \/ RegenerationDue,
                      batch |-> [d \in s |-> supplied[d]],
                      stage |-> [d \in s |-> "todo"],
                      build |-> [d \in s |-> 0]]
      /\ ingester.at = "source"
  BY DEF Load
<1>2. ingester \in Resting /\ ingester # Off
  BY <1>1, IngesterIs DEF Off
<1>3. /\ Stored' = Stored
      /\ \A d \in Stored : /\ stored'[d] \in StoredRow
                           /\ IF RegenerationDue THEN stored'[d].status = "pending_index"
                                                 ELSE stored'[d] = stored[d]
  BY <1>1 DEF Stored, CorpusInv, CorpusFits, StoredRow
<1>4. CorpusFits' /\ ReaderFits'
  <2>1. CorpusFits'
    BY <1>1, <1>3 DEF CorpusInv, CorpusFits, StoredRow, IndexRow
  <2> QED
    BY <1>1, <1>3, <2>1, ReaderStays DEF CorpusInv, CorpusFits
<1>5. ingester' \in Busy(s)
  <2>1. [d \in s |-> supplied[d]] \in [s -> Text]
    BY SourcesHoldDocuments DEF CorpusInv, CorpusFits
  <2>2. [d \in s |-> "todo"] \in [s -> Stage] /\ [d \in s |-> 0] \in [s -> Nat]
    BY DEF Stage
  <2>3. (ingester.requested \/ RegenerationDue) \in BOOLEAN /\ ingester.left \ {s} \in SUBSET Source
    BY <1>2 DEF Resting, RegenerationDue
  <2> QED
    BY <1>1, <2>1, <2>2, <2>3 DEF Busy
<1>6. /\ Ingesting' /\ ingester'.at = "ingest"
      /\ DOMAIN ingester'.batch = s /\ \A d \in s : ingester'.stage[d] = "todo"
  BY <1>1, <1>5 DEF Ingesting, Busy
<1>7. StagesFit'
  BY <1>6 DEF StagesFit
<1>8. alias' \notin {NoGeneration, identity'} => ingester'.requested
  BY <1>1 DEF RegenerationDue
<1>9. ingester'.requested /\ alias' # identity' =>
         \A d \in Stored' : stored'[d].status = "indexed" => Projected(d)'
  <2>1. CASE RegenerationDue
    BY <1>3, <2>1
  <2>2. CASE ~RegenerationDue
    <3>1. ingester'.requested = ingester.requested
      BY <1>1, <1>2, <2>2 DEF Resting
    <3>2. \A d \in Stored : Projected(d) => Projected(d)'
      BY <1>1, <1>3, <2>2 DEF Projected
    <3> QED
      BY <1>1, <1>2, <1>3, <2>2, <3>1, <3>2 DEF CorpusInv, IngesterFits
  <2> QED
    BY <2>1, <2>2
<1> QED
  BY <1>4, <1>6, <1>7, <1>8, <1>9 DEF CorpusInv, IngesterFits

LEMMA EndKeeps ==
  ASSUME CorpusInv, BatchFails \/ EndIngester \/ Die
  PROVE  CorpusInv'
<1>1. /\ UNCHANGED <<supplied, identity, stored, builds, index, alias, operator, reader>>
      /\ events' \in 0..MaxEvents /\ ingester' = Off
  <2>1. CASE BatchFails \/ EndIngester
    BY <2>1 DEF BatchFails, EndIngester, CorpusInv, CorpusFits
  <2>2. CASE Die
    BY <2>2, EventCounts DEF Die
  <2> QED
    BY <2>1, <2>2
<1> QED
  BY <1>1, CorpusStays, EndsAndKeeps DEF CorpusInv

(* Back to the sources that are left. *)
LEMMA BetweenKeeps ==
  ASSUME CorpusInv, ingester' = Between, Ingesting,
         UNCHANGED <<identity, stored>>, alias' \in {alias, identity},
         index'[identity] = index[identity]
  PROVE  IngesterFits'
<1>1. PICK s \in Source : ingester \in Busy(s)
  BY DEF Ingesting
<1>2. /\ ingester' \in Resting /\ ingester'.at = "source" /\ ingester # Off
      /\ ingester'.requested = ingester.requested
  BY <1>1 DEF Between, Resting, Busy, Off
<1>3. ~Ingesting'
  BY <1>2 DEF Ingesting, Busy
<1>4. Stored' = Stored /\ \A d \in Stored : Projected(d) => Projected(d)'
  BY DEF Stored, Projected
<1> QED
  BY <1>2, <1>3, <1>4 DEF CorpusInv, IngesterFits

LEMMA CountPendingKeeps ==
  ASSUME CorpusInv, CountPending
  PROVE  CorpusInv'
<1>1. /\ UNCHANGED <<supplied, identity, stored, builds, index, alias, operator, reader, events>>
      /\ ingester.at = "ingest"
      /\ ingester' = IF NothingPending THEN [ingester EXCEPT !.at = "publish"] ELSE Between
  BY DEF CountPending
<1>2. CorpusFits' /\ ReaderFits' /\ Ingesting
  BY <1>1, CorpusStays, IngesterIs DEF CorpusInv, CorpusFits
<1>3. CASE ~NothingPending
  BY <1>1, <1>2, <1>3, BetweenKeeps DEF CorpusInv
<1>4. CASE NothingPending
  <2>1. PICK s \in Source : ingester \in Busy(s)
    BY <1>2 DEF Ingesting
  <2>2. /\ ingester' \in Busy(s) /\ ingester'.at = "publish"
        /\ ingester'.requested = ingester.requested /\ ingester'.batch = ingester.batch
        /\ ingester'.stage = ingester.stage /\ ingester'.build = ingester.build
        /\ ingester # Off
    BY <1>1, <1>4, <2>1 DEF Busy, Off
  <2>3. Ingesting' /\ NothingPending' /\ Stored' = Stored
    BY <1>1, <1>4, <2>2 DEF Ingesting, Busy, NothingPending, Stored
  <2>4. StagesFit
    BY <1>2 DEF CorpusInv, IngesterFits
  <2>5. \A d : Projected(d)' <=> Projected(d)
    BY <1>1 DEF Projected
  <2>6. StagesFit'
    BY <1>1, <2>2, <2>3, <2>4, <2>5 DEF StagesFit
  <2> QED
    BY <1>1, <1>2, <2>2, <2>3, <2>5, <2>6 DEF CorpusInv, IngesterFits
<1> QED
  BY <1>3, <1>4

(* The alias leaves a generation only after a regeneration was requested   *)
(* and nothing is pending.                                                 *)
LEMMA PublishKeeps ==
  ASSUME CorpusInv, Publish
  PROVE  CorpusInv' /\ FlipIsWhole
<1>1. /\ UNCHANGED <<supplied, identity, stored, builds, index, operator, reader, events>>
      /\ ingester.at = "publish"
  BY DEF Publish
<1>2. /\ Ingesting /\ NothingPending /\ StagesFit
      /\ alias \notin {NoGeneration, identity} => ingester.requested
  BY <1>1, IngesterIs DEF CorpusInv, IngesterFits
<1>3. alias' \in {alias, identity}
  BY DEF Publish
<1>4. CorpusFits' /\ ReaderFits'
  <2>1. CorpusFits'
    BY <1>1, <1>3 DEF CorpusInv, CorpusFits, Stored, StoredRow, IndexRow
  <2>2. Stored' = Stored
    BY <1>1 DEF Stored
  <2> QED
    BY <1>1, <2>1, <2>2, ReaderStays DEF CorpusInv, CorpusFits
<1>5. FlipIsWhole
  <2> SUFFICES ASSUME alias # NoGeneration, alias' # alias, NEW d \in Stored
               PROVE  \E r \in index[alias'] : r.doc = d /\ r.build = stored[d].build
    BY DEF FlipIsWhole
  <2>1. alias' = identity /\ alias # identity /\ ingester.requested
    BY <1>2, <1>3
  <2>2. stored[d].status = "indexed"
    BY <1>2 DEF NothingPending
  <2>3. ingester # Off
    BY <1>1 DEF Off
  <2>4. Projected(d)
    BY <2>1, <2>2, <2>3 DEF CorpusInv, IngesterFits
  <2> QED
    BY <2>1, <2>4 DEF Projected
<1>6. CASE ingester' = Between
  BY <1>1, <1>2, <1>3, <1>4, <1>5, <1>6, BetweenKeeps DEF CorpusInv
<1>7. CASE alias' = identity /\ ingester' = [ingester EXCEPT !.at = "retire"]
  <2>1. PICK s \in Source : ingester \in Busy(s)
    BY <1>2 DEF Ingesting
  <2>2. /\ ingester' \in Busy(s) /\ ingester'.at = "retire"
        /\ ingester'.batch = ingester.batch
        /\ ingester'.stage = ingester.stage /\ ingester'.build = ingester.build
    BY <1>7, <2>1 DEF Busy
  <2>3. Ingesting' /\ Stored' = Stored /\ alias' = identity'
    BY <1>1, <1>7, <2>2 DEF Ingesting, Busy, Stored
  <2>4. StagesFit'
    BY <1>1, <1>2, <2>2, <2>3 DEF StagesFit, Projected
  <2>5. IngesterFits'
    BY <2>2, <2>3, <2>4 DEF IngesterFits
  <2> QED
    BY <1>4, <1>5, <2>5 DEF CorpusInv
<1> QED
  BY <1>6, <1>7 DEF Publish

LEMMA RetireSupersededKeeps ==
  ASSUME CorpusInv, RetireSuperseded
  PROVE  CorpusInv'
<1>1. /\ UNCHANGED <<supplied, identity, stored, builds, alias, operator, reader, events>>
      /\ index' = [g \in Generation |-> IF g = identity THEN index[g] ELSE {}]
      /\ ingester' = Between /\ ingester.at = "retire"
  BY DEF RetireSuperseded
<1>2. Stored' = Stored /\ identity \in Generation
  BY <1>1 DEF Stored, CorpusInv, CorpusFits
<1>3. CorpusFits' /\ ReaderFits'
  <2>1. CorpusFits'
    BY <1>1, <1>2 DEF CorpusInv, CorpusFits, StoredRow, IndexRow
  <2> QED
    BY <1>1, <1>2, <2>1, ReaderStays DEF CorpusInv, CorpusFits
<1>4. Ingesting /\ index'[identity] = index[identity]
  BY <1>1, <1>2, IngesterIs
<1> QED
  BY <1>1, <1>3, <1>4, BetweenKeeps DEF CorpusInv

-----------------------------------------------------------------------------
(* Steps with one document of the batch. *)

MovesTo(d, stage, build) == ingester' = [ingester EXCEPT !.stage[d] = stage, !.build[d] = build]

LEMMA ReachIs ==
  ASSUME CorpusInv, NEW s \in Source, ingester \in Busy(s), NEW d \in s, NEW stage \in Stage,
         NEW build \in Nat, MovesTo(d, stage, build)
  PROVE  /\ ingester' \in Busy(s)
         /\ ingester'.at = ingester.at /\ ingester'.requested = ingester.requested
         /\ ingester'.batch = ingester.batch /\ DOMAIN ingester.batch = s
         /\ ingester'.stage[d] = stage /\ ingester'.build[d] = build
         /\ \A e \in s \ {d} : /\ ingester'.stage[e] = ingester.stage[e]
                               /\ ingester'.build[e] = ingester.build[e]
<1>1. /\ ingester.stage \in [s -> Stage] /\ ingester.build \in [s -> Nat]
      /\ ingester.batch \in [s -> Text]
  BY DEF Busy
<1>2. /\ ingester'.stage = [ingester.stage EXCEPT ![d] = stage]
      /\ ingester'.build = [ingester.build EXCEPT ![d] = build]
      /\ ingester' = [ingester EXCEPT !.stage = [ingester.stage EXCEPT ![d] = stage],
                                      !.build = [ingester.build EXCEPT ![d] = build]]
  BY DEF Busy, MovesTo
<1>3. /\ ingester'.stage \in [s -> Stage] /\ ingester'.build \in [s -> Nat]
  BY <1>1, <1>2
<1> QED
  BY <1>1, <1>2, <1>3 DEF Busy

LEMMA ReachOnly ==
  ASSUME NEW s \in Source, ingester \in Busy(s), NEW d \in s, NEW stage \in Stage, Reach(d, stage)
  PROVE  ingester.build[d] \in Nat /\ MovesTo(d, stage, ingester.build[d])
<1>1. ingester.stage \in [s -> Stage] /\ ingester.build \in [s -> Nat]
  BY DEF Busy
<1>2. [ingester.build EXCEPT ![d] = ingester.build[d]] = ingester.build
  BY <1>1
<1> QED
  BY <1>1, <1>2 DEF Busy, Reach, MovesTo

(* The stage of one document changes and nothing else moves backwards: the *)
(* documents beside it are as they were, and its own stage fits.           *)
LEMMA StageKeeps ==
  ASSUME CorpusInv, NEW s \in Source, ingester \in Busy(s), ingester.at = "ingest",
         NEW d \in s, NEW stage \in Stage, NEW build \in Nat, MovesTo(d, stage, build),
         UNCHANGED <<identity, alias>>, Stored \subseteq Stored', Stored' \subseteq Stored \cup {d},
         \A e \in Stored \ {d} : stored'[e] = stored[e] /\ (Projected(e) => Projected(e)'),
         stage \in {"replaced", "cleared", "written"} =>
             d \in Stored' /\ stored'[d].status = "pending_index" /\ build = stored'[d].build,
         stage = "written" => Projected(d)',
         d \in Stored' /\ stored'[d].status = "indexed" =>
             \/ Projected(d)'
             \/ d \in Stored /\ stored[d].status = "indexed" /\ (Projected(d) => Projected(d)')
  PROVE  IngesterFits'
<1>1. /\ ingester' \in Busy(s)
      /\ ingester'.at = ingester.at /\ ingester'.requested = ingester.requested
      /\ ingester'.batch = ingester.batch /\ DOMAIN ingester.batch = s
      /\ ingester'.stage[d] = stage /\ ingester'.build[d] = build
      /\ \A e \in s \ {d} : /\ ingester'.stage[e] = ingester.stage[e]
                            /\ ingester'.build[e] = ingester.build[e]
  BY ReachIs
<1>2. Ingesting /\ Ingesting' /\ ingester # Off
  BY <1>1 DEF Ingesting, Busy, Off
<1>3. StagesFit'
  <2> SUFFICES ASSUME NEW e \in s
               PROVE  /\ ingester'.stage[e] \in {"replaced", "cleared", "written"} =>
                           /\ e \in Stored' /\ stored'[e].status = "pending_index"
                           /\ ingester'.build[e] = stored'[e].build
                      /\ ingester'.stage[e] = "written" => Projected(e)'
    BY <1>1 DEF StagesFit
  <2>1. CASE e = d
    BY <1>1, <2>1
  <2>2. CASE e # d
    <3>1. /\ ingester.stage[e] \in {"replaced", "cleared", "written"} =>
               /\ e \in Stored /\ stored[e].status = "pending_index"
               /\ ingester.build[e] = stored[e].build
          /\ ingester.stage[e] = "written" => Projected(e)
      BY <1>1, <1>2 DEF CorpusInv, IngesterFits, StagesFit
    <3>2. ingester'.stage[e] = ingester.stage[e] /\ ingester'.build[e] = ingester.build[e]
      BY <1>1, <2>2
    <3> QED
      BY <2>2, <3>1, <3>2
  <2> QED
    BY <2>1, <2>2
<1>4. ingester.requested /\ alias # identity =>
         \A e \in Stored' : stored'[e].status = "indexed" => Projected(e)'
  <2> SUFFICES ASSUME ingester.requested, alias # identity, NEW e \in Stored',
                      stored'[e].status = "indexed"
               PROVE  Projected(e)'
    OBVIOUS
  <2>1. \A f \in Stored : stored[f].status = "indexed" => Projected(f)
    BY <1>2 DEF CorpusInv, IngesterFits
  <2> QED
    BY <2>1
<1>5. alias' \notin {NoGeneration, identity'} => ingester'.requested
  BY <1>1, <1>2 DEF CorpusInv, IngesterFits
<1> QED
  BY <1>1, <1>2, <1>3, <1>4, <1>5 DEF IngesterFits

(* A skipped, an indexed or a failed document, and its rows in the index.  *)
LEMMA DocumentKeeps ==
  ASSUME CorpusInv, ingester.at = "ingest", NEW d \in Document,
         \/ Skip(d) \/ Clear(d) \/ WriteRows(d) \/ MarkIndexed(d) \/ DocumentFails(d)
  PROVE  CorpusInv'
<1>1. PICK s \in Source : ingester \in Busy(s)
  BY IngesterIs DEF Ingesting
<1>2. /\ d \in s /\ DOMAIN ingester.batch = s
      /\ ingester.stage \in [s -> Stage] /\ ingester.build \in [s -> Nat]
  BY <1>1 DEF Skip, Clear, WriteRows, MarkIndexed, DocumentFails, Reached, Busy
<1>3. /\ UNCHANGED <<supplied, identity, builds, alias, operator, reader>>
      /\ events' \in 0..MaxEvents
  <2>1. CASE DocumentFails(d)
    BY <2>1, EventCounts DEF DocumentFails
  <2>2. CASE \/ Skip(d) \/ Clear(d) \/ WriteRows(d) \/ MarkIndexed(d)
    BY <2>2 DEF Skip, Clear, WriteRows, MarkIndexed, CorpusInv, CorpusFits
  <2> QED
    BY <2>1, <2>2
<1>4. /\ ingester.stage[d] \in {"replaced", "cleared", "written"} =>
           /\ d \in Stored /\ stored[d].status = "pending_index"
           /\ ingester.build[d] = stored[d].build
      /\ ingester.stage[d] = "written" => Projected(d)
  BY <1>1, <1>2, IngesterIs DEF CorpusInv, IngesterFits, StagesFit
<1>5. /\ identity \in Generation /\ index \in [Generation -> SUBSET IndexRow]
      /\ \A e \in Stored : stored[e] \in StoredRow
      /\ builds \in Nat
  BY DEF CorpusInv, CorpusFits
<1>6. CASE Skip(d) \/ DocumentFails(d)
  <2>1. /\ UNCHANGED <<stored, index>> /\ Stored' = Stored
        /\ \A e : Projected(e)' <=> Projected(e)
    BY <1>3, <1>6 DEF Skip, DocumentFails, Stored, Projected
  <2>2. CorpusFits' /\ ReaderFits'
    BY <1>3, <2>1, CorpusStays
  <2>3. PICK stage \in {"done", "failed"} : Reach(d, stage)
    BY <1>6 DEF Skip, DocumentFails
  <2>4. stage \in Stage /\ stage \notin {"replaced", "cleared", "written"}
    BY DEF Stage
  <2>5. /\ ingester.build[d] \in Nat
        /\ MovesTo(d, stage, ingester.build[d])
    BY <1>1, <1>2, <2>3, <2>4, ReachOnly
  <2>6. IngesterFits'
    BY <1>1, <1>2, <1>3, <2>1, <2>4, <2>5, StageKeeps
  <2> QED
    BY <2>2, <2>6 DEF CorpusInv
<1>7. CASE Clear(d)
  <2>1. /\ UNCHANGED stored /\ Stored' = Stored /\ Reach(d, "cleared")
        /\ ingester.stage[d] = "replaced"
        /\ index' = [index EXCEPT ![identity] = @ \ RowsOf(identity, d)]
    BY <1>7 DEF Clear, Reached, Stored
  <2>2. /\ index'[identity] = index[identity] \ RowsOf(identity, d)
        /\ \A g \in Generation : index'[g] \subseteq index[g]
        /\ index' \in [Generation -> SUBSET IndexRow]
    BY <1>5, <2>1
  <2>3. CorpusFits'
    BY <1>3, <2>1, <2>2 DEF CorpusInv, CorpusFits, StoredRow, IndexRow
  <2>4. ReaderFits'
    BY <1>3, <1>5, <2>1, ReaderStays
  <2>5. ASSUME NEW e \in Stored \ {d}, Projected(e) PROVE Projected(e)'
    <3>1. PICK r \in index[identity] : r.doc = e /\ r.build = stored[e].build
      BY <2>5 DEF Projected
    <3>2. r \in index'[identity]
      BY <2>2, <3>1 DEF RowsOf
    <3> QED
      BY <1>3, <2>1, <3>1, <3>2 DEF Projected
  <2>6. /\ ingester.build[d] \in Nat /\ "cleared" \in Stage
        /\ MovesTo(d, "cleared", ingester.build[d])
    BY <1>1, <1>2, <2>1, ReachOnly DEF Stage
  <2>7. IngesterFits'
    BY <1>1, <1>2, <1>3, <1>4, <2>1, <2>5, <2>6, StageKeeps
  <2> QED
    BY <2>3, <2>4, <2>7 DEF CorpusInv
<1>8. CASE WriteRows(d)
  <2>1. /\ UNCHANGED stored /\ Stored' = Stored /\ Reach(d, "written")
        /\ ingester.stage[d] = "cleared"
        /\ index' = [index EXCEPT ![identity] = @ \cup {NewRow(d)}]
    BY <1>8 DEF WriteRows, Reached, Stored
  <2>2. /\ NewRow(d) \in IndexRow /\ NewRow(d).doc = d /\ NewRow(d).build = stored[d].build
        /\ d \in Stored /\ stored[d].status = "pending_index"
    BY <1>4, <1>5, <2>1 DEF NewRow, IndexRow, StoredRow
  <2>3. /\ index'[identity] = index[identity] \cup {NewRow(d)}
        /\ \A g \in Generation : index'[g] \subseteq index[g] \cup {NewRow(d)}
        /\ index' \in [Generation -> SUBSET IndexRow]
    BY <1>5, <2>1, <2>2
  <2>4. CorpusFits'
    BY <1>3, <2>1, <2>2, <2>3 DEF CorpusInv, CorpusFits, StoredRow, IndexRow
  <2>5. ReaderFits'
    BY <1>3, <1>5, <2>1, ReaderStays
  <2>6. /\ Projected(d)'
        /\ \A e \in Stored \ {d} : Projected(e) => Projected(e)'
    <3>1. \A r \in index[identity] \cup {NewRow(d)} : r \in index'[identity']
      BY <1>3, <2>3
    <3>2. Projected(d)'
      BY <2>1, <2>2, <3>1 DEF Projected
    <3>3. ASSUME NEW e \in Stored \ {d}, Projected(e) PROVE Projected(e)'
      <4>1. PICK r \in index[identity] : r.doc = e /\ r.build = stored[e].build
        BY <3>3 DEF Projected
      <4> QED
        BY <2>1, <3>1, <4>1 DEF Projected
    <3> QED
      BY <3>2, <3>3
  <2>7. /\ ingester.build[d] \in Nat /\ "written" \in Stage
        /\ MovesTo(d, "written", ingester.build[d])
    BY <1>1, <1>2, <2>1, ReachOnly DEF Stage
  <2>8. IngesterFits'
    BY <1>1, <1>2, <1>3, <1>4, <2>1, <2>2, <2>6, <2>7, StageKeeps
  <2> QED
    BY <2>4, <2>5, <2>8 DEF CorpusInv
<1>9. CASE MarkIndexed(d)
  <2>1. /\ UNCHANGED index /\ Reach(d, "done") /\ ingester.stage[d] = "written"
        /\ stored' = [stored EXCEPT ![d].status = "indexed"]
    BY <1>9 DEF MarkIndexed, Reached
  <2>2. d \in Stored /\ Projected(d) /\ Stored' = Stored
    BY <1>4, <2>1 DEF Stored
  <2>3. /\ stored'[d] \in StoredRow /\ stored'[d].build = stored[d].build
        /\ \A e \in Stored \ {d} : stored'[e] = stored[e]
    BY <1>5, <2>1, <2>2 DEF Stored, StoredRow
  <2>4. CorpusFits'
    BY <1>3, <1>5, <2>1, <2>2, <2>3 DEF CorpusInv, CorpusFits, StoredRow, IndexRow
  <2>5. ReaderFits'
    BY <1>3, <1>5, <2>2, ReaderStays
  <2>6. ASSUME NEW e \in Stored, Projected(e) PROVE Projected(e)'
    <3>1. stored'[e].build = stored[e].build
      BY <2>3
    <3>2. PICK r \in index[identity] : r.doc = e /\ r.build = stored[e].build
      BY <2>6 DEF Projected
    <3> QED
      BY <1>3, <2>1, <3>1, <3>2 DEF Projected
  <2>7. /\ ingester.build[d] \in Nat /\ "done" \in Stage
        /\ MovesTo(d, "done", ingester.build[d])
    BY <1>1, <1>2, <2>1, ReachOnly DEF Stage
  <2>8. IngesterFits'
    BY <1>1, <1>2, <1>3, <2>2, <2>3, <2>6, <2>7, StageKeeps
  <2> QED
    BY <2>4, <2>5, <2>8 DEF CorpusInv
<1> QED
  BY <1>6, <1>7, <1>8, <1>9

LEMMA ReplaceKeeps ==
  ASSUME CorpusInv, ingester.at = "ingest", NEW d \in Document, Replace(d)
  PROVE  CorpusInv'
<1>1. PICK s \in Source : ingester \in Busy(s)
  BY IngesterIs DEF Ingesting
<1>2. /\ d \in s /\ ingester.batch \in [s -> Text]
  BY <1>1 DEF Replace, Reached, Busy
<1>3. /\ UNCHANGED <<supplied, identity, index, alias, operator, reader, events>>
      /\ stored' = [e \in Stored \cup {d} |-> IF e = d THEN Upserted(d) ELSE stored[e]]
      /\ builds' = builds + 1 /\ builds \in Nat
      /\ ingester' = [ingester EXCEPT !.stage[d] = "replaced", !.build[d] = builds + 1]
  BY DEF Replace, CorpusInv, CorpusFits
<1>4. /\ StoredRow \subseteq StoredRow' /\ IndexRow \subseteq IndexRow'
      /\ builds + 1 \in Nat /\ builds <= builds'
  BY <1>3 DEF StoredRow, IndexRow
<1>5. /\ Stored' = Stored \cup {d}
      /\ stored'[d] = Upserted(d) /\ \A e \in Stored \ {d} : stored'[e] = stored[e]
  BY <1>3 DEF Stored
<1>6. /\ Upserted(d) \in StoredRow'
      /\ Upserted(d).status = "pending_index" /\ Upserted(d).build = builds + 1
  BY <1>2, <1>3 DEF Upserted, StoredRow
<1>7. CorpusFits'
  <2>1. \A e \in Stored' : stored'[e] \in StoredRow'
    BY <1>4, <1>5, <1>6 DEF CorpusInv, CorpusFits
  <2>2. index' \in [Generation -> SUBSET IndexRow']
    BY <1>3, <1>4 DEF CorpusInv, CorpusFits
  <2> QED
    BY <1>3, <1>4, <1>5, <2>1, <2>2 DEF CorpusInv, CorpusFits
<1>8. ReaderFits'
  BY <1>3, <1>4, <1>5, ReaderStays
<1>9. \A e \in Stored \ {d} : Projected(e) => Projected(e)'
  BY <1>3, <1>5 DEF Projected
<1>10. "replaced" \in Stage
  BY DEF Stage
<1>11. PICK build \in Nat :
          MovesTo(d, "replaced", build) /\ build = stored'[d].build
  BY <1>3, <1>4, <1>5, <1>6 DEF MovesTo
<1>12. /\ UNCHANGED <<identity, alias>>
       /\ d \in Stored' /\ Stored \subseteq Stored' /\ Stored' \subseteq Stored \cup {d}
       /\ stored'[d].status = "pending_index"
       /\ \A e \in Stored \ {d} : stored'[e] = stored[e] /\ (Projected(e) => Projected(e)')
  BY <1>3, <1>5, <1>6, <1>9
<1>13. IngesterFits'
  BY <1>1, <1>2, <1>10, <1>11, <1>12, StageKeeps
<1> QED
  BY <1>7, <1>8, <1>13 DEF CorpusInv

LEMMA KnowledgeNextKeeps ==
  ASSUME CorpusInv, [KnowledgeNext]_knowledgeVars
  PROVE  CorpusInv' /\ FlipIsWhole /\ ServesInForce
<1>1. CASE \/ Upgrade
           \/ \E d \in Document : Change(d)
           \/ \E o \in Operator : ProjectionFails(o)
  BY <1>1, SurroundingsKeep
<1>2. CASE \E o \in Operator, d \in Document, active \in BOOLEAN : Authority(o, d, active)
  BY <1>2, AuthorityKeeps
<1>3. CASE \E o \in Operator : Projection(o)
  BY <1>3, ProjectionKeeps
<1>4. CASE Search \/ Expand \/ Served
  BY <1>4, ReaderKeeps
<1>5. CASE IngesterStep \/ \E sources \in SUBSET Source \ {{}} : StartIngester(sources)
  <2>1. CorpusInv' /\ FlipIsWhole
    <3>1. CASE Publish
      BY <3>1, PublishKeeps
    <3>2. CASE ~Publish
      <4>1. CorpusInv'
        <5>1. CASE \E sources \in SUBSET Source \ {{}} : StartIngester(sources)
          BY <5>1, StartIngesterKeeps
        <5>2. CASE Reconcile \/ CountPending \/ RetireSuperseded
          BY <5>2, ReconcileKeeps, CountPendingKeeps, RetireSupersededKeeps
        <5>3. CASE BatchFails \/ EndIngester \/ Die
          BY <5>3, EndKeeps
        <5>4. CASE \E s \in Source : Load(s)
          BY <5>4, LoadKeeps
        <5>5. CASE /\ ingester.at = "ingest"
                   /\ \E d \in Document :
                        \/ Skip(d) \/ Replace(d) \/ Clear(d) \/ WriteRows(d) \/ MarkIndexed(d)
                        \/ DocumentFails(d)
          <6>1. PICK d \in Document :
                  \/ Skip(d) \/ Replace(d) \/ Clear(d) \/ WriteRows(d) \/ MarkIndexed(d)
                  \/ DocumentFails(d)
            BY <5>5
          <6>2. CASE Replace(d)
            BY <5>5, <6>2, ReplaceKeeps
          <6> QED
            BY <5>5, <6>1, <6>2, DocumentKeeps
        <5> QED
          BY <1>5, <3>2, <5>1, <5>2, <5>3, <5>4, <5>5 DEF IngesterStep
      <4>2. alias' = alias
        <5>1. CASE \/ \E sources \in SUBSET Source \ {{}} : StartIngester(sources)
                   \/ Reconcile \/ BatchFails \/ CountPending \/ RetireSuperseded
                   \/ EndIngester \/ Die \/ \E s \in Source : Load(s)
          BY <5>1 DEF StartIngester, Reconcile, BatchFails, CountPending, RetireSuperseded,
               EndIngester, Die, Load
        <5>2. CASE \E d \in Document :
                     \/ Skip(d) \/ Replace(d) \/ Clear(d) \/ WriteRows(d) \/ MarkIndexed(d)
                     \/ DocumentFails(d)
          BY <5>2 DEF Skip, Replace, Clear, WriteRows, MarkIndexed, DocumentFails
        <5> QED
          BY <1>5, <3>2, <5>1, <5>2 DEF IngesterStep
      <4> QED
        BY <4>1, <4>2 DEF FlipIsWhole
    <3> QED
      BY <3>1, <3>2
  <2>2. reader' = reader
    <3>1. CASE \/ \E sources \in SUBSET Source \ {{}} : StartIngester(sources)
               \/ Reconcile \/ BatchFails \/ CountPending \/ Publish \/ RetireSuperseded
               \/ EndIngester \/ Die \/ \E s \in Source : Load(s)
      BY <3>1 DEF StartIngester, Reconcile, BatchFails, CountPending, Publish, RetireSuperseded,
           EndIngester, Die, Load
    <3>2. CASE \E d \in Document :
                 \/ Skip(d) \/ Replace(d) \/ Clear(d) \/ WriteRows(d) \/ MarkIndexed(d)
                 \/ DocumentFails(d)
      BY <3>2 DEF Skip, Replace, Clear, WriteRows, MarkIndexed, DocumentFails
    <3> QED
      BY <1>5, <3>1, <3>2 DEF IngesterStep
  <2> QED
    BY <2>1, <2>2 DEF ServesInForce
<1>6. CASE UNCHANGED knowledgeVars
  <2>1. UNCHANGED <<supplied, identity, stored, builds, index, alias, ingester, operator, reader,
                    events>>
    BY <1>6 DEF knowledgeVars
  <2>2. Stored' = Stored /\ events' \in 0..MaxEvents
    BY <2>1 DEF Stored, CorpusInv, CorpusFits
  <2>3. CorpusFits' /\ ReaderFits' /\ IngesterFits'
    BY <2>1, <2>2, CorpusStays, RowsAreLeft, IngesterStays
  <2> QED
    BY <2>1, <2>3 DEF CorpusInv, FlipIsWhole, ServesInForce
<1> QED
  BY <1>1, <1>2, <1>3, <1>4, <1>5, <1>6 DEF KnowledgeNext

LEMMA CorpusInvAlways == KnowledgeSpec => []CorpusInv
<1>1. KnowledgeInit => CorpusInv
  BY CorpusStarts
<1>2. CorpusInv /\ [KnowledgeNext]_knowledgeVars => CorpusInv'
  BY KnowledgeNextKeeps
<1> QED
  BY <1>1, <1>2, PTL DEF KnowledgeSpec

LEMMA CorpusInvTypes ==
  ASSUME CorpusInv
  PROVE  KnowledgeTypeOK
<1>1. \A g \in Generation : index[g] \subseteq IndexRow
  BY DEF CorpusInv, CorpusFits
<1> QED
  BY <1>1 DEF CorpusInv, CorpusFits, StoredRow, IndexRow, KnowledgeTypeOK

(* The rows of PostgreSQL and of every index have their fields, and are of *)
(* builds that were made.                                                  *)
THEOREM KnowledgeTypeCorrect == KnowledgeSpec => []KnowledgeTypeOK
<1>1. CorpusInv => KnowledgeTypeOK
  BY CorpusInvTypes
<1> QED
  BY <1>1, CorpusInvAlways, PTL

(* The alias leaves a generation only for one with the present chunks of   *)
(* every document, whatever was interrupted before.  (rag/service.py,      *)
(* ingest; rag/repository.py, request_regeneration.)                       *)
THEOREM FlipsAreWhole == KnowledgeSpec => PublishedIsWhole
<1>1. CorpusInv /\ [KnowledgeNext]_knowledgeVars =>
        [alias # NoGeneration /\ alias' # alias =>
           \A d \in Stored : \E r \in index[alias'] :
              r.doc = d /\ r.build = stored[d].build]_knowledgeVars
  BY KnowledgeNextKeeps DEF FlipIsWhole
<1> QED
  BY <1>1, CorpusInvAlways, PTL DEF KnowledgeSpec, PublishedIsWhole

(* A passage that is served was of an active document, in its present      *)
(* version, when PostgreSQL was asked.  (authorized_parents.)              *)
THEOREM ServedPassagesAreInForce == KnowledgeSpec => ServedIsInForce
<1>1. CorpusInv /\ [KnowledgeNext]_knowledgeVars =>
        [reader.at = "expand" /\ reader'.at = "served" =>
           \A r \in reader'.passages :
              /\ r.doc \in Stored /\ stored[r.doc].active
              /\ \A q \in reader'.passages : q.doc = r.doc => q = r]_knowledgeVars
  BY KnowledgeNextKeeps DEF ServesInForce
<1> QED
  BY <1>1, CorpusInvAlways, PTL DEF KnowledgeSpec, ServedIsInForce

-----------------------------------------------------------------------------
(* Sums counted unit by unit: what is finite, what grows, what adds up.    *)
LEMMA UnitsOf ==
  ASSUME NEW S, NEW amount \in [S -> Nat], NEW u
  PROVE  u \in Units(amount) <=> \E x \in S : \E c \in 1..amount[x] : u = <<x, c>>
BY DEF Units

LEMMA ColumnIs ==
  ASSUME NEW x, NEW n \in Nat
  PROVE  IsFiniteSet({x} \X (1..n)) /\ Cardinality({x} \X (1..n)) = n
<1> DEFINE S == {x}
           T == 1..n
<1>1. IsFiniteSet(S) /\ Cardinality(S) = 1
  BY FS_Singleton
<1>2. IsFiniteSet(T) /\ Cardinality(T) = n
  <2>1. 1 \in Int /\ n \in Int /\ (IF 1 > n THEN 0 ELSE n - 1 + 1) = n
    OBVIOUS
  <2> QED
    BY <2>1, FS_Interval
<1> HIDE DEF S, T
<1>3. IsFiniteSet(S \X T) /\ Cardinality(S \X T) = Cardinality(S) * Cardinality(T)
  BY <1>1, <1>2, FS_Product
<1>4. Cardinality(S \X T) = n
  BY <1>1, <1>2, <1>3
<1> QED
  BY <1>3, <1>4 DEF S, T

LEMMA TotalIsFinite ==
  ASSUME NEW S, IsFiniteSet(S), NEW amount \in [S -> Nat]
  PROVE  IsFiniteSet(Units(amount)) /\ Total(amount) \in Nat
<1> DEFINE columns == {{x} \X (1..amount[x]) : x \in S}
           column == [x \in S |-> {x} \X (1..amount[x])]
<1>1. Units(amount) = UNION columns
  BY DEF Units
<1>2. column \in Surjection(S, columns)
  BY DEF Surjection
<1>3. ASSUME NEW T \in columns
      PROVE  IsFiniteSet(T)
  <2>1. PICK x \in S : T = {x} \X (1..amount[x])
    OBVIOUS
  <2>2. amount[x] \in Nat
    OBVIOUS
  <2>3. IsFiniteSet({x} \X (1..amount[x]))
    BY <2>2, ColumnIs
  <2> HIDE DEF columns, column
  <2> QED
    BY <2>1, <2>3, Zenon
<1> HIDE DEF columns, column
<1>4. IsFiniteSet(columns)
  BY <1>2, FS_Surjection
<1>5. IsFiniteSet(UNION columns)
  BY <1>3, <1>4, FS_UNION
<1> DEFINE U == Units(amount)
<1>6. IsFiniteSet(U)
  BY <1>1, <1>5
<1> HIDE DEF U
<1>7. Cardinality(U) \in Nat
  BY <1>6, FS_CardinalityType
<1> QED
  BY <1>6, <1>7 DEF Total, U

LEMMA TotalOfNothing ==
  ASSUME NEW amount, Units(amount) = {}
  PROVE  Total(amount) = 0
<1>1. Cardinality(Units(amount)) = 0
  BY FS_EmptySet
<1> QED
  BY <1>1 DEF Total

(* What one sum counts is found again, each amount in one no smaller.      *)
LEMMA TotalAtMost ==
  ASSUME NEW S, NEW a \in [S -> Nat],
         NEW T, IsFiniteSet(T), NEW b \in [T -> Nat], NEW f,
         \A x \in S : a[x] > 0 => f[x] \in T /\ a[x] <= b[f[x]],
         \A x, y \in S : a[x] > 0 /\ a[y] > 0 /\ f[x] = f[y] => x = y
  PROVE  Total(a) <= Total(b)
<1> DEFINE g == [u \in Units(a) |-> <<f[u[1]], u[2]>>]
<1>1. ASSUME NEW u \in Units(a)
      PROVE  u = <<u[1], u[2]>> /\ u[1] \in S /\ u[2] \in 1..a[u[1]] /\ a[u[1]] > 0
  <2>1. PICK x \in S : \E c \in 1..a[x] : u = <<x, c>>
    BY UnitsOf
  <2>2. PICK c \in 1..a[x] : u = <<x, c>>
    BY <2>1
  <2>3. u[1] = x /\ u[2] = c /\ a[x] \in Nat
    BY <2>2
  <2> QED
    BY <2>2, <2>3
<1>2. ASSUME NEW u \in Units(a)
      PROVE  g[u] \in Units(b)
  <2>1. f[u[1]] \in T /\ u[2] \in 1..b[f[u[1]]]
    BY <1>1
  <2> QED
    BY <2>1, UnitsOf
<1>3. ASSUME NEW u \in Units(a), NEW v \in Units(a), g[u] = g[v]
      PROVE  u = v
  <2>1. f[u[1]] = f[v[1]] /\ u[2] = v[2]
    BY <1>3
  <2>2. u[1] = v[1]
    BY <1>1, <2>1
  <2> QED
    BY <1>1, <2>1, <2>2
<1>4. g \in Injection(Units(a), Units(b))
  BY <1>2, <1>3 DEF Injection, IsInjective
<1> QED
  <2> DEFINE A == Units(a)
             B == Units(b)
  <2>1. g \in Injection(A, B) /\ IsFiniteSet(B)
    BY <1>4, TotalIsFinite
  <2> HIDE DEF A, B, g
  <2>2. Cardinality(A) <= Cardinality(B)
    BY <2>1, FS_Injection
  <2> QED
    BY <2>2 DEF Total, A, B

LEMMA TotalGrows ==
  ASSUME NEW S, IsFiniteSet(S), NEW a \in [S -> Nat], NEW x, x \notin S, NEW n \in Nat,
         NEW b \in [S \cup {x} -> Nat], b[x] = n, \A y \in S : b[y] = a[y]
  PROVE  Total(b) = Total(a) + n
<1> DEFINE A == Units(a)
           column == {x} \X (1..n)
<1>1. IsFiniteSet(column) /\ Cardinality(column) = n
  BY ColumnIs
<1>2. IsFiniteSet(A) /\ Cardinality(A) \in Nat
  BY TotalIsFinite DEF Total
<1>3. Units(b) = A \cup column
  BY DEF Units
<1>4. A \cap column = {}
  BY DEF Units
<1> DEFINE both == A \cap column
<1> HIDE DEF both
<1>5. Cardinality(both) = 0
  BY <1>4, FS_EmptySet DEF both
<1> HIDE DEF A, column
<1>6. Cardinality(A \cup column) = Cardinality(A) + Cardinality(column) - Cardinality(A \cap column)
  BY <1>1, <1>2, FS_Union
<1>7. Cardinality(A \cup column) = Cardinality(A) + n
  BY <1>1, <1>2, <1>5, <1>6 DEF both
<1> QED
  BY <1>3, <1>7 DEF Total, A
-----------------------------------------------------------------------------
(* The daily spend ledger: a reservation's id is new when it is admitted,  *)
(* and its line is in one buffer or in one journal, once; whoever reads or *)
(* flushes a day's journal has its file locked.                            *)

Money == [day : 1..Days, usd : Nat, cost : Nat]
Line == {Header, Torn} \cup [event : {"reserve"}, id : Nat, usd : Nat, recent : BOOLEAN]
        \cup [event : {"settle", "unknown"}, id : Nat, usd : Nat]
Spending == [at : {"wait", "locked"}, todo : {"reserve", "settle", "unknown"}, day : 1..Days,
             id : Nat, usd : Nat]
Reserved == [at : {"reserved"}, todo : {"post"}, day : 1..Days, id : Nat, usd : Nat]
Flushing == [at : {"flush"}, todo : {"reserve", "settle", "unknown"}, day : 1..Days, id : Nat,
             usd : Nat, buffer : Seq(Line)]
Closing == [at : {"close"}, day : 1..Days, buffer : Seq(Line)]
SpendPlace == {NotRouting} \cup Spending \cup Reserved \cup Flushing \cup Closing

BufferOf(q) == IF q.at \in {"flush", "close"} THEN q.buffer ELSE <<>>
ReserveLines(lines) == {n \in DOMAIN lines : lines[n].event = "reserve"}
ReservedIn(lines) == {lines[n].id : n \in ReserveLines(lines)}
EachOnce(lines) == \A m, n \in ReserveLines(lines) : lines[m].id = lines[n].id => m = n

BooksFit ==
    /\ today \in 1..Days
    /\ bill \in Seq(Money)
    /\ journal \in [1..Days -> Seq(Line)]
    /\ router \in [Router -> SpendPlace]
    /\ flock \in [1..Days -> Router \cup {NoRouter}]

FilesAreHeld ==
    \A r \in Router : router[r].at \in {"locked", "flush"} => flock[router[r].day] = r

ReservedOnce ==
    /\ \A d \in 1..Days :
         EachOnce(journal[d]) /\ ReservedIn(journal[d]) \subseteq 1..Len(bill)
    /\ \A r \in Router :
         LET buffer == BufferOf(router[r])
         IN  /\ EachOnce(buffer) /\ ReservedIn(buffer) \subseteq 1..Len(bill)
             /\ \A d \in 1..Days : ReservedIn(buffer) \cap ReservedIn(journal[d]) = {}
             /\ \A s \in Router \ {r} : ReservedIn(buffer) \cap ReservedIn(BufferOf(router[s])) = {}

SpendInv == BooksFit /\ FilesAreHeld /\ ReservedOnce

LEMMA SpendPlaceIs ==
  ASSUME NEW q \in SpendPlace
  PROVE  /\ q = NotRouting <=> q.at = "idle"
         /\ q.at \in {"wait", "locked"} => q \in Spending
         /\ q.at = "reserved" => q \in Reserved
         /\ q.at = "flush" => q \in Flushing
         /\ q.at = "close" => q \in Closing
         /\ BufferOf(q) \in Seq(Line)
<1>1. CASE q = NotRouting
  BY <1>1 DEF NotRouting, BufferOf
<1>2. CASE q \in Spending
  BY <1>2 DEF Spending, NotRouting, BufferOf
<1>3. CASE q \in Reserved
  BY <1>3 DEF Reserved, NotRouting, BufferOf
<1>4. CASE q \in Flushing
  BY <1>4 DEF Flushing, NotRouting, BufferOf
<1>5. CASE q \in Closing
  BY <1>5 DEF Closing, NotRouting, BufferOf
<1> QED
  BY <1>1, <1>2, <1>3, <1>4, <1>5 DEF SpendPlace

LEMMA NothingReserved ==
  /\ EachOnce(<<>>) /\ ReservedIn(<<>>) = {}
  /\ EachOnce(<<Header>>) /\ ReservedIn(<<Header>>) = {}
  /\ EachOnce(<<Torn>>) /\ ReservedIn(<<Torn>>) = {}
<1>1. ReserveLines(<<>>) = {} /\ ReserveLines(<<Header>>) = {} /\ ReserveLines(<<Torn>>) = {}
  BY DEF ReserveLines, Header, Torn
<1> QED
  BY <1>1 DEF EachOnce, ReservedIn

LEMMA LinesAppended ==
  ASSUME NEW s \in Seq(Line), NEW t \in Seq(Line), EachOnce(s), EachOnce(t),
         ReservedIn(s) \cap ReservedIn(t) = {}
  PROVE  /\ s \o t \in Seq(Line) /\ EachOnce(s \o t)
         /\ ReservedIn(s \o t) \subseteq ReservedIn(s) \cup ReservedIn(t)
<1> DEFINE u == s \o t
<1>1. u \in Seq(Line) /\ Len(u) = Len(s) + Len(t) /\ Len(s) \in Nat /\ Len(t) \in Nat
  OBVIOUS
<1>2. /\ \A n \in 1..Len(s) : u[n] = s[n]
      /\ \A n \in (Len(s) + 1)..Len(u) : u[n] = t[n - Len(s)] /\ n - Len(s) \in 1..Len(t)
  BY <1>1
<1>3. DOMAIN s = 1..Len(s) /\ DOMAIN t = 1..Len(t) /\ DOMAIN u = 1..Len(u)
  BY <1>1
<1> HIDE DEF u
<1>4. ASSUME NEW n \in ReserveLines(u)
      PROVE  \/ n \in ReserveLines(s) /\ u[n] = s[n] /\ n <= Len(s)
             \/ n - Len(s) \in ReserveLines(t) /\ u[n] = t[n - Len(s)] /\ n > Len(s)
  <2>1. n \in 1..Len(u) /\ u[n].event = "reserve"
    BY <1>3 DEF ReserveLines
  <2>2. CASE n <= Len(s)
    BY <1>1, <1>2, <1>3, <2>1, <2>2 DEF ReserveLines
  <2>3. CASE n > Len(s)
    BY <1>1, <1>2, <1>3, <2>1, <2>3 DEF ReserveLines
  <2> QED
    BY <1>1, <2>1, <2>2, <2>3
<1>5. ReservedIn(u) \subseteq ReservedIn(s) \cup ReservedIn(t)
  BY <1>4 DEF ReservedIn
<1>6. ASSUME NEW m \in ReserveLines(u), NEW n \in ReserveLines(u), u[m].id = u[n].id
      PROVE  m = n
  <2>1. m \in Nat /\ n \in Nat
    BY <1>1, <1>3 DEF ReserveLines
  <2>2. CASE m <= Len(s) /\ n <= Len(s)
    BY <1>1, <1>4, <1>6, <2>1, <2>2 DEF EachOnce
  <2>3. CASE m > Len(s) /\ n > Len(s)
    <3>1. m - Len(s) = n - Len(s)
      BY <1>1, <1>4, <1>6, <2>1, <2>3 DEF EachOnce
    <3> QED
      BY <1>1, <2>1, <3>1
  <2>4. CASE m <= Len(s) /\ n > Len(s)
    <3>1. m \in ReserveLines(s) /\ u[m] = s[m]
      BY <1>1, <1>4, <2>1, <2>4
    <3>2. n - Len(s) \in ReserveLines(t) /\ u[n] = t[n - Len(s)]
      BY <1>1, <1>4, <2>1, <2>4
    <3>3. u[m].id \in ReservedIn(s) /\ u[n].id \in ReservedIn(t)
      BY <3>1, <3>2 DEF ReservedIn
    <3> QED
      BY <1>6, <3>3
  <2>5. CASE m > Len(s) /\ n <= Len(s)
    <3>1. n \in ReserveLines(s) /\ u[n] = s[n]
      BY <1>1, <1>4, <2>1, <2>5
    <3>2. m - Len(s) \in ReserveLines(t) /\ u[m] = t[m - Len(s)]
      BY <1>1, <1>4, <2>1, <2>5
    <3>3. u[n].id \in ReservedIn(s) /\ u[m].id \in ReservedIn(t)
      BY <3>1, <3>2 DEF ReservedIn
    <3> QED
      BY <1>6, <3>3
  <2> QED
    BY <1>1, <2>1, <2>2, <2>3, <2>4, <2>5
<1> QED
  BY <1>1, <1>5, <1>6 DEF u, EachOnce

LEMMA SpendStarts ==
  ASSUME LedgerInit
  PROVE  SpendInv
<1>1. BooksFit /\ FilesAreHeld
  BY DaysAreNumbered DEF LedgerInit, BooksFit, FilesAreHeld, SpendPlace, NotRouting
<1>2. /\ \A d \in 1..Days : journal[d] = <<>>
      /\ \A r \in Router : BufferOf(router[r]) = <<>>
  BY DEF LedgerInit, NotRouting, BufferOf
<1>3. ReservedOnce
  BY <1>2, NothingReserved DEF ReservedOnce
<1> QED
  BY <1>1, <1>3 DEF SpendInv

(* A call goes on and has no reservation in its buffer that was not there. *)
LEMMA RouterMoves ==
  ASSUME SpendInv, NEW r \in Router, NEW next \in SpendPlace, router' = [router EXCEPT ![r] = next],
         EachOnce(BufferOf(next)), ReservedIn(BufferOf(next)) \subseteq ReservedIn(BufferOf(router[r])),
         UNCHANGED <<today, journal>>, bill' \in Seq(Money), Len(bill') = Len(bill),
         flock' \in [1..Days -> Router \cup {NoRouter}],
         \A d \in 1..Days : \A s \in Router \ {r} : flock[d] = s => flock'[d] = s,
         next.at \in {"locked", "flush"} => flock'[next.day] = r
  PROVE  SpendInv'
<1>1. /\ router' \in [Router -> SpendPlace] /\ router'[r] = next
      /\ \A s \in Router \ {r} : router'[s] = router[s]
  BY DEF SpendInv, BooksFit
<1>2. BooksFit'
  BY <1>1 DEF SpendInv, BooksFit
<1>3. FilesAreHeld'
  <2> SUFFICES ASSUME NEW s \in Router, router'[s].at \in {"locked", "flush"}
               PROVE  flock'[router'[s].day] = s
    BY DEF FilesAreHeld
  <2>1. CASE s = r
    BY <1>1, <2>1
  <2>2. CASE s # r
    <3>1. router'[s] = router[s] /\ flock[router[s].day] = s
      BY <1>1, <2>2 DEF SpendInv, FilesAreHeld
    <3>2. router[s].day \in 1..Days
      <4>1. router[s] \in SpendPlace
        BY DEF SpendInv, BooksFit
      <4> QED
        BY <3>1, <4>1, SpendPlaceIs DEF Spending, Flushing
    <3> QED
      BY <2>2, <3>1, <3>2
  <2> QED
    BY <2>1, <2>2
<1>4. ReservedOnce'
  <2>1. \A s \in Router : /\ EachOnce(BufferOf(router'[s]))
                          /\ ReservedIn(BufferOf(router'[s])) \subseteq ReservedIn(BufferOf(router[s]))
    BY <1>1 DEF SpendInv, ReservedOnce
  <2>2. ReservedOnce /\ UNCHANGED journal /\ Len(bill') = Len(bill)
    BY DEF SpendInv
  <2>3. ASSUME NEW d \in 1..Days
        PROVE  EachOnce(journal'[d]) /\ ReservedIn(journal'[d]) \subseteq 1..Len(bill')
    BY <2>2 DEF ReservedOnce
  <2>4. ASSUME NEW s \in Router
        PROVE  /\ EachOnce(BufferOf(router'[s])) /\ ReservedIn(BufferOf(router'[s])) \subseteq 1..Len(bill')
               /\ \A d \in 1..Days : ReservedIn(BufferOf(router'[s])) \cap ReservedIn(journal'[d]) = {}
               /\ \A q \in Router \ {s} :
                    ReservedIn(BufferOf(router'[s])) \cap ReservedIn(BufferOf(router'[q])) = {}
    <3>1. /\ ReservedIn(BufferOf(router[s])) \subseteq 1..Len(bill)
          /\ \A d \in 1..Days : ReservedIn(BufferOf(router[s])) \cap ReservedIn(journal[d]) = {}
          /\ \A q \in Router \ {s} :
               ReservedIn(BufferOf(router[s])) \cap ReservedIn(BufferOf(router[q])) = {}
      BY <2>2 DEF ReservedOnce
    <3> QED
      BY <2>1, <2>2, <3>1
  <2> QED
    BY <2>3, <2>4 DEF ReservedOnce
<1> QED
  BY <1>2, <1>3, <1>4 DEF SpendInv

(* A call writes all, some or none of the lines of its buffer and drops it. *)
LEMMA RouterWrites ==
  ASSUME SpendInv, NEW r \in Router, NEW next \in SpendPlace, router' = [router EXCEPT ![r] = next],
         next.at \notin {"locked", "flush", "close"}, NEW lines \in Seq(Line),
         EachOnce(lines), ReservedIn(lines) \subseteq ReservedIn(BufferOf(router[r])),
         NEW day \in 1..Days, journal' = [journal EXCEPT ![day] = @ \o lines],
         UNCHANGED <<today, bill>>,
         flock' \in [1..Days -> Router \cup {NoRouter}],
         \A d \in 1..Days : \A s \in Router \ {r} : flock[d] = s => flock'[d] = s
  PROVE  SpendInv'
<1>1. /\ router' \in [Router -> SpendPlace] /\ router'[r] = next
      /\ \A s \in Router \ {r} : router'[s] = router[s]
  BY DEF SpendInv, BooksFit
<1>2. /\ journal \in [1..Days -> Seq(Line)]
      /\ EachOnce(journal[day]) /\ ReservedIn(journal[day]) \cap ReservedIn(lines) = {}
  BY DEF SpendInv, BooksFit, ReservedOnce
<1>3. /\ journal[day] \o lines \in Seq(Line) /\ EachOnce(journal[day] \o lines)
      /\ ReservedIn(journal[day] \o lines) \subseteq ReservedIn(journal[day]) \cup ReservedIn(lines)
  BY <1>2, LinesAppended
<1>4. /\ journal' \in [1..Days -> Seq(Line)]
      /\ \A d \in 1..Days : /\ EachOnce(journal'[d])
                            /\ \/ ReservedIn(journal'[d]) = ReservedIn(journal[d])
                               \/ ReservedIn(journal'[d])
                                    \subseteq ReservedIn(journal[d]) \cup ReservedIn(BufferOf(router[r]))
  BY <1>2, <1>3 DEF SpendInv, ReservedOnce
<1>5. BooksFit'
  BY <1>1, <1>4 DEF SpendInv, BooksFit
<1>6. FilesAreHeld'
  <2> SUFFICES ASSUME NEW s \in Router, router'[s].at \in {"locked", "flush"}
               PROVE  flock'[router'[s].day] = s
    BY DEF FilesAreHeld
  <2>1. s # r
    BY <1>1
  <2>2. router'[s] = router[s] /\ flock[router[s].day] = s
    BY <1>1, <2>1 DEF SpendInv, FilesAreHeld
  <2>3. router[s].day \in 1..Days
    <3>1. router[s] \in SpendPlace
      BY DEF SpendInv, BooksFit
    <3> QED
      BY <2>2, <3>1, SpendPlaceIs DEF Spending, Flushing
  <2> QED
    BY <2>1, <2>2, <2>3
<1>7. ReservedOnce'
  <2>1. BufferOf(router'[r]) = <<>>
    BY <1>1 DEF BufferOf
  <2>2. \A s \in Router \ {r} : BufferOf(router'[s]) = BufferOf(router[s])
    BY <1>1
  <2>3. ASSUME NEW d \in 1..Days
        PROVE  EachOnce(journal'[d]) /\ ReservedIn(journal'[d]) \subseteq 1..Len(bill')
    BY <1>4 DEF SpendInv, ReservedOnce
  <2>4. ASSUME NEW s \in Router
        PROVE  LET buffer == BufferOf(router'[s])
               IN  /\ EachOnce(buffer) /\ ReservedIn(buffer) \subseteq 1..Len(bill')
                   /\ \A d \in 1..Days : ReservedIn(buffer) \cap ReservedIn(journal'[d]) = {}
                   /\ \A e \in Router \ {s} :
                        ReservedIn(buffer) \cap ReservedIn(BufferOf(router'[e])) = {}
    <3>1. CASE s = r
      BY <2>1, <3>1, NothingReserved
    <3>2. CASE s # r
      <4>1. /\ EachOnce(BufferOf(router[s])) /\ ReservedIn(BufferOf(router[s])) \subseteq 1..Len(bill)
            /\ \A d \in 1..Days : ReservedIn(BufferOf(router[s])) \cap ReservedIn(journal[d]) = {}
            /\ \A e \in Router \ {s} :
                 ReservedIn(BufferOf(router[s])) \cap ReservedIn(BufferOf(router[e])) = {}
        BY DEF SpendInv, ReservedOnce
      <4>2. \A d \in 1..Days : ReservedIn(BufferOf(router[s])) \cap ReservedIn(journal'[d]) = {}
        BY <1>4, <3>2, <4>1
      <4>3. \A e \in Router \ {s} :
              ReservedIn(BufferOf(router[s])) \cap ReservedIn(BufferOf(router'[e])) = {}
        BY <2>1, <2>2, <4>1, NothingReserved
      <4> QED
        BY <2>2, <3>2, <4>1, <4>2, <4>3
    <3> QED
      BY <3>1, <3>2
  <2> QED
    BY <2>3, <2>4 DEF ReservedOnce
<1> QED
  BY <1>5, <1>6, <1>7 DEF SpendInv

LEMMA UnlockIs ==
  ASSUME SpendInv, NEW r \in Router, Unlock(r)
  PROVE  /\ flock' \in [1..Days -> Router \cup {NoRouter}]
         /\ \A d \in 1..Days : \A s \in Router \ {r} : flock[d] = s => flock'[d] = s
  BY DEF SpendInv, BooksFit, Unlock

LEMMA IdleIsAPlace ==
  /\ NotRouting \in SpendPlace /\ NotRouting.at \notin {"locked", "flush", "close"}
  /\ BufferOf(NotRouting) = <<>> /\ EachOnce(BufferOf(NotRouting))
  /\ ReservedIn(BufferOf(NotRouting)) = {}
  BY NothingReserved DEF SpendPlace, NotRouting, BufferOf

(* A call that ends, its lock with it or not held.                         *)
LEMMA QuitKeeps ==
  ASSUME SpendInv, NEW r \in Router, Quit(r), UNCHANGED <<today, journal, bill>>,
         Unlock(r) \/ UNCHANGED flock
  PROVE  SpendInv'
<1>1. /\ flock' \in [1..Days -> Router \cup {NoRouter}]
      /\ \A d \in 1..Days : \A s \in Router \ {r} : flock[d] = s => flock'[d] = s
  BY UnlockIs DEF SpendInv, BooksFit
<1>2. router' = [router EXCEPT ![r] = NotRouting] /\ bill' \in Seq(Money) /\ Len(bill') = Len(bill)
  BY DEF Quit, SpendInv, BooksFit
<1> QED
  BY <1>1, <1>2, IdleIsAPlace, RouterMoves

LEMMA BooksStay ==
  ASSUME UNCHANGED ledgerVars
  PROVE  UNCHANGED <<journal, flock, router, bill>>
<1> QED
  BY DEF ledgerVars

LEMMA PostIs ==
  ASSUME NEW r \in Router, Post(r)
  PROVE  /\ router[r].at = "reserved" /\ UNCHANGED <<today, journal, flock>>
         /\ \E cost \in {0, router[r].usd + 1}, known \in BOOLEAN :
              /\ bill' = [bill EXCEPT ![router[r].id].cost = cost]
              /\ router' = [router EXCEPT ![r].at = "wait",
                                          ![r].todo = IF known THEN "settle" ELSE "unknown",
                                          ![r].usd = IF known THEN cost ELSE @]
<1> QED
  BY DEF Post

LEMMA AskingKeeps ==
  ASSUME SpendInv, NEW r \in Router,
         \/ \E usd \in Reservation : AskToSpend(r, usd)
         \/ TakeFile(r) \/ Post(r)
  PROVE  SpendInv'
<1> DEFINE row == router[r]
<1>1. row \in SpendPlace /\ bill \in Seq(Money) /\ today \in 1..Days
      /\ flock \in [1..Days -> Router \cup {NoRouter}]
  BY DEF SpendInv, BooksFit
<1>2. CASE \E usd \in Reservation : AskToSpend(r, usd)
  <2>1. PICK usd \in Reservation : AskToSpend(r, usd)
    BY <1>2
  <2> DEFINE next == [at |-> "wait", todo |-> "reserve", day |-> today, id |-> 0, usd |-> usd]
  <2>2. router' = [router EXCEPT ![r] = next] /\ UNCHANGED <<today, journal, flock, bill>>
    BY <2>1 DEF AskToSpend
  <2>3. /\ next \in SpendPlace /\ next.at \notin {"locked", "flush", "close"}
    BY <1>1, AmountsAreCounted DEF SpendPlace, Spending
  <2> HIDE DEF next
  <2>4. BufferOf(next) = <<>>
    BY <2>3 DEF BufferOf
  <2> QED
    BY <1>1, <2>2, <2>3, <2>4, NothingReserved, RouterMoves
<1>3. CASE TakeFile(r)
  <2> DEFINE next == [row EXCEPT !.at = "locked"]
  <2>1. /\ router' = [router EXCEPT ![r] = next] /\ UNCHANGED <<today, journal, bill>>
        /\ row.at = "wait" /\ flock[row.day] = NoRouter
        /\ flock' = [flock EXCEPT ![row.day] = r]
    BY <1>3 DEF TakeFile, Proceeds
  <2>2. row \in Spending
    BY <1>1, <2>1, SpendPlaceIs
  <2>3. /\ next \in SpendPlace /\ next.at = "locked" /\ next.day = row.day /\ row.day \in 1..Days
    BY <2>2 DEF SpendPlace, Spending
  <2> HIDE DEF next, row
  <2>4. BufferOf(next) = <<>>
    BY <2>3 DEF BufferOf
  <2>5. /\ flock' \in [1..Days -> Router \cup {NoRouter}] /\ flock'[row.day] = r
        /\ \A d \in 1..Days : \A s \in Router \ {r} : flock[d] = s => flock'[d] = s
    BY <1>1, <2>1, <2>3, NoRouterIsNone
  <2>6. /\ router' = [router EXCEPT ![r] = next] /\ UNCHANGED <<today, journal>>
        /\ bill' \in Seq(Money) /\ Len(bill') = Len(bill)
        /\ flock'[next.day] = r /\ next \in SpendPlace
    BY <1>1, <2>1, <2>3, <2>5
  <2>7. EachOnce(BufferOf(next)) /\ ReservedIn(BufferOf(next)) = {}
    BY <2>4, NothingReserved
  <2> QED
    BY <2>5, <2>6, <2>7, RouterMoves
<1>4. CASE Post(r)
  <2>1. PICK cost \in {0, row.usd + 1}, known \in BOOLEAN :
          /\ bill' = [bill EXCEPT ![row.id].cost = cost]
          /\ router' = [router EXCEPT ![r].at = "wait",
                                      ![r].todo = IF known THEN "settle" ELSE "unknown",
                                      ![r].usd = IF known THEN cost ELSE @]
    BY <1>4, PostIs, Zenon
  <2>2. row \in Reserved /\ UNCHANGED <<today, journal, flock>>
    <3>1. row.at = "reserved" /\ UNCHANGED <<today, journal, flock>>
      BY <1>4, PostIs, Zenon
    <3> QED
      BY <1>1, <3>1, SpendPlaceIs
  <2>3. cost \in Nat
    BY <2>2 DEF Reserved
  <2> DEFINE next == [row EXCEPT !.at = "wait", !.todo = IF known THEN "settle" ELSE "unknown",
                                 !.usd = IF known THEN cost ELSE row.usd]
  <2>4. router' = [router EXCEPT ![r] = next]
    BY <2>1 DEF SpendInv, BooksFit
  <2>5. next \in SpendPlace /\ next.at \notin {"locked", "flush", "close"}
    BY <2>2, <2>3 DEF SpendPlace, Spending, Reserved
  <2>6. bill' \in Seq(Money) /\ Len(bill') = Len(bill)
    <3>1. CASE row.id \in 1..Len(bill)
      <4> HIDE DEF row
      <4>1. [bill[row.id] EXCEPT !.cost = cost] \in Money
        <5>1. bill[row.id] \in Money
          BY <1>1, <3>1
        <5> QED
          BY <2>3, <5>1 DEF Money
      <4>2. bill' = [bill EXCEPT ![row.id] = [bill[row.id] EXCEPT !.cost = cost]]
        BY <2>1 DEF row
      <4> QED
        BY <1>1, <3>1, <4>1, <4>2
    <3>2. CASE row.id \notin 1..Len(bill)
      <4>1. bill' = bill
        BY <1>1, <2>1, <3>2
      <4> QED
        BY <1>1, <4>1
    <3> QED
      BY <3>1, <3>2
  <2> HIDE DEF next, row
  <2>7. BufferOf(next) = <<>>
    BY <2>5 DEF BufferOf
  <2> QED
    BY <1>1, <2>2, <2>4, <2>5, <2>6, <2>7, NothingReserved, RouterMoves
<1> QED
  BY <1>2, <1>3, <1>4

(* With the file locked: a refusal leaves a header to be written, and the  *)
(* end of an attempt goes to the buffer; neither is a reservation.         *)
LEMMA LockedKeeps ==
  ASSUME SpendInv, NEW r \in Router, TurnAway(r) \/ EndAttempt(r)
  PROVE  SpendInv'
<1> DEFINE row == router[r]
<1>1. /\ row \in Spending /\ bill \in Seq(Money) /\ UNCHANGED <<today, journal, bill>>
      /\ row.at = "locked" /\ journal \in [1..Days -> Seq(Line)]
  BY SpendPlaceIs DEF SpendInv, BooksFit, TurnAway, EndAttempt
<1>2. Header \in Line /\ row.day \in 1..Days
  BY <1>1 DEF Line, Spending
<1>3. CASE TurnAway(r)
  <2>1. /\ flock' \in [1..Days -> Router \cup {NoRouter}]
        /\ \A d \in 1..Days : \A s \in Router \ {r} : flock[d] = s => flock'[d] = s
    BY <1>3, UnlockIs DEF TurnAway
  <2>2. CASE Quit(r)
    BY <1>1, <1>3, <2>2, QuitKeeps DEF TurnAway
  <2>3. CASE LeavesUnflushed(r, <<Header>>)
    <3> DEFINE next == [at |-> "close", day |-> row.day, buffer |-> <<Header>>]
    <3>1. router' = [router EXCEPT ![r] = next]
      BY <2>3 DEF LeavesUnflushed
    <3>2. next \in SpendPlace /\ next.at = "close" /\ next.buffer = <<Header>>
      BY <1>2 DEF SpendPlace, Closing
    <3> HIDE DEF next, row
    <3>3. BufferOf(next) = <<Header>>
      BY <3>2 DEF BufferOf
    <3>4. EachOnce(BufferOf(next)) /\ ReservedIn(BufferOf(next)) \subseteq ReservedIn(BufferOf(router[r]))
      BY <3>3, NothingReserved
    <3>5. /\ UNCHANGED <<today, journal>> /\ bill' \in Seq(Money) /\ Len(bill') = Len(bill)
          /\ next.at \notin {"locked", "flush"}
      BY <1>1, <3>2
    <3> QED
      BY <2>1, <3>1, <3>2, <3>4, <3>5, RouterMoves
  <2> QED
    BY <1>3, <2>2, <2>3 DEF TurnAway
<1>4. CASE EndAttempt(r)
  <2> DEFINE line == [event |-> row.todo, id |-> row.id, usd |-> row.usd]
             buffer == IF journal[row.day] = <<>> THEN <<Header>> \o <<line>> ELSE <<line>>
             next == [at |-> "flush", todo |-> row.todo, day |-> row.day, id |-> row.id,
                      usd |-> row.usd, buffer |-> buffer]
  <2>1. router' = [router EXCEPT ![r] = next] /\ UNCHANGED flock /\ row.todo # "reserve"
    BY <1>4 DEF EndAttempt, Buffered
  <2>2. line \in Line /\ line.event # "reserve"
    BY <1>1, <2>1 DEF Line, Spending
  <2>3. <<line>> \in Seq(Line) /\ <<Header>> \in Seq(Line)
    BY <1>2, <2>2
  <2>4. EachOnce(<<line>>) /\ ReservedIn(<<line>>) = {}
    <3>1. ReserveLines(<<line>>) = {}
      BY <2>2 DEF ReserveLines
    <3> QED
      BY <3>1 DEF EachOnce, ReservedIn
  <2> HIDE DEF line
  <2>5. buffer \in Seq(Line) /\ EachOnce(buffer) /\ ReservedIn(buffer) = {}
    <3>1. CASE buffer = <<line>>
      BY <2>3, <2>4, <3>1
    <3>2. CASE buffer = <<Header>> \o <<line>>
      <4> DEFINE head == <<Header>>
                 rest == <<line>>
      <4>1. /\ head \in Seq(Line) /\ EachOnce(head) /\ ReservedIn(head) = {}
            /\ rest \in Seq(Line) /\ EachOnce(rest) /\ ReservedIn(rest) = {}
            /\ buffer = head \o rest
        BY <2>3, <2>4, <3>2, NothingReserved
      <4> HIDE DEF buffer, head, rest
      <4>2. /\ head \o rest \in Seq(Line) /\ EachOnce(head \o rest)
            /\ ReservedIn(head \o rest) \subseteq ReservedIn(head) \cup ReservedIn(rest)
        BY <4>1, LinesAppended
      <4> QED
        BY <4>1, <4>2
    <3> QED
      BY <3>1, <3>2
  <2> HIDE DEF buffer
  <2>6. /\ next \in SpendPlace /\ next.at = "flush" /\ next.buffer = buffer
        /\ next.day = row.day
    BY <1>1, <2>5 DEF SpendPlace, Flushing, Spending
  <2>7. flock[row.day] = r /\ flock \in [1..Days -> Router \cup {NoRouter}]
    BY <1>1 DEF SpendInv, FilesAreHeld, BooksFit
  <2> HIDE DEF next, row
  <2>8. BufferOf(next) = buffer
    BY <2>6 DEF BufferOf
  <2> QED
    BY <1>1, <2>1, <2>5, <2>6, <2>7, <2>8, RouterMoves
<1> QED
  BY <1>3, <1>4

(* The id of a reservation is one more than any before.                    *)
LEMMA AdmitKeeps ==
  ASSUME SpendInv, NEW r \in Router, Admit(r)
  PROVE  SpendInv'
<1> DEFINE row == router[r]
           id == Len(bill) + 1
           line == [event |-> "reserve", id |-> id, usd |-> row.usd, recent |-> TRUE]
           buffer == IF journal[row.day] = <<>> THEN <<Header, line>> ELSE <<line>>
           next == [at |-> "flush", todo |-> "reserve", day |-> row.day, id |-> id, usd |-> row.usd,
                    buffer |-> buffer]
<1>1. /\ UNCHANGED <<today, journal, flock>> /\ row.at = "locked"
      /\ bill' = Append(bill, [day |-> row.day, usd |-> row.usd, cost |-> 0])
      /\ router' = [router EXCEPT ![r] = next]
  BY DEF Admit
<1>2. row \in Spending /\ bill \in Seq(Money) /\ journal \in [1..Days -> Seq(Line)]
  BY <1>1, SpendPlaceIs DEF SpendInv, BooksFit
<1>3. /\ bill' \in Seq(Money) /\ Len(bill') = id /\ Len(bill) \in Nat /\ id \in Nat
      /\ 1..Len(bill) \subseteq 1..Len(bill') /\ id \in 1..Len(bill') /\ id \notin 1..Len(bill)
  <2>1. [day |-> row.day, usd |-> row.usd, cost |-> 0] \in Money
    BY <1>2 DEF Spending, Money
  <2> QED
    BY <1>1, <1>2, <2>1
<1>4. line \in Line /\ Header \in Line /\ line.event = "reserve" /\ line.id = id
  BY <1>2, <1>3 DEF Line, Spending
<1> HIDE DEF id, line
<1>5. buffer \in Seq(Line) /\ EachOnce(buffer) /\ ReservedIn(buffer) = {id}
  <2>1. CASE buffer = <<line>>
    <3>1. ReserveLines(buffer) = {1} /\ buffer[1] = line
      BY <1>4, <2>1 DEF ReserveLines
    <3>2. buffer \in Seq(Line)
      BY <1>4, <2>1
    <3> HIDE DEF buffer
    <3> QED
      BY <1>4, <3>1, <3>2 DEF EachOnce, ReservedIn
  <2>2. CASE buffer = <<Header, line>>
    <3>1. ReserveLines(buffer) = {2} /\ buffer[2] = line
      BY <1>4, <2>2 DEF ReserveLines, Header
    <3>2. buffer \in Seq(Line)
      BY <1>4, <2>2
    <3> HIDE DEF buffer
    <3> QED
      BY <1>4, <3>1, <3>2 DEF EachOnce, ReservedIn
  <2> QED
    BY <2>1, <2>2
<1> HIDE DEF buffer
<1>6. next \in SpendPlace /\ next.at = "flush" /\ next.buffer = buffer /\ next.day = row.day
  BY <1>2, <1>3, <1>5 DEF SpendPlace, Flushing, Spending
<1> HIDE DEF next
<1>7. /\ router' \in [Router -> SpendPlace] /\ router'[r] = next
      /\ \A s \in Router \ {r} : router'[s] = router[s]
  BY <1>1, <1>6 DEF SpendInv, BooksFit
<1>8. BooksFit'
  BY <1>1, <1>3, <1>7 DEF SpendInv, BooksFit
<1>9. FilesAreHeld'
  <2>1. flock[row.day] = r
    BY <1>1 DEF SpendInv, FilesAreHeld
  <2> HIDE DEF row
  <2> QED
    BY <1>1, <1>6, <1>7, <2>1 DEF SpendInv, FilesAreHeld
<1>10. ReservedOnce'
  <2> HIDE DEF row
  <2>1. BufferOf(router'[r]) = buffer
    BY <1>6, <1>7 DEF BufferOf
  <2>2. \A s \in Router \ {r} : BufferOf(router'[s]) = BufferOf(router[s])
    BY <1>7
  <2>3. /\ \A d \in 1..Days :
             EachOnce(journal[d]) /\ ReservedIn(journal[d]) \subseteq 1..Len(bill)
        /\ \A s \in Router :
             /\ EachOnce(BufferOf(router[s])) /\ ReservedIn(BufferOf(router[s])) \subseteq 1..Len(bill)
             /\ \A d \in 1..Days : ReservedIn(BufferOf(router[s])) \cap ReservedIn(journal[d]) = {}
             /\ \A e \in Router \ {s} :
                  ReservedIn(BufferOf(router[s])) \cap ReservedIn(BufferOf(router[e])) = {}
    BY DEF SpendInv, ReservedOnce
  <2>4. \A d \in 1..Days :
          EachOnce(journal'[d]) /\ ReservedIn(journal'[d]) \subseteq 1..Len(bill')
    BY <1>1, <1>3, <2>3
  <2>5. ASSUME NEW s \in Router
        PROVE  /\ EachOnce(BufferOf(router'[s])) /\ ReservedIn(BufferOf(router'[s])) \subseteq 1..Len(bill')
               /\ \A d \in 1..Days : ReservedIn(BufferOf(router'[s])) \cap ReservedIn(journal'[d]) = {}
               /\ \A e \in Router \ {s} :
                    ReservedIn(BufferOf(router'[s])) \cap ReservedIn(BufferOf(router'[e])) = {}
    <3>1. CASE s = r
      <4>1. \A d \in 1..Days : id \notin ReservedIn(journal[d])
        BY <1>3, <2>3
      <4>2. \A e \in Router \ {r} : id \notin ReservedIn(BufferOf(router[e]))
        BY <1>3, <2>3
      <4> QED
        BY <1>1, <1>3, <1>5, <2>1, <2>2, <3>1, <4>1, <4>2
    <3>2. CASE s # r
      <4>1. \A e \in Router \ {s} :
               ReservedIn(BufferOf(router[s])) \cap ReservedIn(BufferOf(router'[e])) = {}
        <5>1. id \notin ReservedIn(BufferOf(router[s]))
          BY <1>3, <2>3
        <5> QED
          BY <1>5, <2>1, <2>2, <2>3, <3>2, <5>1
      <4> QED
        BY <1>1, <1>3, <2>2, <2>3, <3>2, <4>1
    <3> QED
      BY <3>1, <3>2
  <2> QED
    BY <2>4, <2>5 DEF ReservedOnce
<1> QED
  BY <1>8, <1>9, <1>10 DEF SpendInv

LEMMA WritingKeeps ==
  ASSUME SpendInv, NEW r \in Router, CloseFile(r) \/ Flush(r) \/ FlushFails(r)
  PROVE  SpendInv'
<1> DEFINE row == router[r]
<1>1. /\ row.at \in {"flush", "close"} /\ UNCHANGED <<today, bill>> /\ bill \in Seq(Money)
      /\ row \in SpendPlace
  BY DEF CloseFile, Flush, FlushFails, SpendInv, BooksFit
<1>2. /\ row.buffer = BufferOf(row) /\ row.buffer \in Seq(Line) /\ row.day \in 1..Days
      /\ EachOnce(row.buffer)
  <2>1. row.buffer = BufferOf(row) /\ row.day \in 1..Days
    BY <1>1, SpendPlaceIs DEF BufferOf, Flushing, Closing
  <2>2. EachOnce(BufferOf(row))
    BY DEF SpendInv, ReservedOnce
  <2> QED
    BY <1>1, <2>1, <2>2, SpendPlaceIs
<1>3. /\ flock' \in [1..Days -> Router \cup {NoRouter}]
      /\ \A d \in 1..Days : \A s \in Router \ {r} : flock[d] = s => flock'[d] = s
  <2>1. Unlock(r) \/ UNCHANGED flock
    BY DEF CloseFile, Flush, FlushFails
  <2> QED
    BY <2>1, UnlockIs DEF SpendInv, BooksFit
<1>4. CASE (CloseFile(r) \/ Flush(r) \/ FlushFails(r)) /\ Quit(r)
           /\ \E lines \in {<<>>, <<Torn>>, row.buffer} : Written(r, lines)
  <2>1. PICK lines \in {<<>>, <<Torn>>, row.buffer} : Written(r, lines)
    BY <1>4
  <2>2. /\ lines \in Seq(Line) /\ EachOnce(lines)
        /\ ReservedIn(lines) \subseteq ReservedIn(BufferOf(row))
    <3>1. CASE lines = <<>>
      BY <3>1, NothingReserved
    <3>2. CASE lines = <<Torn>>
      <4>1. Torn \in Line
        BY DEF Line
      <4>2. <<Torn>> \in Seq(Line)
        BY <4>1
      <4> QED
        BY <3>2, <4>2, NothingReserved
    <3>3. CASE lines = row.buffer
      <4> HIDE DEF row
      <4> QED
        BY <1>2, <3>3
    <3> QED
      BY <2>1, <3>1, <3>2, <3>3
  <2>3. /\ journal' = [journal EXCEPT ![row.day] = @ \o lines]
        /\ router' = [router EXCEPT ![r] = NotRouting]
    BY <1>4, <2>1 DEF Written, Quit
  <2> HIDE DEF row
  <2>4. ReservedIn(lines) \subseteq ReservedIn(BufferOf(router[r]))
    BY <2>2 DEF row
  <2> QED
    BY <1>1, <1>2, <1>3, <2>2, <2>3, <2>4, IdleIsAPlace, RouterWrites
<1>5. CASE Flush(r) /\ row.todo = "reserve"
  <2> DEFINE next == [at |-> "reserved", todo |-> "post", day |-> row.day, id |-> row.id,
                      usd |-> row.usd]
  <2>1. /\ journal' = [journal EXCEPT ![row.day] = @ \o row.buffer]
        /\ router' = [router EXCEPT ![r] = next]
    BY <1>5 DEF Flush, Written
  <2>2. next \in SpendPlace /\ next.at \notin {"locked", "flush", "close"}
    BY <1>1, <1>5, SpendPlaceIs DEF Flush, Flushing, Reserved, SpendPlace
  <2>3. ReservedIn(row.buffer) \subseteq ReservedIn(BufferOf(router[r]))
    BY <1>2
  <2> HIDE DEF next, row
  <2> QED
    BY <1>1, <1>2, <1>3, <2>1, <2>2, <2>3, RouterWrites
<1>6. CASE FlushFails(r) /\ LeavesUnflushed(r, row.buffer) /\ UNCHANGED journal
  <2> DEFINE next == [at |-> "close", day |-> row.day, buffer |-> row.buffer]
  <2>1. router' = [router EXCEPT ![r] = next]
    BY <1>6 DEF LeavesUnflushed
  <2>2. next \in SpendPlace /\ next.at = "close" /\ next.buffer = row.buffer
    BY <1>2 DEF SpendPlace, Closing
  <2>3. row.buffer = BufferOf(router[r])
    BY <1>2
  <2> HIDE DEF next, row
  <2>4. BufferOf(next) = BufferOf(router[r])
    BY <2>2, <2>3 DEF BufferOf
  <2>5. EachOnce(BufferOf(next))
    BY <2>4 DEF SpendInv, ReservedOnce
  <2> QED
    BY <1>1, <1>3, <1>6, <2>1, <2>2, <2>4, <2>5, RouterMoves
<1>7. CASE CloseFile(r)
  BY <1>4, <1>7 DEF CloseFile
<1>8. CASE Flush(r) /\ row.todo # "reserve"
  BY <1>4, <1>8 DEF Flush
<1>9. CASE FlushFails(r)
  BY <1>4, <1>6, <1>9 DEF FlushFails
<1> QED
  BY <1>5, <1>7, <1>8, <1>9

LEMMA MinutePassesKeeps ==
  ASSUME SpendInv, MinutePasses
  PROVE  SpendInv'
<1>1. /\ UNCHANGED <<today, flock, router, bill>>
      /\ journal' = [d \in 1..Days |->
                       [n \in DOMAIN journal[d] |->
                          IF n \in Attempts(d) THEN [journal[d][n] EXCEPT !.recent = FALSE]
                                               ELSE journal[d][n]]]
  BY DEF MinutePasses
<1>2. ASSUME NEW d \in 1..Days
      PROVE  /\ journal'[d] \in Seq(Line)
             /\ EachOnce(journal'[d]) /\ ReservedIn(journal'[d]) = ReservedIn(journal[d])
  <2> DEFINE s == journal[d]
             t == journal'[d]
  <2>1. /\ s \in Seq(Line) /\ EachOnce(s)
        /\ t = [n \in DOMAIN s |-> IF n \in Attempts(d) THEN [s[n] EXCEPT !.recent = FALSE] ELSE s[n]]
    BY <1>1 DEF SpendInv, BooksFit, ReservedOnce
  <2>2. Attempts(d) = ReserveLines(s)
    BY DEF Attempts, Events, ReserveLines
  <2> HIDE DEF s, t
  <2>3. ASSUME NEW n \in DOMAIN s
        PROVE  /\ t[n] \in Line /\ t[n].event = s[n].event
               /\ s[n].event = "reserve" => t[n].id = s[n].id
    <3>1. s[n] \in Line
      BY <2>1
    <3>2. CASE n \in ReserveLines(s)
      <4>1. s[n] \in [event : {"reserve"}, id : Nat, usd : Nat, recent : BOOLEAN]
        BY <3>1, <3>2 DEF Line, ReserveLines, Header, Torn
      <4>2. t[n] = [s[n] EXCEPT !.recent = FALSE]
        BY <2>1, <2>2, <3>2
      <4> QED
        BY <4>1, <4>2 DEF Line
    <3>3. CASE n \notin ReserveLines(s)
      <4>1. t[n] = s[n]
        BY <2>1, <2>2, <3>3
      <4> QED
        BY <3>1, <4>1
    <3> QED
      BY <3>2, <3>3
  <2>4. t \in Seq(Line)
    <3>1. t = [n \in 1..Len(s) |-> t[n]] /\ Len(s) \in Nat /\ DOMAIN s = 1..Len(s)
      BY <2>1
    <3>2. \A n \in 1..Len(s) : t[n] \in Line
      BY <2>3, <3>1
    <3>3. t \in [1..Len(s) -> Line]
      BY <3>1, <3>2
    <3> QED
      BY <3>1, <3>3, SeqDef
  <2>5. DOMAIN t = DOMAIN s
    BY <2>1
  <2>6. ReserveLines(t) = ReserveLines(s)
    BY <2>3, <2>5 DEF ReserveLines
  <2>7. \A n \in ReserveLines(s) : t[n].id = s[n].id
    BY <2>3 DEF ReserveLines
  <2>8. ReservedIn(t) = ReservedIn(s)
    BY <2>6, <2>7 DEF ReservedIn
  <2>9. EachOnce(t)
    <3>1. \A m, n \in ReserveLines(s) : s[m].id = s[n].id => m = n
      BY <2>1 DEF EachOnce
    <3> QED
      BY <2>6, <2>7, <3>1 DEF EachOnce
  <2> QED
    BY <2>4, <2>8, <2>9 DEF s, t
<1>3. BooksFit'
  <2>1. journal' \in [1..Days -> Seq(Line)]
    BY <1>1, <1>2
  <2> QED
    BY <1>1, <2>1 DEF SpendInv, BooksFit
<1>4. FilesAreHeld' /\ ReservedOnce'
  BY <1>1, <1>2 DEF SpendInv, FilesAreHeld, ReservedOnce
<1> QED
  BY <1>3, <1>4 DEF SpendInv

LEMMA LedgerNextKeeps ==
  ASSUME SpendInv, [LedgerNext]_ledgerVars
  PROVE  SpendInv'
<1>1. CASE MinutePasses
  BY <1>1, MinutePassesKeeps
<1>2. CASE Midnight
  <2>1. today' \in 1..Days /\ UNCHANGED <<journal, flock, router, bill>>
    BY <1>2, DaysAreNumbered DEF Midnight, SpendInv, BooksFit
  <2> QED
    BY <2>1 DEF SpendInv, BooksFit, FilesAreHeld, ReservedOnce
<1>3. ASSUME NEW r \in Router,
             \/ \E usd \in Reservation : AskToSpend(r, usd)
             \/ TakeFile(r) \/ LockTimesOut(r) \/ CannotRead(r) \/ Admit(r) \/ TurnAway(r)
             \/ CloseFile(r) \/ EndAttempt(r) \/ Flush(r) \/ FlushFails(r)
             \/ Post(r) \/ GiveUp(r) \/ RouterDies(r)
      PROVE  SpendInv'
  <2>1. CASE (\E usd \in Reservation : AskToSpend(r, usd)) \/ TakeFile(r) \/ Post(r)
    BY <2>1, AskingKeeps
  <2>2. CASE LockTimesOut(r) \/ CannotRead(r) \/ GiveUp(r) \/ RouterDies(r)
    BY <2>2, QuitKeeps DEF LockTimesOut, CannotRead, GiveUp, RouterDies
  <2>3. CASE TurnAway(r) \/ EndAttempt(r)
    BY <2>3, LockedKeeps
  <2>4. CASE Admit(r)
    BY <2>4, AdmitKeeps
  <2>5. CASE CloseFile(r) \/ Flush(r) \/ FlushFails(r)
    BY <2>5, WritingKeeps
  <2> QED
    BY <1>3, <2>1, <2>2, <2>3, <2>4, <2>5
<1>4. CASE UNCHANGED ledgerVars
  <2>1. UNCHANGED <<today, journal, flock, router, bill>>
    BY <1>4 DEF ledgerVars
  <2> QED
    BY <2>1 DEF SpendInv, BooksFit, FilesAreHeld, ReservedOnce
<1> QED
  BY <1>1, <1>2, <1>3, <1>4 DEF LedgerNext

LEMMA SpendInvAlways == LedgerSpec => []SpendInv
<1>1. LedgerInit => SpendInv
  BY SpendStarts
<1>2. SpendInv /\ [LedgerNext]_ledgerVars => SpendInv'
  BY LedgerNextKeeps
<1> QED
  BY <1>1, <1>2, PTL DEF LedgerSpec

LEMMA SpendInvTypes ==
  ASSUME SpendInv
  PROVE  LedgerTypeOK
<1>1. ASSUME NEW d \in 1..Days, NEW m \in Attempts(d), NEW n \in Attempts(d),
             journal[d][m].id = journal[d][n].id
      PROVE  m = n
  <2>1. Attempts(d) = ReserveLines(journal[d])
    BY DEF Attempts, Events, ReserveLines
  <2> QED
    BY <1>1, <2>1 DEF SpendInv, ReservedOnce, EachOnce
<1> QED
  BY <1>1 DEF SpendInv, BooksFit, FilesAreHeld, LedgerTypeOK

(* A day's file is locked by whoever reads or flushes it, and no           *)
(* reservation is written twice, whatever is lost between.                 *)
(* (jev_ledger.py, reserve, settle, mark_unknown and _acquire.)            *)
THEOREM SpendBooksTypeCorrect == LedgerSpec => []LedgerTypeOK
<1>1. SpendInv => LedgerTypeOK
  BY SpendInvTypes
<1> QED
  BY <1>1, SpendInvAlways, PTL

-----------------------------------------------------------------------------
(* The budget.  What a call may still cost, or was seen to cost up to what *)
(* was reserved for it, is its worth; a day's journal accounts for no less *)
(* than the worth of the calls admitted on it.                             *)

Announced(q) == q.at = "flush" /\ q.todo = "reserve"
Promised(q) == Announced(q) \/ q.at = "reserved"
Settling(q) == q.at \in {"wait", "locked", "flush"} /\ q.todo # "reserve"

Worth(n) == IF \E r \in Router : Promised(router[r]) /\ router[r].id = n
              THEN bill[n].usd ELSE WithinReservation(n)
Reserves(line, n) == line.event = "reserve" /\ line.id = n /\ line.usd = bill[n].usd
EndLines(lines) == {k \in DOMAIN lines : lines[k].event \in {"settle", "unknown"}}
Covers(line) == line.id \in DOMAIN bill /\ line.usd >= Worth(line.id)

RoutersFit ==
    \A r \in Router :
        LET q == router[r]
        IN  /\ Promised(q) =>
                 /\ q.id \in DOMAIN bill /\ bill[q.id].cost = 0
                 /\ bill[q.id].day = q.day /\ bill[q.id].usd = q.usd
                 /\ \A s \in Router \ {r} : Promised(router[s]) => router[s].id # q.id
            /\ Announced(q) => \E k \in DOMAIN q.buffer : Reserves(q.buffer[k], q.id)
            /\ Settling(q) => Covers(q)
EndsCover ==
    /\ \A d \in 1..Days : \A k \in EndLines(journal[d]) : Covers(journal[d][k])
    /\ \A r \in Router : \A k \in EndLines(BufferOf(router[r])) : Covers(BufferOf(router[r])[k])
CallsAreOnRecord ==
    \A n \in DOMAIN bill : Worth(n) > 0 =>
        \/ \E r \in Router : Announced(router[r]) /\ router[r].id = n
        \/ \E k \in DOMAIN journal[bill[n].day] : Reserves(journal[bill[n].day][k], n)
WorthOf(d) == [n \in BilledOn(d) |-> Worth(n)]
WorthStaysInBudget == \A d \in 1..Days : Total(WorthOf(d)) <= Budget

SpendFits == RoutersFit /\ EndsCover /\ CallsAreOnRecord /\ WorthStaysInBudget

LEMMA WorthIsCounted ==
  ASSUME SpendInv
  PROVE  /\ \A n \in DOMAIN bill : /\ bill[n] \in Money /\ Worth(n) \in Nat /\ Worth(n) <= bill[n].usd
                                   /\ WithinReservation(n) \in Nat /\ WithinReservation(n) <= Worth(n)
         /\ \A d \in 1..Days : IsFiniteSet(BilledOn(d)) /\ BilledOn(d) \subseteq DOMAIN bill
         /\ DOMAIN bill = 1..Len(bill) /\ Len(bill) \in Nat
<1>1. bill \in Seq(Money) /\ DOMAIN bill = 1..Len(bill) /\ Len(bill) \in Nat
  BY LenProperties DEF SpendInv, BooksFit
<1>2. ASSUME NEW n \in DOMAIN bill
      PROVE  /\ bill[n] \in Money /\ Worth(n) \in Nat /\ Worth(n) <= bill[n].usd
             /\ WithinReservation(n) \in Nat /\ WithinReservation(n) <= Worth(n)
  <2>1. bill[n] \in Money
    BY <1>1
  <2>2. bill[n].usd \in Nat /\ bill[n].cost \in Nat
    BY <2>1 DEF Money
  <2> QED
    BY <2>1, <2>2 DEF Worth, WithinReservation
<1>3. \A d \in 1..Days : BilledOn(d) \subseteq DOMAIN bill
  BY DEF BilledOn
<1>4. IsFiniteSet(DOMAIN bill)
  BY <1>1, FS_Interval
<1> DEFINE D == DOMAIN bill
<1>5. ASSUME NEW d \in 1..Days
      PROVE  IsFiniteSet(BilledOn(d))
  BY <1>3, <1>4, FS_Subset
<1> QED
  BY <1>1, <1>2, <1>3, <1>5

(* What the invariant is for. *)
LEMMA SpendFitsTheBudget ==
  ASSUME SpendInv, SpendFits
  PROVE  SpendStaysInBudget
<1> SUFFICES ASSUME NEW d \in 1..Days
             PROVE  Total([n \in BilledOn(d) |-> WithinReservation(n)]) <= Budget
  BY DEF SpendStaysInBudget
<1> DEFINE S == BilledOn(d)
           spent == [n \in S |-> WithinReservation(n)]
           worth == WorthOf(d)
           same == [n \in S |-> n]
<1>1. /\ worth = [n \in S |-> Worth(n)]
      /\ IsFiniteSet(S) /\ \A n \in S : spent[n] \in Nat /\ worth[n] \in Nat /\ spent[n] <= worth[n]
  BY WorthIsCounted DEF WorthOf
<1>2. Total(worth) <= Budget
  BY DEF SpendFits, WorthStaysInBudget
<1>3. spent \in [S -> Nat] /\ worth \in [S -> Nat] /\ \A n \in S : same[n] = n
  BY <1>1
<1>4. Total(worth) \in Nat
  BY <1>1, <1>3, TotalIsFinite
<1> HIDE DEF S, spent, worth, same
<1>5. Total(spent) <= Total(worth)
  BY <1>1, <1>3, TotalAtMost
<1>6. Total(spent) \in Nat
  BY <1>1, <1>3, TotalIsFinite
<1>7. Total(spent) <= Budget
  BY <1>2, <1>4, <1>5, <1>6, AmountsAreCounted
<1> QED
  BY <1>7 DEF spent, S

(* A step that admits nobody: no call is worth more than before.           *)
LEMMA WorthOnlyFalls ==
  ASSUME SpendInv, NEW r \in Router,
         \A s \in Router \ {r} : router'[s] = router[s],
         DOMAIN bill' = DOMAIN bill,
         \A n \in DOMAIN bill : bill'[n].usd = bill[n].usd,
         Promised(router'[r]) => Promised(router[r]) /\ router'[r].id = router[r].id,
         \A n \in DOMAIN bill :
            bill'[n].cost # bill[n].cost => Promised(router[r]) /\ router[r].id = n,
         bill' \in Seq(Money)
  PROVE  \A n \in DOMAIN bill : Worth(n)' \in Nat /\ Worth(n)' <= Worth(n)
<1> SUFFICES ASSUME NEW n \in DOMAIN bill
             PROVE  Worth(n)' \in Nat /\ Worth(n)' <= Worth(n)
  OBVIOUS
<1>1. bill[n] \in Money /\ bill'[n] \in Money
  BY WorthIsCounted, LenProperties
<1>2. /\ bill[n].usd \in Nat /\ bill[n].cost \in Nat
      /\ bill'[n].usd = bill[n].usd /\ bill'[n].cost \in Nat
  BY <1>1 DEF Money
<1>3. CASE \E s \in Router : Promised(router'[s]) /\ router'[s].id = n
  <2>1. \E s \in Router : Promised(router[s]) /\ router[s].id = n
    BY <1>3
  <2>2. Worth(n)' = bill'[n].usd
    BY <1>3 DEF Worth
  <2>3. Worth(n) = bill[n].usd
    BY <2>1 DEF Worth
  <2> QED
    BY <1>2, <2>2, <2>3
<1>4. CASE ~ \E s \in Router : Promised(router'[s]) /\ router'[s].id = n
  <2>1. Worth(n)' = IF bill'[n].cost < bill'[n].usd THEN bill'[n].cost ELSE bill'[n].usd
    BY <1>4 DEF Worth, WithinReservation
  <2>2. CASE bill'[n].cost = bill[n].cost
    BY <1>2, <2>1, <2>2 DEF Worth, WithinReservation
  <2>3. CASE bill'[n].cost # bill[n].cost
    <3>1. Worth(n) = bill[n].usd
      BY <2>3 DEF Worth
    <3> QED
      BY <1>2, <2>1, <3>1
  <2> QED
    BY <2>2, <2>3
<1> QED
  BY <1>3, <1>4

LEMMA FallingKeepsTheBudget ==
  ASSUME SpendInv, SpendFits, DOMAIN bill' = DOMAIN bill,
         \A n \in DOMAIN bill : bill'[n].day = bill[n].day,
         \A n \in DOMAIN bill : Worth(n)' \in Nat /\ Worth(n)' <= Worth(n)
  PROVE  WorthStaysInBudget'
<1> SUFFICES ASSUME NEW d \in 1..Days
             PROVE  Total(WorthOf(d))' <= Budget
  BY DEF WorthStaysInBudget
<1> DEFINE S == BilledOn(d)
           before == WorthOf(d)
           after == [n \in S |-> Worth(n)']
           same == [n \in S |-> n]
<1>1. BilledOn(d)' = S
  BY DEF BilledOn
<1>2. WorthOf(d)' = after
  BY <1>1 DEF WorthOf
<1>3. /\ before = [n \in S |-> Worth(n)]
      /\ IsFiniteSet(S) /\ \A n \in S : before[n] \in Nat /\ after[n] \in Nat /\ after[n] <= before[n]
  BY WorthIsCounted DEF WorthOf
<1>4. Total(before) <= Budget
  BY DEF SpendFits, WorthStaysInBudget
<1>5. before \in [S -> Nat] /\ after \in [S -> Nat] /\ \A n \in S : same[n] = n
  BY <1>3
<1> HIDE DEF S, before, after, same
<1>6. Total(after) <= Total(before) /\ Total(before) \in Nat /\ Total(after) \in Nat
  BY <1>3, <1>5, TotalAtMost, TotalIsFinite
<1>7. Total(WorthOf(d))' = Total(after)
  BY <1>2 DEF Total, Units
<1> QED
  BY <1>4, <1>6, <1>7, AmountsAreCounted

LEMMA EndLineIs ==
  ASSUME NEW lines \in Seq(Line), NEW k \in EndLines(lines)
  PROVE  lines[k].usd \in Nat
<1>1. lines[k] \in Line /\ lines[k].event \in {"settle", "unknown"}
  BY DEF EndLines
<1> QED
  BY <1>1 DEF Line, Header, Torn

(* A call goes on: it ends what it promised or keeps the promise, writes   *)
(* down no end of an attempt but its own, and leaves the line of what it   *)
(* may still be billed for.                                                *)
LEMMA CallGoesOn ==
  ASSUME SpendInv, SpendInv', SpendFits, NEW r \in Router,
         \A s \in Router \ {r} : router'[s] = router[s], DOMAIN bill' = DOMAIN bill,
         \A n \in DOMAIN bill : bill'[n].day = bill[n].day /\ bill'[n].usd = bill[n].usd,
         \A n \in DOMAIN bill :
            bill'[n].cost # bill[n].cost =>
              router[r].at = "reserved" /\ router[r].id = n /\ ~Promised(router'[r]),
         ~Announced(router'[r]),
         Promised(router'[r]) =>
            /\ Promised(router[r]) /\ router'[r].id = router[r].id
            /\ router'[r].day = router[r].day /\ router'[r].usd = router[r].usd,
         Announced(router[r]) =>
            \/ ~Promised(router'[r])
            \/ \E k \in DOMAIN journal'[router[r].day] :
                  Reserves(journal'[router[r].day][k], router[r].id),
         \A d \in 1..Days : \A k \in DOMAIN journal[d] : journal[d][k].event = "reserve" =>
            \E m \in DOMAIN journal'[d] :
               /\ journal'[d][m].event = "reserve"
               /\ journal'[d][m].id = journal[d][k].id /\ journal'[d][m].usd = journal[d][k].usd,
         \A d \in 1..Days : \A k \in EndLines(journal'[d]) : Covers(journal'[d][k]),
         \A k \in EndLines(BufferOf(router'[r])) : Covers(BufferOf(router'[r])[k]),
         Settling(router'[r]) =>
            /\ router'[r].id \in DOMAIN bill /\ router'[r].usd \in Nat
            /\ \/ Covers(router'[r])
               \/ \A n \in DOMAIN bill : n = router'[r].id => router'[r].usd >= Worth(n)'
  PROVE  SpendFits'
<1>1. \A n \in DOMAIN bill : Worth(n)' \in Nat /\ Worth(n)' <= Worth(n)
  BY WorthOnlyFalls DEF SpendInv, BooksFit, Promised
<1>2. WorthStaysInBudget'
  BY <1>1, FallingKeepsTheBudget
<1>3. \A n \in DOMAIN bill : Worth(n) \in Nat
  BY WorthIsCounted
<1>4. ASSUME NEW i, NEW usd \in Nat, i \in DOMAIN bill, usd >= Worth(i)
      PROVE  usd >= Worth(i)'
  BY <1>1, <1>3, <1>4
<1>5. EndsCover'
  <2>1. ASSUME NEW d \in 1..Days, NEW k \in EndLines(journal'[d])
        PROVE  \E i \in DOMAIN bill : i = journal'[d][k].id /\ journal'[d][k].usd >= Worth(i)'
    <3>1. Covers(journal'[d][k])
      OBVIOUS
    <3>2. journal'[d][k].usd \in Nat
      BY EndLineIs DEF SpendInv, BooksFit
    <3> QED
      BY <1>4, <3>1, <3>2 DEF Covers
  <2>2. ASSUME NEW s \in Router, NEW k \in EndLines(BufferOf(router'[s]))
        PROVE  \E i \in DOMAIN bill : /\ i = BufferOf(router'[s])[k].id
                                      /\ BufferOf(router'[s])[k].usd >= Worth(i)'
    <3>1. Covers(BufferOf(router'[s])[k])
      BY DEF SpendFits, EndsCover
    <3>2. BufferOf(router'[s])[k].usd \in Nat
      <4>1. BufferOf(router'[s]) \in Seq(Line)
        BY SpendPlaceIs DEF SpendInv, BooksFit
      <4> QED
        BY <4>1, EndLineIs
    <3> QED
      BY <1>4, <3>1, <3>2 DEF Covers
  <2> QED
    <3>1. ASSUME NEW d \in 1..Days, NEW k \in EndLines(journal'[d])
          PROVE  Covers(journal[d][k])'
      BY <2>1 DEF Covers, Worth
    <3>2. ASSUME NEW s \in Router, NEW k \in EndLines(BufferOf(router'[s]))
          PROVE  Covers(BufferOf(router[s])[k])'
      <4>1. PICK i \in DOMAIN bill : /\ i = BufferOf(router'[s])[k].id
                                     /\ BufferOf(router'[s])[k].usd >= Worth(i)'
        BY <2>2
      <4>2. i \in DOMAIN bill'
        OBVIOUS
      <4> HIDE DEF BufferOf
      <4> QED
        BY <4>1, <4>2 DEF Covers
    <3> QED
      BY <3>1, <3>2 DEF EndsCover, EndLines, BufferOf
<1>6. RoutersFit'
  <2> SUFFICES ASSUME NEW s \in Router
               PROVE  LET q == router'[s]
                      IN  /\ Promised(q) =>
                               /\ q.id \in DOMAIN bill' /\ bill'[q.id].cost = 0
                               /\ bill'[q.id].day = q.day /\ bill'[q.id].usd = q.usd
                               /\ \A e \in Router \ {s} : Promised(router'[e]) => router'[e].id # q.id
                          /\ Announced(q) => \E k \in DOMAIN q.buffer :
                               /\ q.buffer[k].event = "reserve" /\ q.buffer[k].id = q.id
                               /\ q.buffer[k].usd = bill'[q.id].usd
                          /\ Settling(q) =>
                               \E i \in DOMAIN bill : i = q.id /\ q.usd >= Worth(i)'
    BY DEF RoutersFit, Covers, Worth, Reserves, Promised, Announced, Settling
  <2> DEFINE q == router'[s]
  <2>1. ASSUME Promised(q)
        PROVE  /\ Promised(router[s]) /\ q.id = router[s].id
               /\ q.day = router[s].day /\ q.usd = router[s].usd
    BY <2>1
  <2>2. \A e \in Router : Promised(router'[e]) =>
           Promised(router[e]) /\ router'[e].id = router[e].id
    OBVIOUS
  <2>3. ASSUME Promised(q)
        PROVE  /\ q.id \in DOMAIN bill' /\ bill'[q.id].cost = 0
               /\ bill'[q.id].day = q.day /\ bill'[q.id].usd = q.usd
               /\ \A e \in Router \ {s} : Promised(router'[e]) => router'[e].id # q.id
    <3>1. /\ q.id \in DOMAIN bill /\ bill[q.id].cost = 0
          /\ bill[q.id].day = q.day /\ bill[q.id].usd = q.usd
          /\ \A e \in Router \ {s} : Promised(router[e]) => router[e].id # q.id
      BY <2>1, <2>3 DEF SpendFits, RoutersFit
    <3>2. bill'[q.id].cost = bill[q.id].cost
      <4>1. ~(router[r].at = "reserved" /\ router[r].id = q.id /\ ~Promised(router'[r]))
        <5>1. CASE s = r
          BY <2>3, <5>1
        <5>2. CASE s # r
          <6>1. router[r].at = "reserved" => Promised(router[r])
            BY DEF Promised
          <6> QED
            BY <3>1, <5>2, <6>1
        <5> QED
          BY <5>1, <5>2
      <4> QED
        BY <3>1, <4>1
    <3> QED
      BY <2>2, <3>1, <3>2
  <2>4. ASSUME Announced(q)
        PROVE  \E k \in DOMAIN q.buffer : /\ q.buffer[k].event = "reserve" /\ q.buffer[k].id = q.id
                                          /\ q.buffer[k].usd = bill'[q.id].usd
    <3>1. s # r /\ q = router[s] /\ q.id \in DOMAIN bill
      BY <2>4 DEF SpendFits, RoutersFit, Promised
    <3>2. \E k \in DOMAIN q.buffer : Reserves(q.buffer[k], q.id)
      BY <2>4, <3>1 DEF SpendFits, RoutersFit
    <3> QED
      BY <3>1, <3>2 DEF Reserves
  <2>5. ASSUME Settling(q)
        PROVE  \E i \in DOMAIN bill : i = q.id /\ q.usd >= Worth(i)'
    <3>1. CASE s # r
      <4>1. Covers(q) /\ router[s] \in SpendPlace /\ q = router[s]
        BY <2>5, <3>1 DEF SpendFits, RoutersFit, SpendInv, BooksFit
      <4>2. q.usd \in Nat
        BY <2>5, <4>1, SpendPlaceIs DEF Settling, Spending, Flushing
      <4> QED
        BY <1>4, <4>1, <4>2 DEF Covers
    <3>2. CASE s = r
      BY <1>4, <2>5, <3>2 DEF Covers
    <3> QED
      BY <3>1, <3>2
  <2> QED
    BY <2>3, <2>4, <2>5
<1>7. CallsAreOnRecord'
  <2> SUFFICES ASSUME NEW n \in DOMAIN bill, Worth(n)' > 0
               PROVE  \/ \E s \in Router : Announced(router'[s]) /\ router'[s].id = n
                      \/ \E k \in DOMAIN journal'[bill[n].day] :
                            /\ journal'[bill[n].day][k].event = "reserve"
                            /\ journal'[bill[n].day][k].id = n
                            /\ journal'[bill[n].day][k].usd = bill[n].usd
    BY DEF CallsAreOnRecord, Reserves, Announced
  <2>1. Worth(n) > 0
    BY <1>1, <1>3
  <2>2. CASE \E k \in DOMAIN journal[bill[n].day] : Reserves(journal[bill[n].day][k], n)
    <3>1. bill[n].day \in 1..Days
      BY WorthIsCounted DEF Money
    <3> QED
      BY <2>2, <3>1 DEF Reserves
  <2>3. CASE \E s \in Router : Announced(router[s]) /\ router[s].id = n
    <3>1. PICK s \in Router : Announced(router[s]) /\ router[s].id = n
      BY <2>3
    <3>2. CASE s # r
      BY <3>1, <3>2
    <3>3. CASE s = r
      <4>1. bill[n].day = router[r].day /\ bill[n].cost = 0 /\ Promised(router[r])
        BY <3>1, <3>3 DEF SpendFits, RoutersFit, Promised
      <4>2. CASE Promised(router'[r])
        BY <3>1, <3>3, <4>1, <4>2 DEF Reserves
      <4>3. CASE ~Promised(router'[r])
        <5>1. bill'[n].cost = 0 /\ bill'[n].usd \in Nat
          <6>1. bill'[n].cost = bill[n].cost
            BY <3>1, <3>3 DEF Announced
          <6> QED
            BY <4>1, <6>1, WorthIsCounted DEF Money
        <5>2. ~ \E e \in Router : Promised(router'[e]) /\ router'[e].id = n
          BY <3>1, <3>3, <4>1, <4>3 DEF SpendFits, RoutersFit
        <5>3. Worth(n)' = 0
          BY <5>1, <5>2 DEF Worth, WithinReservation, Promised, Announced
        <5> QED
          BY <5>3
      <4> QED
        BY <4>2, <4>3
    <3> QED
      BY <3>2, <3>3
  <2> QED
    BY <2>1, <2>2, <2>3 DEF SpendFits, CallsAreOnRecord
<1> QED
  BY <1>2, <1>5, <1>6, <1>7 DEF SpendFits

(* A call that moves and writes nothing but what it had in its buffer: its *)
(* buffer, if it has one, is that of before, or holds no end of an attempt.*)
LEMMA QuietMoveKeeps ==
  ASSUME SpendInv, SpendInv', SpendFits, NEW r \in Router,
         \A s \in Router \ {r} : router'[s] = router[s], UNCHANGED <<journal, bill>>,
         ~Promised(router'[r]),
         \A k \in EndLines(BufferOf(router'[r])) : Covers(BufferOf(router'[r])[k]),
         Settling(router'[r]) => Covers(router'[r]) /\ router'[r].usd \in Nat
  PROVE  SpendFits'
<1>1. ~Announced(router'[r])
  BY DEF Promised
<1>2. \A d \in 1..Days : \A k \in EndLines(journal'[d]) : Covers(journal'[d][k])
  BY DEF SpendFits, EndsCover
<1>3. Settling(router'[r]) => router'[r].id \in DOMAIN bill
  BY DEF Covers
<1> QED
  BY <1>1, <1>2, <1>3, CallGoesOn

LEMMA LinesFollow ==
  ASSUME NEW s \in Seq(Line), NEW t \in Seq(Line)
  PROVE  /\ s \o t \in Seq(Line)
         /\ \A k \in DOMAIN s : k \in DOMAIN (s \o t) /\ (s \o t)[k] = s[k]
         /\ \A k \in DOMAIN t : Len(s) + k \in DOMAIN (s \o t) /\ (s \o t)[Len(s) + k] = t[k]
         /\ \A m \in DOMAIN (s \o t) : \/ \E k \in DOMAIN s : (s \o t)[m] = s[k]
                                       \/ \E k \in DOMAIN t : (s \o t)[m] = t[k]
<1> DEFINE u == s \o t
<1>1. u \in Seq(Line) /\ Len(u) = Len(s) + Len(t) /\ Len(s) \in Nat /\ Len(t) \in Nat
  OBVIOUS
<1>2. /\ \A k \in 1..Len(s) : u[k] = s[k]
      /\ \A k \in 1..Len(t) : u[Len(s) + k] = t[k]
  BY <1>1
<1>3. DOMAIN s = 1..Len(s) /\ DOMAIN t = 1..Len(t) /\ DOMAIN u = 1..Len(u)
  BY <1>1
<1> HIDE DEF u
<1>4. ASSUME NEW m \in DOMAIN u
      PROVE  \/ \E k \in DOMAIN s : u[m] = s[k]
             \/ \E k \in DOMAIN t : u[m] = t[k]
  <2>1. CASE m <= Len(s)
    BY <1>1, <1>2, <1>3, <2>1
  <2>2. CASE m > Len(s)
    <3>1. m - Len(s) \in 1..Len(t) /\ Len(s) + (m - Len(s)) = m
      BY <1>1, <1>3, <2>2
    <3> QED
      BY <1>2, <1>3, <3>1
  <2> QED
    BY <1>1, <1>3, <2>1, <2>2
<1>5. /\ \A k \in DOMAIN s : k \in DOMAIN u /\ u[k] = s[k]
      /\ \A k \in DOMAIN t : Len(s) + k \in DOMAIN u /\ u[Len(s) + k] = t[k]
  BY <1>1, <1>2, <1>3
<1> QED
  BY <1>1, <1>4, <1>5 DEF u

LEMMA AskingFits ==
  ASSUME SpendInv, SpendInv', SpendFits, NEW r \in Router,
         \/ \E usd \in Reservation : AskToSpend(r, usd)
         \/ TakeFile(r) \/ LockTimesOut(r) \/ CannotRead(r) \/ GiveUp(r) \/ RouterDies(r)
  PROVE  SpendFits'
<1>1. router \in [Router -> SpendPlace] /\ router'[r] \in SpendPlace
  BY DEF SpendInv, BooksFit
<1>2. UNCHANGED <<journal, bill>>
  BY DEF AskToSpend, TakeFile, LockTimesOut, CannotRead, GiveUp, RouterDies
<1>3. CASE TakeFile(r)
  <2>1. /\ router[r].at = "wait" /\ router' = [router EXCEPT ![r].at = "locked"]
    BY <1>3 DEF TakeFile, Proceeds
  <2>2. router[r] \in Spending
    BY <1>1, <2>1, SpendPlaceIs
  <2>3. /\ router'[r].at = "locked" /\ router'[r].todo = router[r].todo
        /\ router'[r].id = router[r].id /\ router'[r].usd = router[r].usd /\ router[r].usd \in Nat
        /\ \A s \in Router \ {r} : router'[s] = router[s]
    BY <1>1, <2>1, <2>2 DEF Spending
  <2>4. ~Promised(router'[r]) /\ BufferOf(router'[r]) = <<>>
    BY <2>3 DEF Promised, Announced, BufferOf
  <2>5. Settling(router'[r]) => Covers(router'[r])
    <3>1. Settling(router[r]) => Covers(router[r])
      BY DEF SpendFits, RoutersFit
    <3> QED
      BY <2>1, <2>3, <3>1 DEF Settling, Covers
  <2> QED
    BY <1>2, <2>3, <2>4, <2>5, QuietMoveKeeps DEF EndLines
<1>4. CASE \/ \E usd \in Reservation : AskToSpend(r, usd)
           \/ LockTimesOut(r) \/ CannotRead(r) \/ GiveUp(r) \/ RouterDies(r)
  <2>1. /\ \A s \in Router \ {r} : router'[s] = router[s]
        /\ \/ router'[r].at = "idle"
           \/ router'[r].at = "wait" /\ router'[r].todo = "reserve"
    BY <1>1, <1>4 DEF AskToSpend, LockTimesOut, CannotRead, GiveUp, RouterDies, Quit, NotRouting
  <2>2. /\ ~Promised(router'[r]) /\ ~Settling(router'[r]) /\ BufferOf(router'[r]) = <<>>
    BY <2>1 DEF Promised, Announced, Settling, BufferOf
  <2> QED
    BY <1>2, <2>1, <2>2, QuietMoveKeeps DEF EndLines
<1> QED
  BY <1>3, <1>4

LEMMA TurningAwayFits ==
  ASSUME SpendInv, SpendInv', SpendFits, NEW r \in Router, TurnAway(r)
  PROVE  SpendFits'
<1>1. /\ \A s \in Router \ {r} : router'[s] = router[s]
      /\ \/ router'[r].at = "idle"
         \/ router'[r].at = "close" /\ router'[r].buffer = <<Header>>
      /\ UNCHANGED <<journal, bill>>
  BY DEF TurnAway, LeavesUnflushed, Quit, NotRouting, SpendInv, BooksFit
<1>2. ~Promised(router'[r]) /\ ~Settling(router'[r])
  BY <1>1 DEF Promised, Announced, Settling
<1>3. BufferOf(router'[r]) \in {<<>>, <<Header>>}
  BY <1>1 DEF BufferOf
<1>4. EndLines(BufferOf(router'[r])) = {}
  BY <1>3 DEF EndLines, Header
<1> QED
  BY <1>1, <1>2, <1>4, QuietMoveKeeps

LEMMA EndingFits ==
  ASSUME SpendInv, SpendInv', SpendFits, NEW r \in Router, EndAttempt(r)
  PROVE  SpendFits'
<1> DEFINE row == router[r]
           line == [event |-> row.todo, id |-> row.id, usd |-> row.usd]
<1>1. /\ row.at = "locked" /\ row.todo # "reserve" /\ UNCHANGED <<journal, bill>>
      /\ router' = [router EXCEPT ![r] =
           [at |-> "flush", todo |-> row.todo, day |-> row.day, id |-> row.id, usd |-> row.usd,
            buffer |-> IF journal[row.day] = <<>> THEN <<Header>> \o <<line>> ELSE <<line>>]]
  BY DEF EndAttempt, Buffered
<1>2. row \in Spending /\ router \in [Router -> SpendPlace]
  BY <1>1, SpendPlaceIs DEF SpendInv, BooksFit
<1>3. Covers(row) /\ row.usd \in Nat
  BY <1>1, <1>2 DEF SpendFits, RoutersFit, Settling, Spending
<1>4. <<Header>> \in Seq(Line) /\ <<line>> \in Seq(Line)
  <2>1. line \in Line /\ Header \in Line
    BY <1>1, <1>2 DEF Line, Spending
  <2> QED
    BY <2>1
<1>5. /\ router'[r].at = "flush" /\ router'[r].todo = row.todo
      /\ router'[r].id = row.id /\ router'[r].usd = row.usd
      /\ BufferOf(router'[r]) \in {<<Header>> \o <<line>>, <<line>>}
      /\ \A s \in Router \ {r} : router'[s] = router[s]
  BY <1>1, <1>2, <1>4 DEF BufferOf
<1>6. Covers(line) /\ Covers(router'[r]) /\ ~Promised(router'[r])
  BY <1>1, <1>3, <1>5 DEF Covers, Promised, Announced
<1> HIDE DEF line, row
<1>7. \A k \in EndLines(BufferOf(router'[r])) : BufferOf(router'[r])[k] = line
  <2> DEFINE head == <<Header>>
             rest == <<line>>
  <2>1. /\ \A k \in DOMAIN head : head[k].event \notin {"settle", "unknown"}
        /\ \A k \in DOMAIN rest : rest[k] = line
    BY DEF Header
  <2>2. head \in Seq(Line) /\ rest \in Seq(Line)
    BY <1>4
  <2>3. BufferOf(router'[r]) \in {head \o rest, rest}
    BY <1>5
  <2> HIDE DEF head, rest
  <2>4. \A k \in EndLines(head \o rest) : (head \o rest)[k] = line
    BY <2>1, <2>2, LinesFollow DEF EndLines
  <2> QED
    BY <2>1, <2>3, <2>4 DEF EndLines
<1> QED
  BY <1>1, <1>3, <1>5, <1>6, <1>7, QuietMoveKeeps

(* The provider's bill is no more than what the call writes down, or the   *)
(* call has cost all that was reserved and that is what it writes down.    *)
LEMMA PostingFits ==
  ASSUME SpendInv, SpendInv', SpendFits, NEW r \in Router, Post(r)
  PROVE  SpendFits'
<1> DEFINE row == router[r]
<1>1. PICK cost \in {0, row.usd + 1}, known \in BOOLEAN :
         /\ bill' = [bill EXCEPT ![row.id].cost = cost]
         /\ router' = [router EXCEPT ![r].at = "wait",
                                     ![r].todo = IF known THEN "settle" ELSE "unknown",
                                     ![r].usd = IF known THEN cost ELSE @]
  BY PostIs, Zenon
<1>2. row.at = "reserved" /\ UNCHANGED <<today, journal, flock>>
  BY DEF Post
<1>3. row \in Reserved /\ router \in [Router -> SpendPlace] /\ bill \in Seq(Money)
  BY <1>2, SpendPlaceIs DEF SpendInv, BooksFit
<1>4. /\ row.id \in DOMAIN bill /\ bill[row.id].usd = row.usd /\ Promised(row)
      /\ \A s \in Router \ {r} : Promised(router[s]) => router[s].id # row.id
  BY <1>2 DEF SpendFits, RoutersFit, Promised
<1>5. bill[row.id] \in Money /\ cost \in Nat /\ row.usd \in Nat
  BY <1>3, <1>4, WorthIsCounted DEF Reserved
<1>6. /\ DOMAIN bill' = DOMAIN bill
      /\ \A n \in DOMAIN bill : bill'[n].day = bill[n].day /\ bill'[n].usd = bill[n].usd
      /\ \A n \in DOMAIN bill : n # row.id => bill'[n].cost = bill[n].cost
      /\ bill'[row.id].cost = cost
  BY <1>1, <1>4, <1>5 DEF Money
<1>7. /\ router'[r].at = "wait" /\ router'[r].todo \in {"settle", "unknown"}
      /\ router'[r].id = row.id /\ router'[r].usd \in {cost, row.usd}
      /\ known => router'[r].usd = cost
      /\ ~known => router'[r].usd = row.usd
      /\ \A s \in Router \ {r} : router'[s] = router[s]
  BY <1>1, <1>3 DEF Reserved
<1>8. ~Promised(router'[r]) /\ BufferOf(router'[r]) = <<>> /\ ~Announced(row)
  BY <1>2, <1>7 DEF Promised, Announced, BufferOf
<1>9. router'[r].usd \in Nat /\ \A n \in DOMAIN bill : n = router'[r].id => router'[r].usd >= Worth(n)'
  <2> SUFFICES ASSUME NEW n \in DOMAIN bill, n = row.id
               PROVE  router'[r].usd \in Nat /\ router'[r].usd >= Worth(n)'
    BY <1>4, <1>7
  <2>1. ~ \E s \in Router : Promised(router'[s]) /\ router'[s].id = n
    BY <1>4, <1>7, <1>8
  <2>2. Worth(n)' = IF cost < row.usd THEN cost ELSE row.usd
    BY <1>4, <1>6, <2>1 DEF Worth, WithinReservation
  <2> HIDE DEF row
  <2> QED
    BY <1>5, <1>7, <2>2
<1>10. \A d \in 1..Days : \A k \in EndLines(journal'[d]) : Covers(journal'[d][k])
  BY <1>2 DEF SpendFits, EndsCover
<1>11. EndLines(BufferOf(router'[r])) = {}
  BY <1>8 DEF EndLines
<1>12. \A n \in DOMAIN bill : bill'[n].cost # bill[n].cost =>
          router[r].at = "reserved" /\ router[r].id = n /\ ~Promised(router'[r])
  BY <1>2, <1>6, <1>8
<1>13. ~Announced(router'[r]) /\ ~Announced(router[r])
  BY <1>8 DEF Promised
<1>14. router'[r].id \in DOMAIN bill
  BY <1>4, <1>7
<1> HIDE DEF row
<1> QED
  BY <1>2, <1>6, <1>7, <1>8, <1>9, <1>10, <1>11, <1>12, <1>13, <1>14, CallGoesOn

(* The lines that are written end attempts as they may be ended, and those *)
(* that are there stay.                                                    *)
LEMMA WritingCovers ==
  ASSUME SpendInv, SpendFits, NEW day \in 1..Days, NEW lines \in Seq(Line),
         \A k \in EndLines(lines) : Covers(lines[k]),
         journal' = [journal EXCEPT ![day] = @ \o lines]
  PROVE  /\ \A d \in 1..Days : \A k \in EndLines(journal'[d]) : Covers(journal'[d][k])
         /\ \A d \in 1..Days : \A k \in DOMAIN journal[d] :
               k \in DOMAIN journal'[d] /\ journal'[d][k] = journal[d][k]
         /\ \A k \in DOMAIN lines : \E m \in DOMAIN journal'[day] : journal'[day][m] = lines[k]
<1> DEFINE s == journal[day]
<1>1. s \in Seq(Line) /\ \A k \in EndLines(s) : Covers(s[k])
  BY DEF SpendInv, BooksFit, SpendFits, EndsCover
<1>2. /\ journal'[day] = s \o lines
      /\ \A d \in (1..Days) \ {day} : journal'[d] = journal[d]
  BY DEF SpendInv, BooksFit
<1> HIDE DEF s
<1>3. \A k \in EndLines(s \o lines) : Covers((s \o lines)[k])
  BY <1>1, LinesFollow DEF EndLines
<1>4. \A k \in DOMAIN s : k \in DOMAIN (s \o lines) /\ (s \o lines)[k] = s[k]
  BY <1>1, LinesFollow
<1>5. ASSUME NEW d \in 1..Days, NEW k \in EndLines(journal'[d])
      PROVE  Covers(journal'[d][k])
  <2>1. CASE d = day
    BY <1>2, <1>3, <1>5, <2>1
  <2>2. CASE d # day
    BY <1>2, <1>5, <2>2 DEF SpendFits, EndsCover
  <2> QED
    BY <2>1, <2>2
<1>6. ASSUME NEW d \in 1..Days, NEW k \in DOMAIN journal[d]
      PROVE  k \in DOMAIN journal'[d] /\ journal'[d][k] = journal[d][k]
  BY <1>2, <1>4 DEF s
<1>7. ASSUME NEW k \in DOMAIN lines
      PROVE  \E m \in DOMAIN journal'[day] : journal'[day][m] = lines[k]
  <2>1. Len(s) + k \in DOMAIN journal'[day] /\ journal'[day][Len(s) + k] = lines[k]
    <3>1. Len(s) + k \in DOMAIN (s \o lines) /\ (s \o lines)[Len(s) + k] = lines[k]
      BY <1>1, LinesFollow
    <3> QED
      BY <1>2, <3>1
  <2> QED
    BY <2>1
<1> QED
  BY <1>5, <1>6, <1>7

LEMMA WritingFits ==
  ASSUME SpendInv, SpendInv', SpendFits, NEW r \in Router,
         CloseFile(r) \/ Flush(r) \/ FlushFails(r)
  PROVE  SpendFits'
<1> DEFINE row == router[r]
<1>1. /\ row.at \in {"flush", "close"} /\ UNCHANGED bill
      /\ row \in SpendPlace /\ router \in [Router -> SpendPlace]
  BY DEF CloseFile, Flush, FlushFails, SpendInv, BooksFit
<1>2. /\ row.buffer = BufferOf(row) /\ row.buffer \in Seq(Line) /\ row.day \in 1..Days
      /\ \A k \in EndLines(row.buffer) : Covers(row.buffer[k])
  <2>1. row.buffer = BufferOf(row) /\ row.day \in 1..Days /\ row.buffer \in Seq(Line)
    BY <1>1, SpendPlaceIs DEF BufferOf, Flushing, Closing
  <2>2. \A k \in EndLines(BufferOf(row)) : Covers(BufferOf(row)[k])
    BY DEF SpendFits, EndsCover
  <2> HIDE DEF row
  <2> QED
    BY <2>1, <2>2
<1>3. /\ \A s \in Router \ {r} : router'[s] = router[s]
      /\ \/ router'[r] = NotRouting
         \/ row.at = "flush" /\ router'[r].at = "close" /\ router'[r].buffer = row.buffer
         \/ /\ row.at = "flush" /\ row.todo = "reserve" /\ router'[r].at = "reserved"
            /\ router'[r].id = row.id /\ router'[r].usd = row.usd /\ router'[r].day = row.day
            /\ Flush(r)
  BY <1>1 DEF CloseFile, Flush, FlushFails, Quit, LeavesUnflushed
<1>4. /\ ~Announced(router'[r]) /\ ~Settling(router'[r])
      /\ Promised(router'[r]) =>
           /\ Announced(row) /\ Promised(row) /\ Flush(r)
           /\ router'[r].id = row.id /\ router'[r].usd = row.usd /\ router'[r].day = row.day
  BY <1>3 DEF Announced, Promised, Settling, NotRouting
<1>5. \A k \in EndLines(BufferOf(router'[r])) : Covers(BufferOf(router'[r])[k])
  <2>1. BufferOf(router'[r]) \in {<<>>, row.buffer}
    BY <1>3 DEF BufferOf, NotRouting
  <2>2. EndLines(<<>>) = {}
    BY DEF EndLines
  <2> HIDE DEF row
  <2> QED
    BY <1>2, <2>1, <2>2
<1>6. /\ \A d \in 1..Days : \A k \in EndLines(journal'[d]) : Covers(journal'[d][k])
      /\ \A d \in 1..Days : \A k \in DOMAIN journal[d] :
            k \in DOMAIN journal'[d] /\ journal'[d][k] = journal[d][k]
      /\ Flush(r) => \A k \in DOMAIN row.buffer :
            \E m \in DOMAIN journal'[row.day] : journal'[row.day][m] = row.buffer[k]
  <2>1. ASSUME NEW lines \in {<<>>, <<Torn>>, row.buffer}, Written(r, lines)
        PROVE  /\ \A d \in 1..Days : \A k \in EndLines(journal'[d]) : Covers(journal'[d][k])
               /\ \A d \in 1..Days : \A k \in DOMAIN journal[d] :
                     k \in DOMAIN journal'[d] /\ journal'[d][k] = journal[d][k]
               /\ \A k \in DOMAIN lines :
                     \E m \in DOMAIN journal'[row.day] : journal'[row.day][m] = lines[k]
    <3>1. Torn \in Line
      BY DEF Line
    <3>2. lines \in Seq(Line)
      <4>1. <<Torn>> \in Seq(Line) /\ <<>> \in Seq(Line)
        BY <3>1
      <4> HIDE DEF row
      <4> QED
        BY <1>2, <2>1, <4>1
    <3>3. EndLines(<<>>) = {} /\ EndLines(<<Torn>>) = {}
      BY DEF EndLines, Torn
    <3>4. \A k \in EndLines(lines) : Covers(lines[k])
      <4> HIDE DEF row
      <4> QED
        BY <1>2, <3>3
    <3>5. journal' = [journal EXCEPT ![row.day] = @ \o lines]
      BY <2>1 DEF Written
    <3> HIDE DEF row
    <3> QED
      BY <1>2, <3>2, <3>4, <3>5, WritingCovers
  <2>2. CASE CloseFile(r) \/ Flush(r)
    BY <2>1, <2>2 DEF CloseFile, Flush
  <2>3. CASE FlushFails(r) /\ UNCHANGED journal
    <3>1. ~Flush(r) \/ \A k \in DOMAIN row.buffer :
            \E m \in DOMAIN journal'[row.day] : journal'[row.day][m] = row.buffer[k]
      BY <2>1 DEF Flush
    <3> QED
      BY <2>3, <3>1 DEF SpendFits, EndsCover
  <2>4. CASE FlushFails(r) /\ \E lines \in {<<>>, <<Torn>>, row.buffer} : Written(r, lines)
    <3>1. ~Flush(r) \/ \A k \in DOMAIN row.buffer :
            \E m \in DOMAIN journal'[row.day] : journal'[row.day][m] = row.buffer[k]
      BY <2>1 DEF Flush
    <3>2. PICK lines \in {<<>>, <<Torn>>, row.buffer} : Written(r, lines)
      BY <2>4
    <3> QED
      BY <2>1, <3>1, <3>2
  <2> QED
    BY <2>2, <2>3, <2>4 DEF FlushFails
<1>7. Announced(row) =>
         \/ ~Promised(router'[r])
         \/ \E k \in DOMAIN journal'[row.day] : Reserves(journal'[row.day][k], row.id)
  <2> SUFFICES ASSUME Announced(row), Promised(router'[r])
               PROVE  \E k \in DOMAIN journal'[row.day] : Reserves(journal'[row.day][k], row.id)
    OBVIOUS
  <2>1. PICK k \in DOMAIN row.buffer : Reserves(row.buffer[k], row.id)
    BY DEF SpendFits, RoutersFit
  <2>2. PICK m \in DOMAIN journal'[row.day] : journal'[row.day][m] = row.buffer[k]
    BY <1>4, <1>6, <2>1
  <2> QED
    BY <2>1, <2>2
<1> HIDE DEF row
<1>8. \A d \in 1..Days : \A k \in DOMAIN journal[d] : journal[d][k].event = "reserve" =>
         \E m \in DOMAIN journal'[d] :
            /\ journal'[d][m].event = "reserve"
            /\ journal'[d][m].id = journal[d][k].id /\ journal'[d][m].usd = journal[d][k].usd
  BY <1>6
<1> QED
  BY <1>1, <1>3, <1>4, <1>5, <1>6, <1>7, <1>8, CallGoesOn DEF row

(* The minute passes, or the day: no event is worth less, and the calls    *)
(* stand where they stood.                                                 *)
LEMMA TimeFits ==
  ASSUME SpendInv, SpendInv', SpendFits, MinutePasses \/ Midnight
  PROVE  SpendFits'
<1>1. UNCHANGED <<flock, router, bill>>
  BY DEF MinutePasses, Midnight
<1>2. ASSUME NEW d \in 1..Days
      PROVE  /\ DOMAIN journal'[d] = DOMAIN journal[d]
             /\ \A k \in DOMAIN journal[d] :
                  /\ journal'[d][k].event = journal[d][k].event
                  /\ journal[d][k].event \in {"reserve", "settle", "unknown"} =>
                       journal'[d][k].id = journal[d][k].id /\ journal'[d][k].usd = journal[d][k].usd
  <2>1. CASE MinutePasses
    <3> DEFINE s == journal[d]
    <3>1. journal'[d] = [n \in DOMAIN s |-> IF n \in Attempts(d) THEN [s[n] EXCEPT !.recent = FALSE]
                                                                 ELSE s[n]]
      BY <2>1 DEF MinutePasses
    <3>2. ASSUME NEW k \in DOMAIN s
          PROVE  /\ journal'[d][k].event = s[k].event
                 /\ s[k].event \in {"reserve", "settle", "unknown"} =>
                      journal'[d][k].id = s[k].id /\ journal'[d][k].usd = s[k].usd
      <4>1. CASE k \in Attempts(d)
        <5>1. s[k] \in Line /\ s[k].event = "reserve"
          <6>1. journal[d] \in Seq(Line)
            BY DEF SpendInv, BooksFit
          <6>2. k \in DOMAIN journal[d] /\ journal[d][k].event = "reserve"
            BY <4>1 DEF Attempts, Events
          <6> QED
            BY <6>1, <6>2
        <5>2. s[k] \in [event : {"reserve"}, id : Nat, usd : Nat, recent : BOOLEAN]
          BY <5>1 DEF Line, Header, Torn
        <5>3. journal'[d][k] = [s[k] EXCEPT !.recent = FALSE]
          BY <3>1, <4>1
        <5> HIDE DEF s
        <5> QED
          BY <5>2, <5>3
      <4>2. CASE k \notin Attempts(d)
        BY <3>1, <4>2
      <4> QED
        BY <4>1, <4>2
    <3>3. DOMAIN journal'[d] = DOMAIN s
      BY <3>1
    <3> QED
      BY <3>2, <3>3
  <2>2. CASE Midnight
    BY <2>2 DEF Midnight
  <2> QED
    BY <2>1, <2>2
<1>3. ASSUME NEW n PROVE Worth(n)' = Worth(n)
  BY <1>1 DEF Worth, WithinReservation
<1>4. RoutersFit'
  BY <1>1 DEF SpendFits, RoutersFit, Covers, Worth, WithinReservation, Reserves
<1>5. EndsCover'
  BY <1>1, <1>2 DEF SpendFits, EndsCover, EndLines, Covers, Worth, WithinReservation
<1>6. CallsAreOnRecord'
  <2> SUFFICES ASSUME NEW n \in DOMAIN bill, Worth(n) > 0
               PROVE  \/ \E s \in Router : Announced(router[s]) /\ router[s].id = n
                      \/ \E k \in DOMAIN journal'[bill[n].day] : Reserves(journal'[bill[n].day][k], n)
    BY <1>1, <1>3 DEF CallsAreOnRecord, Reserves
  <2>1. bill[n].day \in 1..Days
    BY WorthIsCounted DEF Money
  <2>2. CASE \E k \in DOMAIN journal[bill[n].day] : Reserves(journal[bill[n].day][k], n)
    BY <1>2, <2>1, <2>2 DEF Reserves
  <2> QED
    BY <2>2 DEF SpendFits, CallsAreOnRecord
<1>7. WorthStaysInBudget'
  <2>1. \A n \in DOMAIN bill : Worth(n)' \in Nat /\ Worth(n)' <= Worth(n)
    <3>1. \A n \in DOMAIN bill : Worth(n) \in Nat
      BY WorthIsCounted
    <3> QED
      BY <1>3, <3>1
  <2> QED
    BY <1>1, <2>1, FallingKeepsTheBudget
<1> QED
  BY <1>4, <1>5, <1>6, <1>7 DEF SpendFits

(* A line of a reservation counts for no less than the call is worth.      *)
LEMMA LineCounts ==
  ASSUME SpendInv, SpendFits, NEW d \in 1..Days, NEW k \in Attempts(d)
  PROVE  /\ Counted(d, k) \in Nat
         /\ \A n \in DOMAIN bill : Reserves(journal[d][k], n) => Counted(d, k) >= Worth(n)
<1> DEFINE ends == {e \in Events(d, {"settle", "unknown"}) : journal[d][e].id = journal[d][k].id}
<1>1. journal[d] \in Seq(Line) /\ k \in DOMAIN journal[d] /\ journal[d][k].event = "reserve"
  BY DEF SpendInv, BooksFit, Attempts, Events
<1>2. journal[d][k] \in [event : {"reserve"}, id : Nat, usd : Nat, recent : BOOLEAN]
  BY <1>1 DEF Line, Header, Torn
<1>3. CASE ends = {}
  <2>1. Counted(d, k) = journal[d][k].usd
    BY <1>3 DEF Counted
  <2>2. \A n \in DOMAIN bill : Worth(n) \in Nat /\ Worth(n) <= bill[n].usd
    BY WorthIsCounted
  <2> QED
    BY <1>2, <2>1, <2>2 DEF Reserves
<1>4. CASE ends # {}
  <2> DEFINE e == CHOOSE e \in ends : TRUE
  <2>1. Counted(d, k) = journal[d][e].usd
    BY <1>4 DEF Counted
  <2>2. e \in ends
    <3> HIDE DEF ends
    <3>1. PICK n : n \in ends
      BY <1>4
    <3> QED
      BY <3>1
  <2>3. e \in EndLines(journal[d]) /\ journal[d][e].id = journal[d][k].id
    <3> HIDE DEF e
    <3> QED
      BY <2>2 DEF Events, EndLines
  <2> HIDE DEF e, ends
  <2>4. Covers(journal[d][e]) /\ journal[d][e].usd \in Nat
    BY <1>1, <2>3, EndLineIs DEF SpendFits, EndsCover
  <2> QED
    BY <2>1, <2>3, <2>4 DEF Covers, Reserves
<1> QED
  BY <1>3, <1>4

(* While nobody is about to write a reservation down, the journal accounts *)
(* for what the day's calls are worth.                                     *)
LEMMA JournalAccounts ==
  ASSUME SpendInv, SpendFits, NEW d \in 1..Days,
         \A s \in Router : ~(Announced(router[s]) /\ router[s].day = d)
  PROVE  /\ Total(WorthOf(d)) \in Nat /\ Accounted(d) \in Nat
         /\ Total(WorthOf(d)) <= Accounted(d)
<1> DEFINE S == BilledOn(d)
           T == Attempts(d)
           counted == [k \in T |-> Counted(d, k)]
           lineOf == [n \in S |-> CHOOSE k \in T : Reserves(journal[d][k], n)]
           worth == WorthOf(d)
<1>1. IsFiniteSet(S) /\ S \subseteq DOMAIN bill
  BY WorthIsCounted
<1>2. IsFiniteSet(T)
  <2>1. DOMAIN journal[d] = 1..Len(journal[d]) /\ Len(journal[d]) \in Nat
    BY LenProperties DEF SpendInv, BooksFit
  <2>2. IsFiniteSet(1..Len(journal[d]))
    <3>1. ASSUME NEW n \in Nat PROVE IsFiniteSet(1..n)
      BY FS_Interval
    <3> QED
      BY <2>1, <3>1
  <2>3. T \subseteq 1..Len(journal[d])
    <3>1. T \subseteq DOMAIN journal[d]
      BY DEF Attempts, Events
    <3> HIDE DEF T
    <3> QED
      BY <2>1, <3>1
  <2> HIDE DEF T
  <2> QED
    BY <2>2, <2>3, FS_Subset
<1>3. /\ worth \in [S -> Nat] /\ \A n \in S : worth[n] = Worth(n)
  BY <1>1, WorthIsCounted DEF WorthOf
<1>4. /\ counted \in [T -> Nat]
      /\ \A n \in S : \A k \in T : Reserves(journal[d][k], n) => counted[k] >= worth[n]
  <2>1. \A k \in T : /\ Counted(d, k) \in Nat
                     /\ \A n \in DOMAIN bill : Reserves(journal[d][k], n) => Counted(d, k) >= Worth(n)
    BY LineCounts
  <2> HIDE DEF S, T, worth
  <2> QED
    BY <1>1, <1>3, <2>1
<1>5. ASSUME NEW n \in S, worth[n] > 0
      PROVE  lineOf[n] \in T /\ Reserves(journal[d][lineOf[n]], n)
  <2>1. n \in DOMAIN bill /\ bill[n].day = d /\ Worth(n) > 0
    BY <1>3, <1>5 DEF BilledOn
  <2>2. \A s \in Router : ~(Announced(router[s]) /\ router[s].id = n)
    <3> SUFFICES ASSUME NEW s \in Router, Announced(router[s]), router[s].id = n
                 PROVE  FALSE
      OBVIOUS
    <3>1. bill[n].day = router[s].day
      BY DEF SpendFits, RoutersFit, Promised
    <3> QED
      BY <2>1, <3>1
  <2>3. \E k \in DOMAIN journal[d] : Reserves(journal[d][k], n)
    BY <2>1, <2>2 DEF SpendFits, CallsAreOnRecord
  <2>4. \E k \in T : Reserves(journal[d][k], n)
    BY <2>3 DEF Reserves, Attempts, Events
  <2> HIDE DEF T
  <2> QED
    BY <2>4
<1>6. \A n \in S : worth[n] > 0 => lineOf[n] \in T /\ worth[n] <= counted[lineOf[n]]
  <2>1. \A n \in S : worth[n] \in Nat
    BY <1>3
  <2>2. \A k \in T : counted[k] \in Nat
    BY <1>4
  <2> HIDE DEF S, T, worth, counted, lineOf
  <2> QED
    BY <1>4, <1>5, <2>1, <2>2
<1>7. \A m, n \in S : worth[m] > 0 /\ worth[n] > 0 /\ lineOf[m] = lineOf[n] => m = n
  <2> HIDE DEF S, T, worth, lineOf
  <2> QED
    BY <1>5 DEF Reserves
<1>8. Accounted(d) = Total(counted)
  BY DEF Accounted
<1> HIDE DEF S, T, worth, counted, lineOf
<1>9. Total(worth) <= Total(counted)
  BY <1>2, <1>3, <1>4, <1>6, <1>7, TotalAtMost
<1>10. Total(worth) \in Nat /\ Total(counted) \in Nat
  BY <1>1, <1>2, <1>3, <1>4, TotalIsFinite
<1> QED
  BY <1>8, <1>9, <1>10 DEF worth

LEMMA AdmittingFits ==
  ASSUME SpendInv, SpendInv', SpendFits, NEW r \in Router, Admit(r)
  PROVE  SpendFits'
<1> DEFINE row == router[r]
           id == Len(bill) + 1
           line == [event |-> "reserve", id |-> id, usd |-> row.usd, recent |-> TRUE]
           buffer == IF journal[row.day] = <<>> THEN <<Header, line>> ELSE <<line>>
           next == [at |-> "flush", todo |-> "reserve", day |-> row.day, id |-> id, usd |-> row.usd,
                    buffer |-> buffer]
<1>1. /\ UNCHANGED <<today, journal, flock>> /\ row.at = "locked"
      /\ Accounted(row.day) + row.usd <= Budget
      /\ bill' = Append(bill, [day |-> row.day, usd |-> row.usd, cost |-> 0])
      /\ router' = [router EXCEPT ![r] = next]
  BY DEF Admit, Admissible
<1>2. /\ row \in Spending /\ bill \in Seq(Money) /\ Len(bill) \in Nat /\ DOMAIN bill = 1..Len(bill)
      /\ router \in [Router -> SpendPlace]
  BY <1>1, SpendPlaceIs, LenProperties DEF SpendInv, BooksFit
<1>3. row.usd \in Nat /\ row.day \in 1..Days /\ flock[row.day] = r
  BY <1>1, <1>2 DEF Spending, SpendInv, FilesAreHeld
<1>4. /\ DOMAIN bill' = DOMAIN bill \cup {id} /\ id \notin DOMAIN bill
      /\ \A n \in DOMAIN bill : bill'[n] = bill[n]
      /\ bill'[id].day = row.day /\ bill'[id].usd = row.usd /\ bill'[id].cost = 0
  <2> DEFINE fresh == [day |-> row.day, usd |-> row.usd, cost |-> 0]
  <2>1. fresh \in Money
    BY <1>3 DEF Money
  <2>2. fresh.day = row.day /\ fresh.usd = row.usd /\ fresh.cost = 0
    OBVIOUS
  <2>3. bill' = Append(bill, fresh)
    BY <1>1
  <2> HIDE DEF fresh, row
  <2>4. /\ Len(bill') = Len(bill) + 1 /\ bill' \in Seq(Money) /\ bill'[Len(bill) + 1] = fresh
        /\ \A n \in 1..Len(bill) : bill'[n] = bill[n]
    BY <1>2, <2>1, <2>3
  <2>5. DOMAIN bill' = 1..(Len(bill) + 1)
    BY <2>4
  <2> QED
    BY <1>2, <2>2, <2>4, <2>5
<1>5. /\ router'[r].at = "flush" /\ router'[r].todo = "reserve" /\ router'[r].day = row.day
      /\ router'[r].id = id /\ router'[r].usd = row.usd /\ router'[r].buffer = buffer
      /\ \A s \in Router \ {r} : router'[s] = router[s]
  BY <1>1, <1>2
<1>6. \E k \in DOMAIN buffer : buffer[k] = line
  <2> HIDE DEF line
  <2>1. CASE journal[row.day] = <<>>
    <3>1. buffer[2] = line /\ 2 \in DOMAIN buffer
      BY <2>1
    <3> QED
      BY <3>1
  <2>2. CASE journal[row.day] # <<>>
    <3>1. buffer[1] = line /\ 1 \in DOMAIN buffer
      BY <2>2
    <3> QED
      BY <3>1
  <2> QED
    BY <2>1, <2>2
<1>7. EndLines(buffer) = {}
  BY DEF EndLines, Header
<1>8. line.event = "reserve" /\ line.id = id /\ line.usd = row.usd
  OBVIOUS
<1> HIDE DEF id, line, buffer, next, row
<1>9. /\ ~Promised(row) /\ ~Announced(row) /\ Promised(router'[r]) /\ Announced(router'[r])
      /\ ~Settling(router'[r])
  BY <1>1, <1>5 DEF Promised, Announced, Settling
<1>10. \A s \in Router : Promised(router[s]) =>
          s # r /\ router[s].id \in DOMAIN bill /\ router'[s] = router[s]
  BY <1>5, <1>9 DEF SpendFits, RoutersFit, row
<1>11. ASSUME NEW n \in DOMAIN bill
       PROVE  Worth(n)' = Worth(n)
  <2>1. (\E s \in Router : Promised(router'[s]) /\ router'[s].id = n)
          <=> (\E s \in Router : Promised(router[s]) /\ router[s].id = n)
    BY <1>4, <1>5, <1>10
  <2> QED
    BY <1>4, <2>1 DEF Worth, WithinReservation, Promised, Announced
<1>12. ASSUME NEW n, n = id
       PROVE  Worth(n)' = row.usd
  <2>1. \E s \in Router : Promised(router'[s]) /\ router'[s].id = n
    BY <1>5, <1>9, <1>12
  <2>2. Worth(n)' = bill'[n].usd
    BY <2>1 DEF Worth, Promised, Announced
  <2> QED
    BY <1>4, <1>12, <2>2
<1>13. RoutersFit'
  <2> SUFFICES ASSUME NEW s \in Router
               PROVE  LET q == router'[s]
                      IN  /\ Promised(q) =>
                               /\ q.id \in DOMAIN bill' /\ bill'[q.id].cost = 0
                               /\ bill'[q.id].day = q.day /\ bill'[q.id].usd = q.usd
                               /\ \A e \in Router \ {s} : Promised(router'[e]) => router'[e].id # q.id
                          /\ Announced(q) => \E k \in DOMAIN q.buffer :
                               /\ q.buffer[k].event = "reserve" /\ q.buffer[k].id = q.id
                               /\ q.buffer[k].usd = bill'[q.id].usd
                          /\ Settling(q) =>
                               \E i \in DOMAIN bill : i = q.id /\ q.usd >= Worth(i)'
    BY <1>4 DEF RoutersFit, Covers, Worth, Reserves, Promised, Announced, Settling
  <2>1. CASE s = r
    BY <1>4, <1>5, <1>6, <1>8, <1>9, <1>10, <2>1
  <2>2. CASE s # r
    <3>1. router'[s] = router[s]
      BY <1>5, <2>2
    <3>2. /\ Promised(router[s]) =>
               /\ router[s].id \in DOMAIN bill /\ bill[router[s].id].cost = 0
               /\ bill[router[s].id].day = router[s].day /\ bill[router[s].id].usd = router[s].usd
               /\ \A e \in Router \ {s} : Promised(router[e]) => router[e].id # router[s].id
          /\ Announced(router[s]) =>
               \E k \in DOMAIN router[s].buffer : Reserves(router[s].buffer[k], router[s].id)
          /\ Announced(router[s]) => Promised(router[s])
          /\ Settling(router[s]) => Covers(router[s])
      BY DEF SpendFits, RoutersFit, Promised
    <3>3. ASSUME Promised(router[s]), NEW e \in Router \ {s}, Promised(router'[e])
          PROVE  router'[e].id # router[s].id
      <4>1. CASE e = r
        BY <1>4, <1>5, <3>2, <3>3, <4>1
      <4>2. CASE e # r
        BY <1>5, <3>2, <3>3, <4>2
      <4> QED
        BY <4>1, <4>2
    <3> QED
      BY <1>4, <1>11, <3>1, <3>2, <3>3 DEF Covers, Reserves
  <2> QED
    BY <2>1, <2>2
<1>14. EndsCover'
  <2>1. ASSUME NEW d \in 1..Days, NEW k \in EndLines(journal[d])
        PROVE  Covers(journal[d][k])'
    <3>1. Covers(journal[d][k])
      BY DEF SpendFits, EndsCover
    <3>2. \E i \in DOMAIN bill : i = journal[d][k].id /\ journal[d][k].usd >= Worth(i)'
      BY <1>11, <3>1 DEF Covers
    <3> QED
      BY <1>1, <1>4, <3>2 DEF Covers, Worth
  <2>2. ASSUME NEW s \in Router, NEW k \in EndLines(BufferOf(router'[s]))
        PROVE  Covers(BufferOf(router[s])[k])'
    <3>1. s # r /\ router'[s] = router[s]
      BY <1>5, <1>7 DEF BufferOf
    <3>2. Covers(BufferOf(router[s])[k])
      BY <3>1 DEF SpendFits, EndsCover
    <3>3. \E i \in DOMAIN bill : /\ i = BufferOf(router[s])[k].id
                                 /\ BufferOf(router[s])[k].usd >= Worth(i)'
      BY <1>11, <3>2 DEF Covers
    <3> QED
      BY <1>4, <3>1, <3>3 DEF Covers, Worth, BufferOf
  <2> QED
    BY <1>1, <2>1, <2>2 DEF EndsCover, EndLines, BufferOf
<1>15. CallsAreOnRecord'
  <2> SUFFICES ASSUME NEW n \in DOMAIN bill', Worth(n)' > 0
               PROVE  (\/ \E s \in Router : Announced(router[s]) /\ router[s].id = n
                       \/ \E k \in DOMAIN journal[bill[n].day] :
                             Reserves(journal[bill[n].day][k], n))'
    BY DEF CallsAreOnRecord
  <2> SUFFICES \/ \E s \in Router : Announced(router'[s]) /\ router'[s].id = n
               \/ \E k \in DOMAIN journal[bill'[n].day] :
                     /\ journal[bill'[n].day][k].event = "reserve"
                     /\ journal[bill'[n].day][k].id = n
                     /\ journal[bill'[n].day][k].usd = bill'[n].usd
    BY <1>1, Zenon DEF Reserves, Announced
  <2>1. CASE n = id
    BY <1>5, <1>9, <2>1
  <2>2. CASE n \in DOMAIN bill
    <3>1. Worth(n) > 0 /\ bill'[n] = bill[n]
      BY <1>4, <1>11, <2>2
    <3>2. CASE \E k \in DOMAIN journal[bill[n].day] : Reserves(journal[bill[n].day][k], n)
      BY <3>1, <3>2 DEF Reserves
    <3>3. CASE \E s \in Router : Announced(router[s]) /\ router[s].id = n
      <4>1. PICK s \in Router : Announced(router[s]) /\ router[s].id = n
        BY <3>3
      <4>2. s # r
        BY <1>9, <4>1 DEF row
      <4> QED
        BY <1>5, <4>1, <4>2
    <3> QED
      BY <2>2, <3>1, <3>2, <3>3 DEF SpendFits, CallsAreOnRecord
  <2> QED
    BY <1>4, <2>1, <2>2
<1>16. WorthStaysInBudget'
  <2> SUFFICES ASSUME NEW d \in 1..Days
               PROVE  Total(WorthOf(d))' <= Budget
    BY DEF WorthStaysInBudget
  <2> DEFINE S == BilledOn(d)
             before == WorthOf(d)
             after == [n \in BilledOn(d)' |-> Worth(n)']
  <2>1. Total(WorthOf(d))' = Total(after)
    BY DEF WorthOf, Total, Units
  <2>2. /\ IsFiniteSet(S) /\ S \subseteq DOMAIN bill /\ before \in [S -> Nat]
        /\ \A n \in S : before[n] = Worth(n)
    BY WorthIsCounted DEF WorthOf
  <2>3. Total(before) <= Budget
    BY DEF SpendFits, WorthStaysInBudget
  <2>4. CASE d # row.day
    <3>1. BilledOn(d)' = S
      BY <1>4, <2>4 DEF BilledOn
    <3>2. after = before
      BY <1>11, <2>2, <3>1 DEF WorthOf
    <3> QED
      BY <2>1, <2>3, <3>2
  <2>5. CASE d = row.day
    <3>1. BilledOn(d)' = S \cup {id}
      BY <1>4, <2>5 DEF BilledOn
    <3>2. /\ after \in [S \cup {id} -> Nat] /\ after[id] = row.usd /\ id \notin S
          /\ \A n \in S : after[n] = before[n]
      <4>1. after = [n \in S \cup {id} |-> Worth(n)']
        BY <3>1
      <4>2. \A n \in S : Worth(n)' = Worth(n) /\ Worth(n) \in Nat /\ before[n] = Worth(n)
        BY <1>11, <2>2, WorthIsCounted
      <4>3. id \in S \cup {id} /\ id \notin S
        BY <1>4, <2>2
      <4>4. after[id] = row.usd
        <5>1. PICK i : i = id
          OBVIOUS
        <5>2. Worth(i)' = row.usd
          BY <1>12, <5>1
        <5> HIDE DEF S, before, after
        <5>3. after[i] = Worth(i)'
          BY <4>1, <4>3, <5>1
        <5> QED
          BY <5>1, <5>2, <5>3
      <4>5. \A n \in S : after[n] = before[n] /\ after[n] \in Nat
        <5> HIDE DEF S, before, after
        <5> QED
          BY <4>1, <4>2
      <4>6. DOMAIN after = S \cup {id} /\ after = [n \in S \cup {id} |-> after[n]]
        BY <4>1
      <4> HIDE DEF S, before, after
      <4> QED
        BY <1>3, <4>3, <4>4, <4>5, <4>6
    <3>3. \A s \in Router : ~(Announced(router[s]) /\ router[s].day = d)
      <4> SUFFICES ASSUME NEW s \in Router, Announced(router[s]), router[s].day = d
                   PROVE  FALSE
        OBVIOUS
      <4>1. flock[d] = s /\ s # r
        BY <1>9 DEF SpendInv, FilesAreHeld, Announced, row
      <4> QED
        BY <1>3, <2>5, <4>1
    <3>4. Total(before) \in Nat /\ Accounted(d) \in Nat /\ Total(before) <= Accounted(d)
      BY <3>3, JournalAccounts
    <3> HIDE DEF S, before, after
    <3>5. Total(after) = Total(before) + row.usd
      <4> DEFINE x == id
                 more == row.usd
      <4>1. x \notin S /\ more \in Nat /\ after \in [S \cup {x} -> Nat] /\ after[x] = more
        BY <1>3, <3>2
      <4>2. IsFiniteSet(S) /\ before \in [S -> Nat] /\ \A n \in S : after[n] = before[n]
        BY <2>2, <3>2
      <4> HIDE DEF x, more
      <4>3. Total(after) = Total(before) + more
        BY <4>1, <4>2, TotalGrows
      <4> QED
        BY <4>3 DEF more
    <3> QED
      BY <1>1, <1>3, <2>1, <2>5, <3>4, <3>5, AmountsAreCounted
  <2> QED
    BY <2>4, <2>5
<1> QED
  BY <1>13, <1>14, <1>15, <1>16 DEF SpendFits

LEMMA SpendStartsInBudget ==
  ASSUME LedgerInit
  PROVE  SpendFits
<1>1. /\ bill = <<>> /\ \A r \in Router : router[r] = NotRouting
      /\ \A d \in 1..Days : journal[d] = <<>>
  BY DEF LedgerInit
<1>2. /\ \A r \in Router : /\ ~Promised(router[r]) /\ ~Announced(router[r]) /\ ~Settling(router[r])
                           /\ EndLines(BufferOf(router[r])) = {}
      /\ \A d \in 1..Days : EndLines(journal[d]) = {}
  BY <1>1 DEF NotRouting, Promised, Announced, Settling, BufferOf, EndLines
<1>3. RoutersFit /\ EndsCover
  BY <1>2 DEF RoutersFit, EndsCover
<1>4. DOMAIN bill = {}
  BY <1>1
<1>5. CallsAreOnRecord
  BY <1>4 DEF CallsAreOnRecord
<1>6. ASSUME NEW d \in 1..Days
      PROVE  Total(WorthOf(d)) <= Budget
  <2>1. Units(WorthOf(d)) = {}
    BY <1>4 DEF Units, WorthOf, BilledOn
  <2> QED
    BY <2>1, TotalOfNothing, AmountsAreCounted
<1> QED
  BY <1>3, <1>5, <1>6 DEF SpendFits, WorthStaysInBudget

LEMMA LedgerNextFits ==
  ASSUME SpendInv, SpendInv', SpendFits, [LedgerNext]_ledgerVars
  PROVE  SpendFits'
<1>1. CASE MinutePasses \/ Midnight
  BY <1>1, TimeFits
<1>2. ASSUME NEW r \in Router,
             \/ \E usd \in Reservation : AskToSpend(r, usd)
             \/ TakeFile(r) \/ LockTimesOut(r) \/ CannotRead(r) \/ Admit(r) \/ TurnAway(r)
             \/ CloseFile(r) \/ EndAttempt(r) \/ Flush(r) \/ FlushFails(r)
             \/ Post(r) \/ GiveUp(r) \/ RouterDies(r)
      PROVE  SpendFits'
  <2>1. CASE \/ \E usd \in Reservation : AskToSpend(r, usd)
             \/ TakeFile(r) \/ LockTimesOut(r) \/ CannotRead(r) \/ GiveUp(r) \/ RouterDies(r)
    BY <2>1, AskingFits
  <2>2. CASE Admit(r)
    BY <2>2, AdmittingFits
  <2>3. CASE TurnAway(r)
    BY <2>3, TurningAwayFits
  <2>4. CASE EndAttempt(r)
    BY <2>4, EndingFits
  <2>5. CASE CloseFile(r) \/ Flush(r) \/ FlushFails(r)
    BY <2>5, WritingFits
  <2>6. CASE Post(r)
    BY <2>6, PostingFits
  <2> QED
    BY <1>2, <2>1, <2>2, <2>3, <2>4, <2>5, <2>6
<1>3. CASE UNCHANGED ledgerVars
  <2>1. UNCHANGED <<journal, flock, router, bill>>
    BY <1>3, BooksStay
  <2>2. RoutersFit' /\ EndsCover' /\ CallsAreOnRecord'
    <3>1. RoutersFit'
      BY <2>1 DEF SpendFits, RoutersFit, Covers, Reserves, Worth, WithinReservation
    <3>2. EndsCover'
      BY <2>1 DEF SpendFits, EndsCover, Covers, EndLines, Worth, WithinReservation, BufferOf
    <3>3. CallsAreOnRecord'
      BY <2>1 DEF SpendFits, CallsAreOnRecord, Reserves, Worth, WithinReservation
    <3> QED
      BY <3>1, <3>2, <3>3
  <2>3. WorthStaysInBudget'
    <3>1. \A n \in DOMAIN bill : Worth(n)' \in Nat /\ Worth(n)' <= Worth(n)
      <4>1. \A n \in DOMAIN bill : Worth(n) \in Nat
        BY WorthIsCounted
      <4> QED
        BY <2>1, <4>1 DEF Worth, WithinReservation
    <3> QED
      BY <2>1, <3>1, FallingKeepsTheBudget
  <2> QED
    BY <2>2, <2>3 DEF SpendFits
<1> QED
  BY <1>1, <1>2, <1>3 DEF LedgerNext

(* What the provider bills for a day's calls stays in the budget, up to    *)
(* what was reserved for each of them: whichever processes race for the    *)
(* last of it, whatever is not flushed and whoever dies.                   *)
(* (jev_ledger.py, reserve, settle and mark_unknown; jev_router.py, _post.)*)
THEOREM SpendIsKept == LedgerSpec => []SpendStaysInBudget
<1>1. LedgerInit => SpendFits
  BY SpendStartsInBudget
<1>2. SpendInv /\ SpendInv' /\ SpendFits /\ [LedgerNext]_ledgerVars => SpendFits'
  BY LedgerNextFits
<1>3. SpendInv /\ SpendFits => SpendStaysInBudget
  BY SpendFitsTheBudget
<1> QED
  BY <1>1, <1>2, <1>3, SpendInvAlways, PTL DEF LedgerSpec

-----------------------------------------------------------------------------
(* The parts together: whatever the system does, each part does what its   *)
(* own specification says or stands still.                                 *)

LEMMA TaskInvAlways == TaskSpec => []TaskInv
<1>1. TaskInit => TaskInv
  BY TaskStarts
<1>2. TaskInv /\ [TaskNext]_taskVars => TaskInv'
  BY TaskNextKeeps
<1> QED
  BY <1>1, <1>2, PTL DEF TaskSpec

LEMMA GrantInvAlways == GrantSpec => []GrantInv
<1>1. GrantInit => GrantInv
  BY GrantStarts
<1>2. GrantInv /\ [GrantNext]_grantVars => GrantInv'
  BY GrantNextKeeps
<1> QED
  BY <1>1, <1>2, PTL DEF GrantSpec

LEMMA TaskInvTypes ==
  ASSUME TaskInv
  PROVE  TaskTypeOK
<1>1. \A n \in TaskIds : executor[n] \in Running \cup {"gone"}
  BY TasksAreNumbered DEF Executing
<1> QED
  BY <1>1 DEF TaskInv, TaskRow, TaskTypeOK

LEMMA EachPartSteps ==
  ASSUME [ServicesNext]_servicesVars
  PROVE  /\ part' = part
         /\ [MemoryNext]_memoryVars /\ (part # "memory" => UNCHANGED memoryVars)
         /\ [KnowledgeNext]_knowledgeVars /\ (part # "knowledge" => UNCHANGED knowledgeVars)
         /\ [AdmissionNext]_admissionVars /\ [TaskNext]_taskVars /\ [SlotNext]_slotVars
         /\ [LedgerNext]_ledgerVars /\ [ToolNext]_toolVars /\ [GrantNext]_grantVars
<1>1. CASE ServicesNext
  BY <1>1 DEF ServicesNext
<1>2. CASE UNCHANGED servicesVars
  BY <1>2 DEF servicesVars
<1> QED
  BY <1>1, <1>2

(* Every part that can start in any behaviour runs by its own              *)
(* specification in all of them.                                           *)
LEMMA PartsRunByTheirSpecs ==
  ServicesSpec => /\ AdmissionSpec /\ TaskSpec /\ SlotSpec
                  /\ LedgerSpec /\ ToolSpec /\ GrantSpec
<1>1. ServicesInit => AdmissionInit /\ TaskInit /\ SlotInit /\ LedgerInit /\ ToolInit /\ GrantInit
  BY DEF ServicesInit
<1>2. [ServicesNext]_servicesVars =>
         /\ [AdmissionNext]_admissionVars /\ [TaskNext]_taskVars /\ [SlotNext]_slotVars
         /\ [LedgerNext]_ledgerVars /\ [ToolNext]_toolVars /\ [GrantNext]_grantVars
  BY EachPartSteps
<1> QED
  BY <1>1, <1>2, PTL DEF ServicesSpec, AdmissionSpec, TaskSpec, SlotSpec, LedgerSpec, ToolSpec,
     GrantSpec

LEMMA MemoryRunsOrStands ==
  ServicesSpec => \/ MemorySpec /\ [](part = "memory")
                  \/ [](part # "memory" /\ Rows = {}) /\ [][FALSE]_memoryVars
<1>1. ServicesInit => \/ part = "memory" /\ MemoryInit
                      \/ part # "memory" /\ Rows = {}
  BY DEF ServicesInit, NothingRemembered, Rows
<1>2. part = "memory" /\ [ServicesNext]_servicesVars => (part = "memory")' /\ [MemoryNext]_memoryVars
  BY EachPartSteps
<1>3. (part # "memory" /\ Rows = {}) /\ [ServicesNext]_servicesVars =>
         (part # "memory" /\ Rows = {})' /\ [FALSE]_memoryVars
  <2> SUFFICES ASSUME part # "memory" /\ Rows = {}, [ServicesNext]_servicesVars
               PROVE  part' # "memory" /\ Rows' = {} /\ UNCHANGED memoryVars
    OBVIOUS
  <2>1. part' = part /\ UNCHANGED memoryVars
    BY EachPartSteps
  <2> QED
    BY <2>1 DEF memoryVars, Rows
<1> QED
  BY <1>1, <1>2, <1>3, PTL DEF ServicesSpec, MemorySpec

LEMMA KnowledgeRunsOrStands ==
  ServicesSpec => \/ KnowledgeSpec /\ [](part = "knowledge")
                  \/ [](part # "knowledge") /\ [][FALSE]_knowledgeVars
<1>1. ServicesInit => \/ part = "knowledge" /\ KnowledgeInit
                      \/ part # "knowledge"
  BY DEF ServicesInit
<1>2. part = "knowledge" /\ [ServicesNext]_servicesVars =>
         (part = "knowledge")' /\ [KnowledgeNext]_knowledgeVars
  BY EachPartSteps
<1>3. part # "knowledge" /\ [ServicesNext]_servicesVars =>
         (part # "knowledge")' /\ [FALSE]_knowledgeVars
  BY EachPartSteps
<1> QED
  BY <1>1, <1>2, <1>3, PTL DEF ServicesSpec, KnowledgeSpec

(* Every part keeps its type invariant, in every behaviour. *)
THEOREM ServicesTypeCorrect == ServicesSpec => []ServicesTypeOK
<1>1. ServicesSpec => []TaskInv /\ []GrantInv
  BY PartsRunByTheirSpecs, TaskInvAlways, GrantInvAlways, PTL
<1>2. ServicesSpec => []AdmissionTypeOK /\ []SlotTypeOK /\ []LedgerTypeOK /\ []ToolTypeOK
  BY PartsRunByTheirSpecs, AdmissionTypeCorrect, SlotTypeCorrect, SpendBooksTypeCorrect,
     LedgerTypeCorrect, PTL
<1>3. ServicesSpec => [](part = "memory" => MemoryTypeOK)
  <2>1. MemoryTypeOK => (part = "memory" => MemoryTypeOK)
    OBVIOUS
  <2>2. part # "memory" /\ Rows = {} => (part = "memory" => MemoryTypeOK)
    OBVIOUS
  <2> QED
    BY <2>1, <2>2, MemoryRunsOrStands, MemoryTypeCorrect, PTL
<1>4. ServicesSpec => [](part = "knowledge" => KnowledgeTypeOK)
  <2>1. KnowledgeTypeOK => (part = "knowledge" => KnowledgeTypeOK)
    OBVIOUS
  <2>2. part # "knowledge" => (part = "knowledge" => KnowledgeTypeOK)
    OBVIOUS
  <2> QED
    BY <2>1, <2>2, KnowledgeRunsOrStands, KnowledgeTypeCorrect, PTL
<1>5. TaskInv => TaskTypeOK
  BY TaskInvTypes
<1>6. GrantInv => GrantTypeOK
  BY GrantInvTypes
<1>7. /\ part = "memory" => MemoryTypeOK
      /\ part = "knowledge" => KnowledgeTypeOK
      /\ AdmissionTypeOK /\ TaskTypeOK /\ SlotTypeOK /\ LedgerTypeOK /\ ToolTypeOK
      /\ GrantTypeOK
      => ServicesTypeOK
  BY DEF ServicesTypeOK
<1> QED
  BY <1>1, <1>2, <1>3, <1>4, <1>5, <1>6, <1>7, PTL

(* What the parts promise of their states holds of the system's.           *)
THEOREM ServicesKeepTheirPromises ==
  ServicesSpec => /\ []VersionsCount
                  /\ []AdmissionHolds /\ []RetriesFindTheRun
                  /\ []DecisionNamesItsAction
                  /\ []SpendStaysInBudget
                  /\ []DuplicatesAreSuppressed
<1>1. ServicesSpec => /\ []AdmissionHolds /\ []RetriesFindTheRun
                      /\ []DecisionNamesItsAction /\ []SpendStaysInBudget
                      /\ []DuplicatesAreSuppressed
  BY PartsRunByTheirSpecs, QueueIsNeverOverfilled, KeysHaveOneRun, DecisionsNameTheirAction,
     SpendIsKept, DuplicatesStaySuppressed, PTL
<1>2. part # "memory" /\ Rows = {} => VersionsCount
  BY NothingIsCounted
<1>3. ServicesSpec => []VersionsCount
  BY <1>2, MemoryRunsOrStands, VersionsAreNumbered, PTL
<1> QED
  BY <1>1, <1>3

(* What the parts promise of their steps holds of the system's.            *)
THEOREM ServicesStepAsPromised ==
  ServicesSpec => /\ EndedStaysEnded /\ RevocationReachesAll /\ ServedStillStands
                  /\ ServedIsInForce /\ PublishedIsWhole
                  /\ TasksEndOnce /\ RevocationIsSeen
                  /\ ImplementsSubmissionQueue
<1>1. ServicesSpec => TasksEndOnce /\ RevocationIsSeen /\ ImplementsSubmissionQueue
  BY PartsRunByTheirSpecs, TaskEndsStand, AnswersAreInTime, SubmissionsAreAtomic, PTL
<1>2. [][FALSE]_memoryVars => EndedStaysEnded /\ RevocationReachesAll /\ ServedStillStands
  BY PTL DEF EndedStaysEnded, RevocationReachesAll, ServedStillStands
<1>3. ServicesSpec => EndedStaysEnded /\ RevocationReachesAll /\ ServedStillStands
  BY <1>2, MemoryRunsOrStands, EndsAreFinal, RevocationsReach, ServingsStand, PTL
<1>4. [][FALSE]_knowledgeVars => ServedIsInForce /\ PublishedIsWhole
  BY PTL DEF ServedIsInForce, PublishedIsWhole
<1>5. ServicesSpec => ServedIsInForce /\ PublishedIsWhole
  BY <1>4, KnowledgeRunsOrStands, ServedPassagesAreInForce, FlipsAreWhole, PTL
<1> QED
  BY <1>1, <1>3, <1>5
=============================================================================
