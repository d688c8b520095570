------------------------ MODULE SupervisorGraphProofs ------------------------
(* Proofs about SupervisorGraph, for every budget and every narrowing of the scope. *)
EXTENDS SupervisorGraphProps, FiniteSetTheorems, TLAPS

Over == {"finalize"} \cup Stopped

-----------------------------------------------------------------------------
(* The inductive invariant, in the parts that lean on each other. *)

(* A plan is made once and never emptied; a revision is newer than every task of the plan it
   revises; and while there is no review, one of the plan's Reviewer tasks is still to run. *)
PlanFits ==
  /\ at = "plan" => Planned = {}
  /\ at \notin {"supervisor", "plan", "escalate"} \cup Over => Planned # {}
  /\ \A t \in Planned : t[2] <= control.replans + control.rounds
  /\ Planned # {} =>
       \E t \in Planned : AgentOf(t) = "reviewer" /\ (review = NoReview => status[t] # "success")

(* What a decision hands to its node: tasks of the plan, a batch of them within the parallel
   slots; and it starts work on evidence only before there is a review. *)
BatchFits ==
  /\ at \in {"dispatch", "analysis", "reviewer"} => selected \subseteq Planned
  /\ at \in {"dispatch", "tasks", "barrier", "analysis"} => review = NoReview
  /\ at \in {"dispatch", "tasks"} =>
       selected \subseteq Gatherer /\ IsFiniteSet(selected) /\ Cardinality(selected) <= MaxParallel
  /\ at = "barrier" =>
       /\ \A c \in completions : c[1] \in Gatherer
       /\ IsFiniteSet(completions) /\ Cardinality(completions) <= MaxParallel
  /\ at = "analysis" => \A t \in selected : AgentOf(t) = "analysis"
  /\ at \in {"dispatch", "tasks", "barrier"} => control.failures <= 2

(* What is spent where: a decision leaves room for the node it starts. *)
SpendingFits ==
  /\ BudgetsHold
  /\ at \notin {"supervisor"} \cup Over => control.steps <= MaxSteps
  /\ Planned = {} /\ at = "supervisor" =>
       /\ control.steps <= 1 /\ control.models <= 3
       /\ human # "continue" => control.steps = 0 /\ control.models = 0
  /\ Planned = {} /\ at \in {"plan", "escalate"} => control.steps <= 1 /\ control.models <= 3
  /\ at = "replan" => control.replans <= MaxReplans
  /\ at = "retrieve_more" => review.verdict = "retrieve_more"
  /\ review.verdict = "retrieve_more" /\ at \notin Over => control.rounds = 0

-----------------------------------------------------------------------------
(* The budget's arithmetic. *)

LEMMA LimitsAreNumbers ==
  /\ MaxParallel \in Nat /\ MaxSteps \in Nat /\ MaxReplans \in Nat
  /\ MaxModelCalls \in Nat /\ MaxToolCalls \in Nat
BY BudgetAssumption DEF BudgetAssumption

LEMMA CountersAreNumbers ==
  ASSUME NEW c \in Counter
  PROVE  /\ c.steps \in Nat /\ c.models \in Nat /\ c.tools \in Nat
         /\ c.replans \in Nat /\ c.rounds \in Nat /\ c.failures \in Nat
         /\ c.models <= MaxModelCalls + 8 /\ c.tools <= MaxToolCalls + 8
BY LimitsAreNumbers DEF Counter

LEMMA ChargeIs ==
  ASSUME control \in Counter, NEW n \in Nat, NEW m \in Nat
  PROVE  /\ Charge(n, m) \in Counter
         /\ Charge(n, m).steps <= control.steps + n
         /\ Charge(n, m).models <= control.models + m
         /\ Charge(n, m).tools = control.tools /\ Charge(n, m).replans = control.replans
         /\ Charge(n, m).rounds = control.rounds /\ Charge(n, m).failures = control.failures
<1> DEFINE steps == Least(control.steps + n, MaxSteps + MaxParallel + 2)
           models == Least(control.models + m, MaxModelCalls + 8)
<1>1. /\ steps \in 0..(MaxSteps + MaxParallel + 2) /\ steps <= control.steps + n
      /\ models \in 0..(MaxModelCalls + 8) /\ models <= control.models + m
  BY BudgetAssumption DEF Counter, Least, BudgetAssumption
<1>2. Charge(n, m) = [control EXCEPT !.steps = steps, !.models = models]
  BY DEF Charge
<1> HIDE DEF steps, models
<1> QED
  BY <1>1, <1>2 DEF Counter

LEMMA LeftIs ==
  ASSUME NEW limit \in Nat, NEW used \in Nat, NEW asked \in Nat
  PROVE  /\ Least(asked, Left(limit, used)) \in Nat
         /\ used + Least(asked, Left(limit, used)) <= IF used < limit THEN limit ELSE used
BY DEF Least, Left

LEMMA SpentStops ==
  ASSUME control \in Counter, ~Spent(control)
  PROVE  /\ control.steps < MaxSteps /\ control.models < MaxModelCalls
         /\ control.tools < MaxToolCalls /\ control.replans <= MaxReplans /\ control.failures <= 2
BY BudgetAssumption DEF Counter, Spent, BudgetAssumption

-----------------------------------------------------------------------------
(* Types. *)

LEMMA InitType == Init => TypeOK
<1> SUFFICES ASSUME Init PROVE TypeOK
  OBVIOUS
<1>1. control \in Counter
  BY BudgetAssumption DEF Init, Counter, BudgetAssumption
<1>2. envelope \in Envelope /\ intent \in Intent
  BY DEF Init, Envelope, Intent, NoEnvelope, NoIntent, Review, Analysis
<1>3. scope \in Scope
  BY BudgetAssumption DEF Init, Scope, BudgetAssumption
<1> QED
  BY <1>1, <1>2, <1>3 DEF Init, TypeOK, Node, TaskStatus, Analysis, Review

LEMMA AttemptsAreFew == \A attempts \in Tries : attempts \in Nat /\ attempts <= 3
BY BudgetAssumption DEF BudgetAssumption

LEMMA NoProductsType ==
  NoAnalysis \in Analysis /\ NoReview \in Review /\ NoEnvelope \in Envelope /\ NoIntent \in Intent
BY DEF NoAnalysis, Analysis, NoReview, Review, NoEnvelope, Envelope, NoIntent, Intent

(* A revision's number is still free in the plan's task ids. *)
LEMMA CountedIs ==
  ASSUME control \in Counter, NEW node \in {"replan", "retrieve_more"},
         node = "replan" => control.replans <= MaxReplans,
         node = "retrieve_more" => control.rounds = 0
  PROVE  /\ Counted(node) \in Counter
         /\ Counted(node).replans + Counted(node).rounds = control.replans + control.rounds + 1
         /\ Counted(node).steps = control.steps /\ Counted(node).models = control.models
         /\ Counted(node).tools = control.tools
BY BudgetAssumption DEF Counted, Counter, BudgetAssumption

LEMMA FinishType ==
  ASSUME TypeOK, NEW S, Finish(S)
  PROVE  status' \in [Task -> TaskStatus]
BY DEF TypeOK, Finish, TaskStatus

LEMMA AddTasksType ==
  ASSUME TypeOK, NEW kept \in SUBSET Task, NEW new, NEW edges,
         \A t \in Task : edges[t] \in SUBSET Task,
         AddTasks(kept, new, edges)
  PROVE  status' \in [Task -> TaskStatus] /\ needs' \in [Task -> SUBSET Task]
BY DEF TypeOK, AddTasks, TaskStatus

LEMMA NarrowType ==
  ASSUME TypeOK, Narrow, scope < MaxNarrowings
  PROVE  /\ scope' \in Scope /\ status' \in [Task -> TaskStatus]
         /\ gathered' \subseteq Item /\ joined' \subseteq Item /\ dirty' \in BOOLEAN
         /\ analysis' \in Analysis /\ review' \in Review /\ envelope' \in Envelope
         /\ intent' \in Intent
<1>1. scope' \in Scope
  BY BudgetAssumption DEF TypeOK, Narrow, Scope, BudgetAssumption
<1>2. status' \in [Task -> TaskStatus]
  BY DEF TypeOK, Narrow, TaskStatus
<1> QED
  BY <1>1, <1>2, NoProductsType DEF Narrow

LEMMA DecisionType ==
  ASSUME TypeOK, NEW action \in Action, NEW S \in Selection(action), Decide(action, S)
  PROVE  TypeOK'
<1>1. control' \in Counter
  BY AttemptsAreFew, ChargeIs DEF Decide, TypeOK
<1>2. S \subseteq Task
  BY DEF Selection, Ready
<1>3. at' \in Node
  BY DEF Decide, Target, Action, Node
<1> QED
  BY <1>1, <1>2, <1>3 DEF Decide, TypeOK, plan, products, answers

LEMMA PlanType ==
  ASSUME TypeOK, PlanInitially
  PROVE  TypeOK'
<1>1. PICK evidence \in SUBSET {<<"data", 0>>, <<"knowledge", 0>>} :
        AddTasks({}, evidence \cup {<<a, 0>> : a \in {"analysis", "reviewer"}
                                      \cup {x \in {"action"} : writes}},
          [t \in Task |-> CASE AgentOf(t) = "analysis" -> evidence
              [] AgentOf(t) = "reviewer" -> {<<"analysis", 0>>}
              [] AgentOf(t) = "action" -> {<<"reviewer", 0>>}
              [] OTHER -> {}])
  BY DEF PlanInitially
<1>2. evidence \subseteq Task /\ {<<"analysis", 0>>} \subseteq Task /\ {<<"reviewer", 0>>} \subseteq Task
  BY BudgetAssumption DEF Task, Agent, Revision, BudgetAssumption
<1>3. status' \in [Task -> TaskStatus] /\ needs' \in [Task -> SUBSET Task]
  <2> DEFINE edges == [t \in Task |-> CASE AgentOf(t) = "analysis" -> evidence
              [] AgentOf(t) = "reviewer" -> {<<"analysis", 0>>}
              [] AgentOf(t) = "action" -> {<<"reviewer", 0>>}
              [] OTHER -> {}]
  <2>1. \A t \in Task : edges[t] \in SUBSET Task
    BY <1>2
  <2> HIDE DEF edges
  <2> QED
    BY <1>1, <2>1, AddTasksType DEF edges
<1>4. control' \in Counter
  BY AttemptsAreFew, ChargeIs DEF PlanInitially, TypeOK
<1> QED
  BY <1>3, <1>4 DEF PlanInitially, TypeOK, answers, Node

LEMMA RevisionType ==
  ASSUME TypeOK, SpendingFits, NEW node \in {"replan", "retrieve_more"}, Revise(node)
  PROVE  TypeOK'
<1> DEFINE counted == Counted(node)
           new(a) == <<a, counted.replans + counted.rounds>>
           known(a) == {t \in Done : AgentOf(t) = a} \cup {new(a)}
           edges(sources, judged, gate) ==
             [t \in Task |-> CASE AgentOf(t) = "analysis" -> sources
                               [] AgentOf(t) = "reviewer" -> {judged}
                               [] AgentOf(t) = "action" -> {gate}
                               [] OTHER -> {}]
<1>1. /\ counted \in Counter /\ counted.replans <= MaxReplans /\ counted.rounds <= 1
      /\ counted.steps < MaxSteps /\ counted.models < MaxModelCalls
  <2>1. control \in Counter /\ at = node /\ ~Spent(counted)
    BY DEF Revise, TypeOK
  <2>2. /\ node = "replan" => control.replans <= MaxReplans
        /\ node = "retrieve_more" => control.rounds = 0
    BY <2>1 DEF SpendingFits, Over, Stopped
  <2>3. counted \in Counter
    BY <2>1, <2>2, CountedIs
  <2> QED
    BY <2>1, <2>3, BudgetAssumption DEF Spent, Counter, BudgetAssumption
<1>2. \A a \in Agent : new(a) \in Task /\ known(a) \subseteq Task
  <2>1. counted.replans + counted.rounds \in Revision
    BY <1>1, BudgetAssumption DEF Revision, Counter, BudgetAssumption
  <2> QED
    BY <2>1 DEF Task, Done
<1>3. \E evidence \in SUBSET {new("data"), new("knowledge")} :
        \E sources \in {(Done \cap Gatherer) \cup S : S \in SUBSET evidence},
           judged \in known("analysis"), gate \in known("reviewer") :
          AddTasks(Done,
            evidence \cup {new("analysis"), new("reviewer")} \cup {t \in {new("action")} : writes},
            edges(sources, judged, gate))
  BY DEF Revise
<1>4. status' \in [Task -> TaskStatus] /\ needs' \in [Task -> SUBSET Task]
  <2> SUFFICES ASSUME NEW evidence \in SUBSET {new("data"), new("knowledge")},
                      NEW sources \in {(Done \cap Gatherer) \cup S : S \in SUBSET evidence},
                      NEW judged \in known("analysis"), NEW gate \in known("reviewer"),
                      AddTasks(Done,
                        evidence \cup {new("analysis"), new("reviewer")}
                          \cup {t \in {new("action")} : writes},
                        edges(sources, judged, gate))
               PROVE  status' \in [Task -> TaskStatus] /\ needs' \in [Task -> SUBSET Task]
    BY <1>3
  <2>1. sources \subseteq Task /\ judged \in Task /\ gate \in Task
    BY <1>2 DEF Done, Agent
  <2>2. \A t \in Task : edges(sources, judged, gate)[t] \in SUBSET Task
    BY <2>1
  <2>3. Done \in SUBSET Task
    BY DEF Done
  <2> HIDE DEF edges
  <2> QED
    BY <1>3, <2>2, <2>3, AddTasksType
<1>5. control' \in Counter
  <2>1. PICK attempts \in Tries :
          control' = [counted EXCEPT !.steps = @ + 1, !.models = @ + attempts]
    BY DEF Revise
  <2>2. /\ counted.steps + 1 \in 0..(MaxSteps + MaxParallel + 2)
        /\ counted.models + attempts \in 0..(MaxModelCalls + 8)
    BY <1>1, AttemptsAreFew, BudgetAssumption DEF Counter, BudgetAssumption
  <2> QED
    BY <1>1, <2>1, <2>2 DEF Counter
<1> QED
  BY <1>4, <1>5, NoProductsType DEF Revise, TypeOK, answers, Node

(* A batch's completions charge at most one step per slot, and calls up to what is left. *)
LEMMA BarrierCharge ==
  ASSUME TypeOK, BatchFits, Barrier
  PROVE  /\ control' \in Counter
         /\ control'.steps <= control.steps + MaxParallel
         /\ control'.models <= IF control.models < MaxModelCalls THEN MaxModelCalls ELSE control.models
         /\ control'.tools <= IF control.tools < MaxToolCalls THEN MaxToolCalls ELSE control.tools
         /\ control'.replans = control.replans /\ control'.rounds = control.rounds
<1> DEFINE applied == {c \in completions : status[c[1]] = "running"}
           failed == {c \in applied : c[2] = "failed"}
           n == Cardinality(completions)
<1>1. PICK models \in ModelUse, tools \in ToolUse :
        control' = [Charge(n, Least(models * n, Left(MaxModelCalls, control.models))) EXCEPT
            !.tools = Least(@ + Least(tools * n, Left(MaxToolCalls, @)), MaxToolCalls + 8),
            !.failures = IF failed = {} THEN 0 ELSE @ + Cardinality(failed)]
  BY Zenon DEF Barrier
<1>2. /\ n \in Nat /\ n <= MaxParallel /\ IsFiniteSet(completions)
      /\ control \in Counter /\ control.failures <= 2
  BY FS_CardinalityType DEF BatchFits, Barrier, TypeOK
<1>3. Cardinality(failed) \in Nat /\ Cardinality(failed) <= MaxParallel
  <2>1. failed \in SUBSET completions
    OBVIOUS
  <2>2. IsFiniteSet(failed) /\ Cardinality(failed) <= n
    BY <1>2, <2>1, FS_Subset
  <2> HIDE DEF failed, n
  <2>3. Cardinality(failed) \in Nat
    BY <2>2, FS_CardinalityType
  <2> QED
    BY <1>2, <2>2, <2>3, BudgetAssumption DEF BudgetAssumption
<1> HIDE DEF failed, n
<1>4. models * n \in Nat /\ tools * n \in Nat
  <2>1. models \in Nat /\ tools \in Nat
    BY BudgetAssumption DEF BudgetAssumption
  <2> QED
    BY <1>2, <2>1
<1> DEFINE m == Least(models * n, Left(MaxModelCalls, control.models))
           k == Least(tools * n, Left(MaxToolCalls, control.tools))
<1>5. /\ m \in Nat
      /\ control.models + m <= IF control.models < MaxModelCalls THEN MaxModelCalls ELSE control.models
  BY <1>2, <1>4, LeftIs, LimitsAreNumbers, CountersAreNumbers
<1>6. /\ k \in Nat
      /\ control.tools + k <= IF control.tools < MaxToolCalls THEN MaxToolCalls ELSE control.tools
  BY <1>2, <1>4, LeftIs, LimitsAreNumbers, CountersAreNumbers
<1>7. control' = [Charge(n, m) EXCEPT
        !.tools = Least(control.tools + k, MaxToolCalls + 8),
        !.failures = IF failed = {} THEN 0 ELSE control.failures + Cardinality(failed)]
  <2>1. Charge(n, m) \in Counter
        /\ Charge(n, m).tools = control.tools /\ Charge(n, m).failures = control.failures
    BY <1>2, <1>5, ChargeIs
  <2> QED
    BY <1>1, <2>1
<1> HIDE DEF m, k
<1>8. /\ Charge(n, m) \in Counter /\ Charge(n, m).steps <= control.steps + n
      /\ Charge(n, m).models <= control.models + m
      /\ Charge(n, m).replans = control.replans /\ Charge(n, m).rounds = control.rounds
  BY <1>2, <1>5, ChargeIs
<1>9. /\ Least(control.tools + k, MaxToolCalls + 8) \in 0..(MaxToolCalls + 8)
      /\ Least(control.tools + k, MaxToolCalls + 8) <=
           IF control.tools < MaxToolCalls THEN MaxToolCalls ELSE control.tools
  BY <1>2, <1>6, BudgetAssumption DEF Least, Counter, BudgetAssumption
<1>10. (IF failed = {} THEN 0 ELSE control.failures + Cardinality(failed)) \in 0..(MaxParallel + 3)
  BY <1>2, <1>3, BudgetAssumption DEF Counter, BudgetAssumption
<1>11. control' \in Counter
  BY <1>7, <1>8, <1>9, <1>10 DEF Counter
<1>12. /\ control'.steps = Charge(n, m).steps /\ control'.models = Charge(n, m).models
       /\ control'.tools = Least(control.tools + k, MaxToolCalls + 8)
       /\ control'.replans = control.replans /\ control'.rounds = control.rounds
  BY <1>7, <1>8 DEF Counter
<1>13. control'.steps <= control.steps + MaxParallel
  BY <1>2, <1>8, <1>12, LimitsAreNumbers, CountersAreNumbers
<1>14. control'.models <= IF control.models < MaxModelCalls THEN MaxModelCalls ELSE control.models
  BY <1>2, <1>5, <1>8, <1>12, LimitsAreNumbers, CountersAreNumbers
<1> QED
  BY <1>9, <1>11, <1>12, <1>13, <1>14

(* Joining, analysing and reviewing charge a step, and calls up to what is left. *)
LEMMA NodeCharge ==
  ASSUME TypeOK, JoinEvidence \/ AnalyzeJoined \/ ReviewAnalysis
  PROVE  /\ control' \in Counter
         /\ control'.steps <= control.steps + 1
         /\ control'.models <= IF control.models < MaxModelCalls THEN MaxModelCalls ELSE control.models
         /\ control'.tools = control.tools
         /\ control'.replans = control.replans /\ control'.rounds = control.rounds
         /\ control'.failures = control.failures
<1>1. control \in Counter /\ \A calls \in Calls :
        /\ calls \in Nat
        /\ control.models + calls <=
             IF control.models < MaxModelCalls THEN MaxModelCalls ELSE control.models
  <2>1. \A calls \in ModelUse : calls \in Nat
    BY BudgetAssumption DEF BudgetAssumption
  <2>2. control \in Counter /\ control.models \in Nat
    BY CountersAreNumbers DEF TypeOK
  <2>3. ASSUME NEW calls \in Calls
        PROVE  /\ calls \in Nat
               /\ control.models + calls <=
                    IF control.models < MaxModelCalls THEN MaxModelCalls ELSE control.models
    <3>1. PICK asked \in ModelUse : calls = Least(asked, Left(MaxModelCalls, control.models))
      BY DEF Calls
    <3>2. asked \in Nat /\ MaxModelCalls \in Nat
      BY <2>1, LimitsAreNumbers
    <3> QED
      BY <2>2, <3>1, <3>2, LeftIs
  <2> QED
    BY <2>2, <2>3
<1>2. \E calls \in {0} \cup Calls : control' = Charge(1, calls)
  BY DEF JoinEvidence, AnalyzeJoined, ReviewAnalysis
<1>3. PICK calls \in {0} \cup Calls : control' = Charge(1, calls)
  BY <1>2
<1>4. /\ calls \in Nat
      /\ control.models + calls <=
             IF control.models < MaxModelCalls THEN MaxModelCalls ELSE control.models
  BY <1>1, LimitsAreNumbers, CountersAreNumbers
<1>5. /\ Charge(1, calls) \in Counter
      /\ Charge(1, calls).steps <= control.steps + 1
      /\ Charge(1, calls).models <= control.models + calls
      /\ Charge(1, calls).tools = control.tools /\ Charge(1, calls).replans = control.replans
      /\ Charge(1, calls).rounds = control.rounds /\ Charge(1, calls).failures = control.failures
  BY <1>1, <1>4, ChargeIs
<1> QED
  BY <1>1, <1>3, <1>4, <1>5, LimitsAreNumbers, CountersAreNumbers

LEMMA RunTasksType ==
  ASSUME TypeOK, BatchFits, RunTasks
  PROVE  TypeOK'
<1>1. PICK result \in [selected -> {"items", "nothing", "failed", "refused"}] :
        LET refused == {t \in selected : result[t] = "refused"}
        IN IF Cardinality(refused) > 1
           THEN at' = "update_conflict" /\ UNCHANGED <<gathered, completions, termination>>
           ELSE /\ gathered' = gathered \cup {<<t, scope>> : t \in {u \in selected : result[u] = "items"}}
                /\ completions' = {<<t, IF result[t] = "failed" THEN "failed" ELSE "success">> :
                                     t \in selected \ refused}
                /\ termination' = IF refused = {} THEN termination ELSE "failure"
                /\ at' = "barrier"
  BY DEF RunTasks
<1>2. selected \subseteq Gatherer /\ selected \subseteq Task /\ scope \in Scope
  BY DEF RunTasks, BatchFits, TypeOK
<1>3. gathered' \subseteq Item
  BY <1>1, <1>2 DEF TypeOK, Item
<1>4. completions' \subseteq Task \X {"success", "failed"}
  BY <1>1, <1>2 DEF TypeOK
<1>5. termination' \in {"none", "failure", "limit"} /\ at' \in Node \cup Stopped
  BY <1>1 DEF TypeOK, Node, Stopped
<1> QED
  BY <1>3, <1>4, <1>5 DEF RunTasks, TypeOK, plan, answers

LEMMA BarrierType ==
  ASSUME TypeOK, BatchFits, Barrier
  PROVE  TypeOK'
<1>1. status' \in [Task -> TaskStatus]
  BY DEF Barrier, TypeOK, TaskStatus
<1>2. review' \in Review
  BY NoProductsType DEF Barrier, Review, Verdict
<1>3. at' \in Node /\ owner' = "supervisor" /\ completions' = {} /\ dirty' \in BOOLEAN
  BY DEF Barrier, Node
<1> QED
  BY <1>1, <1>2, <1>3, BarrierCharge, Zenon DEF Barrier, TypeOK, answers

LEMMA NextType == TypeOK /\ BatchFits /\ SpendingFits /\ [Next]_vars => TypeOK'
<1> SUFFICES ASSUME TypeOK, BatchFits, SpendingFits, [Next]_vars PROVE TypeOK'
  OBVIOUS
<1> USE DEF plan, products, answers, Node, Stopped
<1>1. CASE UNCHANGED vars
  BY <1>1 DEF vars, TypeOK
<1>2. ASSUME NEW action \in Action, NEW S \in Selection(action), Decide(action, S) PROVE TypeOK'
  BY <1>2, DecisionType
<1>3. CASE DecisionFails
  <2>1. control' \in Counter
    BY <1>3, AttemptsAreFew, ChargeIs DEF DecisionFails, TypeOK
  <2> QED
    BY <1>3, <2>1 DEF DecisionFails, Terminate, TypeOK
<1>4. CASE BudgetStops
  BY <1>4 DEF BudgetStops, Terminate, TypeOK
<1>5. CASE PlanInitially
  BY <1>5, PlanType
<1>6. CASE PlanFails
  <2>1. control' \in Counter
    BY <1>6, AttemptsAreFew, ChargeIs DEF PlanFails, TypeOK
  <2> QED
    BY <1>6, <2>1 DEF PlanFails, Terminate, TypeOK
<1>7. ASSUME NEW node \in {"replan", "retrieve_more"}, Revise(node) PROVE TypeOK'
  BY <1>7, RevisionType
<1>8. ASSUME NEW node \in {"replan", "retrieve_more"}, RevisionFails(node) PROVE TypeOK'
  <2>1. Counted(node) \in Counter
    BY <1>8, CountedIs DEF RevisionFails, SpendingFits, TypeOK, Over
  <2>2. control' \in Counter
    <3>1. CASE control' = Counted(node)
      BY <2>1, <3>1
    <3>2. CASE ~Spent(Counted(node)) /\ \E attempts \in Tries :
                 control' = [Counted(node) EXCEPT !.models = @ + attempts]
      <4>1. \A attempts \in Tries : Counted(node).models + attempts \in 0..(MaxModelCalls + 8)
        BY <2>1, <3>2, AttemptsAreFew, LimitsAreNumbers DEF Spent, Counter
      <4> QED
        BY <2>1, <3>2, <4>1 DEF Counter
    <3> QED
      BY <1>8, <3>1, <3>2 DEF RevisionFails
  <2> QED
    BY <1>8, <2>2 DEF RevisionFails, Terminate, TypeOK
<1>9. CASE Dispatch
  BY <1>9 DEF Dispatch, TypeOK, TaskStatus
<1>10. CASE RunTasks
  BY <1>10, RunTasksType
<1>11. CASE Barrier
  BY <1>11, BarrierType
<1>12. CASE JoinEvidence
  BY <1>12, NodeCharge DEF JoinEvidence, TypeOK
<1>13. ASSUME NEW node \in {"join_evidence", "analysis", "reviewer", "action"}, Refuse(node)
       PROVE  TypeOK'
  BY <1>13 DEF Refuse, Terminate, TypeOK
<1>14. CASE AnalyzeJoined
  <2>1. analysis' \in Analysis
    BY <1>14 DEF AnalyzeJoined, Analysis, TypeOK
  <2> QED
    BY <1>14, <2>1, NodeCharge, FinishType, NoProductsType DEF AnalyzeJoined, TypeOK
<1>15. CASE ReviewAnalysis
  <2>1. review' \in Review
    BY <1>15 DEF ReviewAnalysis, Review, TypeOK
  <2> QED
    BY <1>15, <2>1, NodeCharge, FinishType DEF ReviewAnalysis, TypeOK
<1>16. CASE Handoff
  BY <1>16 DEF Handoff, Envelope, TypeOK
<1>17. CASE Propose
  <2>1. status' \in [Task -> TaskStatus]
    BY <1>17, FinishType DEF Propose
  <2>2. intent' \in Intent
    BY <1>17 DEF Propose, Intent, TypeOK
  <2> QED
    BY <1>17, <2>1, <2>2 DEF Propose, TypeOK
<1>18. CASE InputMissing
  BY <1>18 DEF InputMissing, Missing, TypeOK
<1>19. CASE Decline \/ Approve \/ Execute
  BY <1>19 DEF Decline, Approve, Execute, TypeOK
<1>20. CASE Void
  BY <1>20, NarrowType DEF Void, TypeOK
<1>21. ASSUME NEW answer \in {"continue", "stop"}, Resolve(answer) PROVE TypeOK'
  <2>1. CASE UNCHANGED <<scope, status, products>>
    BY <1>21, <2>1 DEF Resolve, TypeOK
  <2>2. CASE scope < MaxNarrowings /\ Narrow
    BY <1>21, <2>2, NarrowType DEF Resolve, TypeOK
  <2> QED
    BY <1>21, <2>1, <2>2 DEF Resolve
<1>22. CASE Finalize
  BY <1>22 DEF Finalize, TypeOK
<1> QED
  BY <1>1, <1>2, <1>3, <1>4, <1>5, <1>6, <1>7, <1>8, <1>9, <1>10, <1>11, <1>12, <1>13, <1>14,
     <1>15, <1>16, <1>17, <1>18, <1>19, <1>20, <1>21, <1>22
     DEF Next, Supervisor, Planner, Agents, Human, NothingToJoin

-----------------------------------------------------------------------------
(* What the Supervisor's policy lets through. *)

LEMMA TasksFinite == IsFiniteSet(Task)
<1>1. IsFiniteSet(Agent)
  <2>1. Agent = ((({"data"} \cup {"knowledge"}) \cup {"analysis"}) \cup {"reviewer"}) \cup {"action"}
    BY DEF Agent
  <2>2. IsFiniteSet({"data"})
    BY FS_Singleton
  <2> QED
    BY <2>1, <2>2, FS_AddElement
<1>2. IsFiniteSet(Revision)
  BY BudgetAssumption, FS_Interval DEF Revision, BudgetAssumption
<1> QED
  BY <1>1, <1>2, FS_Product DEF Task

LEMMA SlotsAreBounded == Slots \in Int /\ Slots <= MaxParallel
<1>1. {t \in Task : status[t] = "running"} \in SUBSET Task
  OBVIOUS
<1>2. Cardinality({t \in Task : status[t] = "running"}) \in Nat
  BY <1>1, TasksFinite, FS_Subset, FS_CardinalityType
<1> QED
  BY <1>2, LimitsAreNumbers DEF Slots

(* A batch that is dispatched gathers, and fits into the free slots. *)
LEMMA DispatchIs ==
  ASSUME TypeOK, NEW S \in Selection("dispatch")
  PROVE  S \subseteq Gatherer /\ IsFiniteSet(S) /\ Cardinality(S) <= MaxParallel
<1>1. S \subseteq Ready({"data", "knowledge"})
      /\ Cardinality(S) <= Least(Slots, Left(MaxToolCalls, control.tools))
  BY DEF Selection
<1>2. S \subseteq Gatherer /\ S \in SUBSET Task
  BY <1>1 DEF Ready, Gatherer
<1>3. IsFiniteSet(S) /\ Cardinality(S) \in Nat
  BY <1>2, TasksFinite, FS_Subset, FS_CardinalityType
<1>4. Left(MaxToolCalls, control.tools) \in Nat
  BY LimitsAreNumbers, CountersAreNumbers DEF Left, TypeOK
<1> QED
  BY <1>1, <1>2, <1>3, <1>4, SlotsAreBounded, LimitsAreNumbers DEF Least

(* Which decisions are legal where. *)
LEMMA DecisionIs ==
  ASSUME TypeOK, NEW action \in Action, NEW S \in Selection(action), Decide(action, S)
  PROVE  /\ at = "supervisor" /\ at' = Target(action) /\ selected' = S
         /\ Planned # {} => ~Spent(control)
         /\ action = "plan" => Planned = {}
         /\ action \notin {"plan", "escalate", "finalize"} => Planned # {}
         /\ Planned = {} /\ human = "continue" => action = "finalize"
         /\ action = "retrieve_more" => review.verdict = "retrieve_more"
         /\ action = "handoff_action" => review.verdict = "passed" /\ Ready({"action"}) # {}
         /\ action = "analyze" => review = NoReview /\ \A t \in S : AgentOf(t) = "analysis"
         /\ action = "dispatch" => review = NoReview
         /\ action = "finalize" =>
              \/ termination # "none" \/ human = "continue"
              \/ review # NoReview /\ (review.verdict = "passed" => ~writes)
              \/ review = NoReview /\ Planned # {} /\ Planned = Done
<1>1. at = "supervisor" /\ at' = Target(action) /\ selected' = S /\ action \in LegalActions
      /\ (Planned # {} => ~Spent(control))
  BY DEF Decide, WithinBudget
<1>2. CASE termination # "none" \/ human = "continue"
  <2>1. action = "finalize"
    BY <1>1, <1>2 DEF LegalActions, Closed
  <2> QED
    BY <1>1, <1>2, <2>1
<1>3. CASE termination = "none" /\ human # "continue" /\ Planned = {}
  <2>1. action \in {"plan", "escalate"}
    BY <1>1, <1>3 DEF LegalActions, Closed
  <2> QED
    BY <1>1, <1>3, <2>1
<1>4. CASE termination = "none" /\ human # "continue" /\ Planned # {} /\ review # NoReview
  <2>1. action \in Offered(review.verdict)
    BY <1>1, <1>4 DEF LegalActions, Closed
  <2>2. review.verdict \in Verdict /\ writes \in BOOLEAN
    BY <1>4, BudgetAssumption DEF TypeOK, Review, BudgetAssumption
  <2>3. CASE review.verdict = "passed"
    BY <1>1, <1>4, <2>1, <2>2, <2>3 DEF Offered
  <2>4. CASE review.verdict # "passed"
    BY <1>1, <1>4, <2>1, <2>2, <2>4 DEF Offered, Verdict
  <2> QED
    BY <2>3, <2>4
<1>5. CASE termination = "none" /\ human # "continue" /\ Planned # {} /\ review = NoReview
  <2>1. action \in {"join_evidence", "replan"} \cup Unreviewed
    BY <1>1, <1>5 DEF LegalActions, Closed
  <2>2. action \in {"join_evidence", "replan", "escalate", "dispatch", "analyze", "review", "finalize"}
        /\ (action = "finalize" => Planned = Done)
    BY <2>1 DEF Unreviewed
  <2>3. action = "analyze" => \A t \in S : AgentOf(t) = "analysis"
    BY DEF Selection, Ready
  <2> QED
    BY <1>1, <1>5, <2>2, <2>3
<1> QED
  BY <1>1, <1>2, <1>3, <1>4, <1>5

LEMMA DecisionCharge ==
  ASSUME TypeOK, NEW action \in Action, NEW S \in Selection(action), Decide(action, S)
  PROVE  /\ control' \in Counter
         /\ control'.steps <= control.steps + 1 /\ control'.models <= control.models + 3
         /\ control'.tools = control.tools /\ control'.replans = control.replans
         /\ control'.rounds = control.rounds /\ control'.failures = control.failures
<1>1. PICK attempts \in Tries : control' = Charge(1, attempts)
  BY DEF Decide
<1>2. /\ attempts \in Nat /\ attempts <= 3 /\ control \in Counter
  BY AttemptsAreFew DEF TypeOK
<1>3. /\ Charge(1, attempts) \in Counter
      /\ Charge(1, attempts).steps <= control.steps + 1
      /\ Charge(1, attempts).models <= control.models + attempts
      /\ Charge(1, attempts).tools = control.tools /\ Charge(1, attempts).replans = control.replans
      /\ Charge(1, attempts).rounds = control.rounds
      /\ Charge(1, attempts).failures = control.failures
  BY <1>2, ChargeIs
<1> QED
  BY <1>1, <1>2, <1>3, CountersAreNumbers

(* A decision, or a node on its way back to the Supervisor or to an end. *)
Returns ==
  \/ DecisionFails \/ BudgetStops \/ Planner
  \/ Barrier \/ JoinEvidence \/ NothingToJoin \/ AnalyzeJoined \/ ReviewAnalysis
  \/ Handoff \/ Propose \/ InputMissing
  \/ \E node \in {"analysis", "reviewer", "action"} : Refuse(node)
  \/ Human \/ Execute \/ Finalize

LEMMA StepIs ==
  Next => \/ \E action \in Action : \E S \in Selection(action) : Decide(action, S)
          \/ Dispatch \/ RunTasks \/ Returns
BY DEF Next, Supervisor, Agents, Returns

LEMMA ReturnsTo ==
  Returns => at' \in {"supervisor", "action", "approval", "execute"} \cup Over
BY DEF Returns, Over, Stopped, DecisionFails, BudgetStops, Planner, PlanInitially, PlanFails, Revise,
   RevisionFails, Barrier, JoinEvidence, NothingToJoin, Refuse, AnalyzeJoined, ReviewAnalysis,
   Handoff, Propose, InputMissing, Missing, Human, Decline, Approve, Void, Resolve, Execute,
   Finalize, Terminate

-----------------------------------------------------------------------------
(* Batches. *)

LEMMA NextBatch == TypeOK /\ BatchFits /\ [Next]_vars => BatchFits'
<1> SUFFICES ASSUME TypeOK, BatchFits, [Next]_vars PROVE BatchFits'
  OBVIOUS
<1>1. CASE UNCHANGED vars
  BY <1>1 DEF vars, BatchFits, Planned, plan, products
<1>2. ASSUME NEW action \in Action, NEW S \in Selection(action), Decide(action, S)
      PROVE  BatchFits'
  <2>1. at' = Target(action) /\ selected' = S /\ (Planned # {} => ~Spent(control))
        /\ (action = "dispatch" => Planned # {})
        /\ (action = "analyze" => review = NoReview /\ \A t \in S : AgentOf(t) = "analysis")
        /\ (action = "dispatch" => review = NoReview)
    BY <1>2, DecisionIs
  <2>2. action = "dispatch" => control'.failures <= 2
    BY <1>2, <2>1, DecisionCharge, SpentStops DEF TypeOK
  <2>3. action = "dispatch" =>
          S \subseteq Gatherer /\ IsFiniteSet(S) /\ Cardinality(S) <= MaxParallel
    BY DispatchIs
  <2>4. /\ at' \in {"dispatch", "tasks", "barrier"} => action = "dispatch" /\ at' = "dispatch"
        /\ at' = "analysis" => action = "analyze"
        /\ at' = "reviewer" => action = "review"
    BY <2>1 DEF Target, Action
  <2>5. action \in {"dispatch", "analyze", "review"} => S \subseteq Planned
    BY DEF Selection, Ready, Planned
  <2>6. UNCHANGED <<review, status>>
    BY <1>2 DEF Decide, products, plan
  <2> QED
    BY <2>1, <2>2, <2>3, <2>4, <2>5, <2>6 DEF BatchFits, Planned
<1>3. CASE Dispatch
  BY <1>3 DEF Dispatch, BatchFits, products
<1>4. CASE RunTasks
  <2> UNCHANGED review /\ review = NoReview
    BY <1>4 DEF RunTasks, BatchFits
  <2>1. CASE at' = "update_conflict"
    BY <2>1 DEF BatchFits
  <2>2. CASE at' # "update_conflict"
    <3>1. PICK result \in [selected -> {"items", "nothing", "failed", "refused"}] :
            /\ at' = "barrier"
            /\ completions' = {<<t, IF result[t] = "failed" THEN "failed" ELSE "success">> :
                                 t \in selected \ {u \in selected : result[u] = "refused"}}
      BY <1>4, <2>2 DEF RunTasks
    <3> DEFINE answered == selected \ {u \in selected : result[u] = "refused"}
               pair == [t \in answered |-> <<t, IF result[t] = "failed" THEN "failed" ELSE "success">>]
    <3>2. IsFiniteSet(selected) /\ Cardinality(selected) <= MaxParallel /\ selected \subseteq Gatherer
          /\ control.failures <= 2 /\ control' = control
      BY <1>4 DEF RunTasks, BatchFits
    <3>3. answered \in SUBSET selected
      OBVIOUS
    <3>4. IsFiniteSet(answered) /\ Cardinality(answered) <= Cardinality(selected)
      BY <3>2, <3>3, FS_Subset
    <3>5. completions' = {pair[t] : t \in answered}
      BY <3>1
    <3>6. pair \in Surjection(answered, completions')
      BY <3>5 DEF Surjection
    <3> HIDE DEF answered, pair
    <3>7. IsFiniteSet(completions') /\ Cardinality(completions') <= Cardinality(answered)
      BY <3>4, <3>6, FS_Surjection
    <3>8. Cardinality(answered) \in Nat /\ Cardinality(selected) \in Nat
          /\ Cardinality(completions') \in Nat
      BY <3>2, <3>4, <3>7, FS_CardinalityType
    <3>9. \A c \in completions' : c[1] \in Gatherer
      BY <3>1, <3>2
    <3> QED
      BY <3>1, <3>2, <3>4, <3>7, <3>8, <3>9, LimitsAreNumbers DEF BatchFits
  <2> QED
    BY <2>1, <2>2
<1>5. CASE Returns
  BY <1>5, ReturnsTo DEF BatchFits, Over, Stopped
<1> QED
  BY <1>1, <1>2, <1>3, <1>4, <1>5, StepIs

-----------------------------------------------------------------------------
(* The plan. *)

(* Apart from the planner, no step adds a task to the plan or takes one from it. *)
LEMMA PlannedIsKept ==
  ASSUME TypeOK, BatchFits, [Next]_vars, ~PlanInitially,
         \A node \in {"replan", "retrieve_more"} : ~Revise(node)
  PROVE  Planned' = Planned
<1>1. CASE UNCHANGED status
  BY <1>1 DEF Planned
<1>2. ASSUME NEW S, S \subseteq Planned, Finish(S) PROVE Planned' = Planned
  BY <1>2 DEF Finish, Planned, TypeOK
<1>3. CASE Dispatch
  BY <1>3 DEF Dispatch, BatchFits, Planned, TypeOK
<1>4. CASE Barrier
  BY <1>4 DEF Barrier, Planned, TypeOK
<1>5. CASE Narrow
  BY <1>5 DEF Narrow, Planned, TypeOK
<1>6. CASE AnalyzeJoined \/ ReviewAnalysis
  BY <1>2, <1>6 DEF AnalyzeJoined, ReviewAnalysis, BatchFits
<1>7. CASE Propose
  <2>1. PICK t \in Ready({"action"}) : Finish({t})
    BY <1>7 DEF Propose
  <2>2. {t} \subseteq Planned
    BY DEF Ready, Planned
  <2> QED
    BY <1>2, <2>1, <2>2
<1>8. CASE UNCHANGED vars \/ (\E action \in Action : \E S \in Selection(action) : Decide(action, S))
        \/ RunTasks \/ DecisionFails \/ BudgetStops \/ PlanFails
        \/ (\E node \in {"replan", "retrieve_more"} : RevisionFails(node))
        \/ JoinEvidence \/ NothingToJoin \/ Handoff \/ InputMissing
        \/ (\E node \in {"analysis", "reviewer", "action"} : Refuse(node))
        \/ Decline \/ Approve \/ Execute \/ Finalize
  BY <1>1, <1>8 DEF vars, plan, Decide, RunTasks, DecisionFails, BudgetStops, PlanFails,
     RevisionFails, JoinEvidence, NothingToJoin, Refuse, Handoff, InputMissing, Missing, Decline,
     Approve, Execute, Finalize
<1>9. CASE Void \/ \E answer \in {"continue", "stop"} : Resolve(answer)
  BY <1>1, <1>5, <1>9 DEF Void, Resolve
<1> QED
  BY <1>3, <1>4, <1>6, <1>7, <1>8, <1>9 DEF Next, Supervisor, Planner, Agents, Human

(* What the planner and the ways a decision fails charge. *)
LEMMA PlanningCharge ==
  ASSUME TypeOK, DecisionFails \/ PlanInitially \/ PlanFails
  PROVE  /\ control'.steps <= control.steps + 1
         /\ control'.models <= control.models + 3
         /\ at = "plan" => control'.models <= control.models + 2
         /\ control'.tools = control.tools /\ control'.replans = control.replans
         /\ control'.rounds = control.rounds
<1>1. PICK n \in 0..1, attempts \in Tries :
        control' = Charge(n, attempts) /\ (at = "plan" => attempts <= 2)
  <2>1. DecisionFails => at # "plan"
    BY DEF DecisionFails
  <2> QED
    BY <2>1, AttemptsAreFew DEF DecisionFails, PlanInitially, PlanFails
<1>2. attempts \in Nat /\ attempts <= 3 /\ n \in Nat /\ n <= 1 /\ control \in Counter
  BY AttemptsAreFew DEF TypeOK
<1>3. /\ Charge(n, attempts) \in Counter
      /\ Charge(n, attempts).steps <= control.steps + n
      /\ Charge(n, attempts).models <= control.models + attempts
      /\ Charge(n, attempts).tools = control.tools /\ Charge(n, attempts).replans = control.replans
      /\ Charge(n, attempts).rounds = control.rounds
  BY <1>2, ChargeIs
<1> QED
  BY <1>1, <1>2, <1>3, CountersAreNumbers

LEMMA RevisionCharge ==
  ASSUME TypeOK, SpendingFits, NEW node \in {"replan", "retrieve_more"},
         Revise(node) \/ RevisionFails(node)
  PROVE  /\ control'.steps <= control.steps + 1
         /\ \/ control'.models <= control.models
            \/ control.models < MaxModelCalls /\ control'.models <= control.models + 3
         /\ control'.tools = control.tools
         /\ control'.replans + control'.rounds = control.replans + control.rounds + 1
         /\ control'.replans = Counted(node).replans /\ control'.rounds = Counted(node).rounds
         /\ control'.replans <= MaxReplans + 1 /\ control'.rounds <= 1
         /\ Revise(node) => control.steps < MaxSteps
<1> DEFINE counted == Counted(node)
<1>1. /\ counted \in Counter
      /\ counted.replans + counted.rounds = control.replans + control.rounds + 1
      /\ counted.steps = control.steps /\ counted.models = control.models
      /\ counted.tools = control.tools
  <2>1. /\ node = "replan" => control.replans <= MaxReplans
        /\ node = "retrieve_more" => control.rounds = 0
        /\ control \in Counter
    BY DEF Revise, RevisionFails, SpendingFits, Over, Stopped, TypeOK
  <2> QED
    BY <2>1, CountedIs
<1>2. counted.replans <= MaxReplans + 1 /\ counted.rounds <= 1
  BY <1>1, LimitsAreNumbers DEF Counter
<1> HIDE DEF counted
<1>3. ~Spent(counted) => counted.models < MaxModelCalls /\ counted.steps < MaxSteps
  BY <1>1, CountersAreNumbers, LimitsAreNumbers DEF Spent
<1>4. CASE control' = counted /\ ~Revise(node)
  BY <1>1, <1>2, <1>4, CountersAreNumbers DEF counted
<1>5. ASSUME ~Spent(counted), NEW attempts \in Tries,
             \/ control' = [counted EXCEPT !.models = @ + attempts]
             \/ control' = [counted EXCEPT !.steps = @ + 1, !.models = @ + attempts]
      PROVE  /\ control'.steps <= control.steps + 1
             /\ control.models < MaxModelCalls /\ control'.models <= control.models + 3
             /\ control'.tools = control.tools /\ control'.replans = counted.replans
             /\ control'.rounds = counted.rounds /\ control.steps < MaxSteps
  <2>1. attempts \in Nat /\ attempts <= 3
    BY AttemptsAreFew
  <2>2. /\ control'.steps \in {counted.steps, counted.steps + 1}
        /\ control'.models = counted.models + attempts
        /\ control'.tools = counted.tools /\ control'.replans = counted.replans
        /\ control'.rounds = counted.rounds
    BY <1>1, <1>5 DEF Counter
  <2> QED
    BY <1>1, <1>3, <1>5, <2>1, <2>2, CountersAreNumbers, LimitsAreNumbers
<1>6. CASE Revise(node)
  <2>1. ~Spent(counted) /\ \E attempts \in Tries :
          control' = [counted EXCEPT !.steps = @ + 1, !.models = @ + attempts]
    BY <1>6 DEF Revise, counted
  <2> QED
    BY <1>1, <1>2, <1>5, <2>1 DEF counted
<1>7. CASE RevisionFails(node) /\ ~Revise(node)
  <2>1. \/ control' = counted
        \/ ~Spent(counted) /\ \E attempts \in Tries :
             control' = [counted EXCEPT !.models = @ + attempts]
    BY <1>7 DEF RevisionFails, counted
  <2> QED
    BY <1>1, <1>2, <1>4, <1>5, <1>7, <2>1 DEF counted
<1> QED
  BY <1>6, <1>7

(* The steps that charge nothing. *)
Free ==
  \/ UNCHANGED vars \/ BudgetStops \/ Dispatch \/ RunTasks \/ NothingToJoin \/ Handoff \/ Propose
  \/ InputMissing \/ (\E node \in {"analysis", "reviewer", "action"} : Refuse(node))
  \/ Human \/ Execute \/ Finalize

LEMMA FreeIs == Free => UNCHANGED control
BY DEF Free, vars, BudgetStops, Dispatch, RunTasks, NothingToJoin, Handoff, Propose, InputMissing,
   Missing, Refuse, Human, Decline, Approve, Void, Resolve, Execute, Finalize

LEMMA ChargesAre ==
  [Next]_vars =>
    \/ Free
    \/ \E action \in Action : \E S \in Selection(action) : Decide(action, S)
    \/ DecisionFails \/ PlanInitially \/ PlanFails
    \/ \E node \in {"replan", "retrieve_more"} : Revise(node) \/ RevisionFails(node)
    \/ Barrier \/ JoinEvidence \/ AnalyzeJoined \/ ReviewAnalysis
BY DEF Next, Supervisor, Planner, Agents, Free

LEMMA RevisionsGrow ==
  ASSUME TypeOK, BatchFits, SpendingFits, [Next]_vars
  PROVE  control'.replans + control'.rounds >= control.replans + control.rounds
<1>1. control.replans \in Nat /\ control.rounds \in Nat
  BY CountersAreNumbers DEF TypeOK
<1> QED
  BY <1>1, ChargesAre, FreeIs, DecisionCharge, PlanningCharge, RevisionCharge, BarrierCharge,
     NodeCharge

LEMMA RevisionIsNew ==
  ASSUME TypeOK, PlanFits, SpendingFits, NEW node \in {"replan", "retrieve_more"}, Revise(node)
  PROVE  /\ \A t \in Planned' : t[2] <= control'.replans + control'.rounds
         /\ \E t \in Planned' : AgentOf(t) = "reviewer" /\ status'[t] = "pending"
<1> DEFINE counted == Counted(node)
           number == counted.replans + counted.rounds
           new(a) == <<a, number>>
<1>1. /\ number = control.replans + control.rounds + 1
      /\ number = control'.replans + control'.rounds
      /\ control.replans \in Nat /\ control.rounds \in Nat
  BY RevisionCharge, CountersAreNumbers DEF TypeOK
<1>2. number \in Revision
  <2>1. counted.rounds <= 1
    BY RevisionCharge
  <2>2. counted.replans \in Nat /\ counted.rounds \in Nat
    BY <1>1 DEF Counted, Counter, TypeOK
  <2>3. counted.replans <= MaxReplans
    BY <2>2, LimitsAreNumbers DEF Revise, Spent
  <2> HIDE DEF counted
  <2> QED
    BY <2>1, <2>2, <2>3, LimitsAreNumbers DEF Revision
<1>3. \E evidence \in SUBSET {new("data"), new("knowledge")} : \E edges :
        AddTasks(Done,
          evidence \cup {new("analysis"), new("reviewer")} \cup {t \in {new("action")} : writes},
          edges)
  BY DEF Revise
<1> HIDE DEF number
<1>4. PICK evidence \in SUBSET {new("data"), new("knowledge")} :
        status' = [t \in Task |->
          IF t \in Done THEN status[t]
          ELSE IF t \in evidence \cup {new("analysis"), new("reviewer")}
                          \cup {u \in {new("action")} : writes}
               THEN "pending" ELSE "absent"]
  BY <1>3 DEF AddTasks
<1>5. \A t \in Done : t[2] < number
  BY <1>1 DEF PlanFits, Done, Planned, Task, Revision
<1>6. \A t \in Planned' : t[2] <= number
  <2>1. ASSUME NEW t \in Task, status'[t] # "absent" PROVE t[2] <= number
    <3>1. t \in Done \/ t[2] = number
      BY <1>4, <2>1
    <3> QED
      BY <1>1, <1>5, <3>1 DEF Task, Revision
  <2> QED
    BY <2>1 DEF Planned
<1>7. new("reviewer") \in Task /\ new("reviewer") \notin Done
  BY <1>1, <1>2, <1>5 DEF Task, Agent
<1>8. new("reviewer") \in Planned' /\ status'[new("reviewer")] = "pending"
      /\ AgentOf(new("reviewer")) = "reviewer"
  BY <1>4, <1>7 DEF Planned, AgentOf
<1> QED
  BY <1>1, <1>6, <1>8

(* Nobody but the reviewer's own node completes a Reviewer task, and none that leaves one
   completed takes the review away. *)
LEMMA ReviewerRemains ==
  ASSUME TypeOK, BatchFits, PlanFits, [Next]_vars, Planned # {}, ~PlanInitially,
         \A node \in {"replan", "retrieve_more"} : ~Revise(node)
  PROVE  \E t \in Planned : AgentOf(t) = "reviewer" /\ (review' = NoReview => status'[t] # "success")
<1>1. PICK t \in Planned : AgentOf(t) = "reviewer" /\ (review = NoReview => status[t] # "success")
  BY DEF PlanFits
<1>2. t \in Task /\ status[t] # "absent"
  BY DEF Planned
<1>3. CASE UNCHANGED <<status, review>>
  BY <1>1, <1>3
<1>4. CASE Dispatch
  BY <1>1, <1>2, <1>4 DEF Dispatch, products, TypeOK
<1>5. CASE Barrier
  <2>1. \A c \in completions : c[1] # t
    BY <1>1, <1>5 DEF Barrier, BatchFits, Gatherer, AgentOf
  <2>2. status'[t] = status[t]
    BY <1>2, <1>5, <2>1 DEF Barrier
  <2> QED
    BY <1>1, <1>5, <2>2 DEF Barrier, BatchFits
<1>6. CASE AnalyzeJoined
  <2>1. t \notin selected
    BY <1>1, <1>6 DEF AnalyzeJoined, BatchFits
  <2> QED
    BY <1>1, <1>2, <1>6, <2>1 DEF AnalyzeJoined, BatchFits, Finish
<1>7. CASE ReviewAnalysis
  <2>1. PICK v \in Verdict : review' = [verdict |-> v, of |-> analysis]
    BY <1>7 DEF ReviewAnalysis
  <2>2. review'.verdict # NoReview.verdict
    BY <2>1 DEF Verdict, NoReview
  <2> QED
    BY <1>1, <2>2
<1>8. CASE Propose
  <2>1. PICK u \in Ready({"action"}) : Finish({u})
    BY <1>8 DEF Propose
  <2>2. t # u
    BY <1>1 DEF Ready
  <2> QED
    BY <1>1, <1>2, <1>8, <2>1, <2>2 DEF Propose, Finish
<1>9. CASE Narrow
  BY <1>1, <1>2, <1>9 DEF Narrow
<1>10. CASE Void \/ \E answer \in {"continue", "stop"} : Resolve(answer)
  BY <1>3, <1>9, <1>10 DEF Void, Resolve, products
<1>11. CASE UNCHANGED vars \/ (\E action \in Action : \E S \in Selection(action) : Decide(action, S))
        \/ RunTasks \/ DecisionFails \/ BudgetStops \/ PlanFails
        \/ (\E node \in {"replan", "retrieve_more"} : RevisionFails(node))
        \/ JoinEvidence \/ NothingToJoin \/ Handoff \/ InputMissing
        \/ (\E node \in {"analysis", "reviewer", "action"} : Refuse(node))
        \/ Decline \/ Approve \/ Execute \/ Finalize
  BY <1>3, <1>11 DEF vars, plan, products, Decide, RunTasks, DecisionFails, BudgetStops, PlanFails,
     RevisionFails, JoinEvidence, NothingToJoin, Refuse, Handoff, InputMissing, Missing, Decline,
     Approve, Execute, Finalize
<1> QED
  BY <1>4, <1>5, <1>6, <1>7, <1>8, <1>10, <1>11 DEF Next, Supervisor, Planner, Agents, Human

LEMMA NextPlan ==
  TypeOK /\ BatchFits /\ SpendingFits /\ PlanFits /\ [Next]_vars => PlanFits'
<1> SUFFICES ASSUME TypeOK, BatchFits, SpendingFits, PlanFits, [Next]_vars PROVE PlanFits'
  OBVIOUS
<1>1. CASE PlanInitially
  <2>2. PICK evidence \in SUBSET {<<"data", 0>>, <<"knowledge", 0>>} :
          status' = [t \in Task |->
            IF t \in evidence \cup {<<a, 0>> : a \in {"analysis", "reviewer"}
                                          \cup {x \in {"action"} : writes}}
            THEN "pending" ELSE "absent"]
    BY <1>1 DEF PlanInitially, AddTasks
  <2>3. \A t \in Planned' : t[2] = 0
    BY <2>2 DEF Planned
  <2>4. <<"reviewer", 0>> \in Planned' /\ status'[<<"reviewer", 0>>] = "pending"
    BY <2>2, BudgetAssumption DEF Planned, Task, Agent, Revision, BudgetAssumption
  <2>5. control'.replans + control'.rounds >= 0
    BY <1>1, PlanningCharge, CountersAreNumbers DEF TypeOK
  <2>6. at' = "supervisor"
    BY <1>1 DEF PlanInitially
  <2> QED
    BY <2>3, <2>4, <2>5, <2>6 DEF PlanFits, AgentOf
<1>2. ASSUME NEW node \in {"replan", "retrieve_more"}, Revise(node) PROVE PlanFits'
  <2>1. at' = "supervisor"
    BY <1>2 DEF Revise
  <2> QED
    BY <1>2, <2>1, RevisionIsNew DEF PlanFits
<1>3. CASE ~PlanInitially /\ \A node \in {"replan", "retrieve_more"} : ~Revise(node)
  <2>1. Planned' = Planned
    BY <1>3, PlannedIsKept
  <2>2. \A t \in Planned' : t[2] <= control'.replans + control'.rounds
    <3>1. ASSUME NEW t \in Planned PROVE t[2] <= control'.replans + control'.rounds
      <4>1. t[2] <= control.replans + control.rounds
        BY DEF PlanFits
      <4>2. control'.replans + control'.rounds >= control.replans + control.rounds
        BY RevisionsGrow
      <4>3. t[2] \in Nat /\ control.replans \in Nat /\ control.rounds \in Nat
        BY CountersAreNumbers DEF Planned, Task, Revision, TypeOK
      <4>4. control'.replans \in Nat /\ control'.rounds \in Nat
        BY NextType, CountersAreNumbers DEF TypeOK
      <4> QED
        BY <4>1, <4>2, <4>3, <4>4
    <3> QED
      BY <2>1, <3>1
  <2>3. Planned' # {} =>
          \E t \in Planned' : AgentOf(t) = "reviewer" /\ (review' = NoReview => status'[t] # "success")
    BY <1>3, <2>1, ReviewerRemains
  <2>4. /\ at' = "plan" => Planned = {}
        /\ at' \notin {"supervisor", "plan", "escalate"} \cup Over => Planned # {}
    <3>1. CASE UNCHANGED vars
      BY <3>1 DEF vars, PlanFits
    <3>2. ASSUME NEW action \in Action, NEW S \in Selection(action), Decide(action, S)
          PROVE  /\ at' = "plan" => Planned = {}
                 /\ at' \notin {"supervisor", "plan", "escalate"} \cup Over => Planned # {}
      <4>1. at' = Target(action) /\ (action = "plan" => Planned = {})
            /\ (action \notin {"plan", "escalate", "finalize"} => Planned # {})
        BY <3>2, DecisionIs
      <4> QED
        BY <4>1 DEF Target, Over, Action
    <3>3. CASE Dispatch \/ RunTasks
      BY <3>3 DEF Dispatch, RunTasks, PlanFits, Over, Stopped
    <3>4. CASE Returns
      <4>1. at' \in {"action", "approval", "execute"} => at \in {"handoff", "action", "approval"}
        BY <3>4 DEF Returns, DecisionFails, BudgetStops, Planner, PlanInitially, PlanFails, Revise,
           RevisionFails, Barrier, JoinEvidence, NothingToJoin, Refuse, AnalyzeJoined,
           ReviewAnalysis, Handoff, Propose, InputMissing, Missing, Human, Decline, Approve, Void,
           Resolve, Execute, Finalize, Terminate
      <4> QED
        BY <3>4, <4>1, ReturnsTo DEF PlanFits, Over, Stopped
    <3> QED
      BY <3>1, <3>2, <3>3, <3>4, StepIs
  <2> QED
    BY <2>1, <2>2, <2>3, <2>4 DEF PlanFits
<1> QED
  BY <1>1, <1>2, <1>3

-----------------------------------------------------------------------------
(* The budget. *)

LEMMA DecisionSpends ==
  ASSUME TypeOK, PlanFits, SpendingFits,
         NEW action \in Action, NEW S \in Selection(action), Decide(action, S)
  PROVE  SpendingFits'
<1>1. /\ at = "supervisor" /\ at' = Target(action) /\ (Planned # {} => ~Spent(control))
      /\ (action \notin {"plan", "escalate", "finalize"} => Planned # {})
      /\ (Planned = {} /\ human = "continue" => action = "finalize")
      /\ (action = "retrieve_more" => review.verdict = "retrieve_more")
  BY DecisionIs
<1>2. /\ control'.steps <= control.steps + 1 /\ control'.models <= control.models + 3
      /\ control'.tools = control.tools /\ control'.replans = control.replans
      /\ control'.rounds = control.rounds
      /\ control'.steps \in Nat /\ control'.models \in Nat
  BY DecisionCharge, CountersAreNumbers
<1>3. /\ control.steps \in Nat /\ control.models \in Nat /\ control.tools \in Nat
      /\ control.replans \in Nat /\ control.rounds \in Nat
      /\ MaxSteps >= 1 /\ MaxParallel >= 1
  BY CountersAreNumbers, BudgetAssumption DEF TypeOK, BudgetAssumption
<1>4. Planned # {} => /\ control.steps < MaxSteps /\ control.models < MaxModelCalls
                      /\ control.replans <= MaxReplans
  BY <1>1, SpentStops DEF TypeOK
<1>5. Planned = {} => /\ control.steps <= 1 /\ control.models <= 3
                      /\ (action # "finalize" => control.steps = 0 /\ control.models = 0)
  BY <1>1 DEF SpendingFits
<1>6. UNCHANGED <<Planned, review, human>>
  BY DEF Decide, plan, products, answers, Planned
<1>7. BudgetsHold'
  BY <1>2, <1>3, <1>4, <1>5, LimitsAreNumbers DEF SpendingFits, BudgetsHold
<1>8. /\ at' # "supervisor" /\ (action = "finalize" => at' \in Over)
      /\ (at' = "replan" => action = "replan") /\ (at' = "retrieve_more" => action = "retrieve_more")
  BY <1>1 DEF Target, Action, Over
<1>9. at' \notin {"supervisor"} \cup Over => control'.steps <= MaxSteps
  BY <1>2, <1>3, <1>4, <1>5, <1>8, LimitsAreNumbers
<1>10. Planned = {} /\ at' \in {"plan", "escalate"} => control'.steps <= 1 /\ control'.models <= 3
  BY <1>2, <1>3, <1>5, <1>8 DEF Over, Stopped
<1>11. at' = "replan" => control'.replans <= MaxReplans
  BY <1>1, <1>2, <1>4, <1>8
<1>12. review.verdict = "retrieve_more" => control'.rounds = 0
  BY <1>1, <1>2 DEF SpendingFits, Over, Stopped
<1> QED
  BY <1>1, <1>6, <1>7, <1>8, <1>9, <1>10, <1>11, <1>12 DEF SpendingFits

(* A node of the graph that charges is past the Supervisor's look at the budget. *)
LEMMA NodesSpend ==
  ASSUME TypeOK, TypeOK', BatchFits, PlanFits, SpendingFits, [Next]_vars,
         Barrier \/ JoinEvidence \/ AnalyzeJoined \/ ReviewAnalysis
  PROVE  SpendingFits'
<1>1. /\ control.steps \in Nat /\ control.models \in Nat /\ control.tools \in Nat
      /\ control.replans \in Nat /\ control.rounds \in Nat
      /\ MaxSteps >= 1 /\ MaxParallel >= 1
      /\ control'.steps \in Nat /\ control'.models \in Nat /\ control'.tools \in Nat
  BY CountersAreNumbers, BudgetAssumption DEF TypeOK, BudgetAssumption
<1>2. /\ at \in {"barrier", "join_evidence", "analysis", "reviewer"} /\ at' = "supervisor"
  BY Zenon DEF Barrier, JoinEvidence, AnalyzeJoined, ReviewAnalysis
<1>3. control.steps <= MaxSteps /\ Planned # {}
  BY <1>2 DEF SpendingFits, PlanFits, Over, Stopped
<1>4. Planned' = Planned
  <2>1. ~PlanInitially /\ \A node \in {"replan", "retrieve_more"} : ~Revise(node)
    BY <1>2 DEF PlanInitially, Revise
  <2> QED
    BY <2>1, PlannedIsKept
<1>5. /\ control'.steps <= control.steps + MaxParallel
      /\ control'.models <= IF control.models < MaxModelCalls THEN MaxModelCalls ELSE control.models
      /\ control'.tools <= IF control.tools < MaxToolCalls THEN MaxToolCalls ELSE control.tools
      /\ control'.replans = control.replans /\ control'.rounds = control.rounds
  BY <1>1, BarrierCharge, NodeCharge, LimitsAreNumbers
<1>6. BudgetsHold'
  BY <1>1, <1>3, <1>5, LimitsAreNumbers DEF SpendingFits, BudgetsHold
<1>7. review'.verdict = "retrieve_more" => control'.rounds = 0
  <2>1. CASE Barrier
    BY <2>1, Zenon DEF Barrier, NoReview
  <2>2. CASE JoinEvidence
    BY <1>2, <1>5, <2>2 DEF JoinEvidence, SpendingFits, Over, Stopped
  <2>3. CASE AnalyzeJoined
    BY <2>3 DEF AnalyzeJoined, NoReview
  <2>4. CASE ReviewAnalysis
    <3>1. review'.verdict = "retrieve_more" => control.rounds < 1
      BY <2>4 DEF ReviewAnalysis
    <3> QED
      BY <1>1, <1>5, <3>1
  <2> QED
    BY <2>1, <2>2, <2>3, <2>4
<1> QED
  BY <1>2, <1>3, <1>4, <1>6, <1>7 DEF SpendingFits

LEMMA PlannerSpends ==
  ASSUME TypeOK, TypeOK', PlanFits, SpendingFits, [Next]_vars, PlanFits',
         DecisionFails \/ Planner
  PROVE  SpendingFits'
<1>1. /\ control.steps \in Nat /\ control.models \in Nat /\ control.tools \in Nat
      /\ control.replans \in Nat /\ control.rounds \in Nat
      /\ MaxSteps >= 1 /\ MaxParallel >= 1
      /\ control'.steps \in Nat /\ control'.models \in Nat /\ control'.tools \in Nat
  BY CountersAreNumbers, BudgetAssumption DEF TypeOK, BudgetAssumption
<1>2. CASE DecisionFails
  <2>1. Planned # {} => control.steps < MaxSteps /\ control.models < MaxModelCalls
    BY <1>2, SpentStops DEF DecisionFails, WithinBudget, TypeOK
  <2>2. Planned = {} => control.steps <= 1 /\ control.models <= 3
    BY <1>2 DEF DecisionFails, SpendingFits
  <2>3. BudgetsHold'
    BY <1>1, <1>2, <2>1, <2>2, PlanningCharge, LimitsAreNumbers DEF SpendingFits, BudgetsHold
  <2>4. at' \in Over
    BY <1>2 DEF DecisionFails, Terminate, Over
  <2> QED
    BY <2>3, <2>4 DEF SpendingFits, Over, Stopped
<1>3. CASE PlanInitially \/ PlanFails
  <2>1. at = "plan" /\ Planned = {} /\ control.steps <= 1 /\ control.models <= 3
    BY <1>3 DEF PlanInitially, PlanFails, PlanFits, SpendingFits
  <2>2. BudgetsHold'
    BY <1>1, <1>3, <2>1, PlanningCharge, LimitsAreNumbers DEF SpendingFits, BudgetsHold
  <2>3. CASE PlanFails
    BY <2>2, <2>3 DEF PlanFails, Terminate, SpendingFits, Over, Stopped
  <2>4. CASE PlanInitially
    <3>1. <<"reviewer", 0>> \in Planned'
      BY <2>4, BudgetAssumption
         DEF PlanInitially, AddTasks, Planned, Task, Agent, Revision, BudgetAssumption
    <3>2. review.verdict = "retrieve_more" => control'.rounds = 0
      BY <2>1, <2>4, PlanningCharge DEF SpendingFits, Over, Stopped
    <3> QED
      BY <2>2, <2>4, <3>1, <3>2 DEF PlanInitially, SpendingFits
  <2> QED
    BY <1>3, <2>3, <2>4
<1>4. ASSUME NEW node \in {"replan", "retrieve_more"}, Revise(node) \/ RevisionFails(node)
      PROVE  SpendingFits'
  <2>1. control.steps <= MaxSteps
    BY <1>4 DEF Revise, RevisionFails, SpendingFits, Over, Stopped
  <2>2. BudgetsHold'
    BY <1>1, <1>4, <2>1, RevisionCharge, LimitsAreNumbers DEF SpendingFits, BudgetsHold
  <2>3. CASE RevisionFails(node)
    BY <2>2, <2>3 DEF RevisionFails, Terminate, SpendingFits, Over, Stopped
  <2>4. CASE Revise(node)
    <3>1. Planned' # {}
      BY <2>4, RevisionIsNew
    <3> QED
      BY <2>2, <2>4, <3>1 DEF Revise, SpendingFits, NoReview
  <2> QED
    BY <1>4, <2>3, <2>4
<1> QED
  BY <1>2, <1>3, <1>4 DEF Planner

LEMMA FreeSpends ==
  ASSUME TypeOK, BatchFits, PlanFits, SpendingFits, [Next]_vars, Free
  PROVE  SpendingFits'
<1>1. UNCHANGED control
  BY FreeIs
<1>2. BudgetsHold'
  BY <1>1 DEF SpendingFits, BudgetsHold
<1>3. CASE UNCHANGED vars
  BY <1>3 DEF vars, SpendingFits, BudgetsHold, Planned, plan, products, answers
<1>4. CASE at' \in Over
  BY <1>2, <1>4 DEF SpendingFits, Over, Stopped
<1>5. CASE Dispatch \/ RunTasks \/ Handoff \/ Propose \/ Decline \/ Approve \/ Execute
  <2>1. /\ at \notin {"supervisor"} \cup Over /\ UNCHANGED review
        /\ at' \in {"tasks", "barrier", "update_conflict", "action", "approval", "finalize", "execute"}
    BY <1>5 DEF Dispatch, RunTasks, Handoff, Propose, Decline, Approve, Execute, products, Over,
       Stopped
  <2> QED
    BY <1>1, <1>2, <2>1 DEF SpendingFits, Over, Stopped
<1>6. CASE Void
  <2>1. at = "approval" /\ at' = "supervisor" /\ review' = NoReview
    BY <1>6 DEF Void, Narrow
  <2>2. Planned' = Planned /\ Planned # {}
    BY <2>1, PlannedIsKept DEF PlanInitially, Revise, PlanFits, Over, Stopped
  <2> QED
    BY <1>2, <2>1, <2>2 DEF SpendingFits, NoReview
<1>7. CASE Resolve("continue")
  <2>1. at = "escalate" /\ at' = "supervisor" /\ human' = "continue"
        /\ (review' = review \/ review' = NoReview)
    BY <1>7 DEF Resolve, Narrow, products
  <2>2. Planned' = Planned
    BY <2>1, PlannedIsKept DEF PlanInitially, Revise
  <2> QED
    BY <1>1, <1>2, <2>1, <2>2 DEF SpendingFits, NoReview, Over, Stopped
<1>8. CASE BudgetStops \/ NothingToJoin \/ InputMissing \/ Resolve("stop") \/ Finalize
        \/ \E node \in {"analysis", "reviewer", "action"} : Refuse(node)
  BY <1>4, <1>8 DEF BudgetStops, NothingToJoin, InputMissing, Missing, Refuse, Terminate, Resolve,
     Finalize, Over, Stopped
<1> QED
  BY <1>3, <1>5, <1>6, <1>7, <1>8 DEF Free, Human

LEMMA NextSpending ==
  TypeOK /\ BatchFits /\ PlanFits /\ SpendingFits /\ [Next]_vars => SpendingFits'
<1> SUFFICES ASSUME TypeOK, BatchFits, PlanFits, SpendingFits, [Next]_vars PROVE SpendingFits'
  OBVIOUS
<1>1. TypeOK' /\ PlanFits'
  BY NextType, NextPlan
<1> QED
  BY <1>1, ChargesAre, FreeSpends, DecisionSpends, PlannerSpends, NodesSpend DEF Planner

-----------------------------------------------------------------------------
Fits == TypeOK /\ BatchFits /\ PlanFits /\ SpendingFits

LEMMA InitFits == Init => Fits
<1> SUFFICES ASSUME Init PROVE Fits
  OBVIOUS
<1>1. Planned = {}
  BY DEF Init, Planned
<1> QED
  BY <1>1, InitType, BudgetAssumption
     DEF Init, Fits, BatchFits, PlanFits, SpendingFits, BudgetsHold, BudgetAssumption, NoReview, Over,
         Stopped

LEMMA NextFits == Fits /\ [Next]_vars => Fits'
BY NextType, NextBatch, NextPlan, NextSpending DEF Fits

(* The graph's state keeps its types: a counter never passes what the code compares it with by
   more than a decision and a batch, and a revision never takes a task id that is in use. *)
THEOREM GraphTypeCorrect == Spec => []TypeOK
<1>1. Fits => TypeOK
  BY DEF Fits
<1> QED
  BY <1>1, InitFits, NextFits, PTL DEF Spec

(* Whatever the models propose and however often a human is asked, a run spends at most one
   decision and one batch or node beyond its limits. *)
THEOREM BudgetsAreKept == Spec => []BudgetsHold
<1>1. Fits => BudgetsHold
  BY DEF Fits, SpendingFits
<1> QED
  BY <1>1, InitFits, NextFits, PTL DEF Spec

-----------------------------------------------------------------------------
(* The reviewer gate. *)

(* A passed review is of the analysis at hand; and nothing at hand was gathered under a scope
   that has been narrowed since. *)
ReviewFits ==
  /\ review.verdict = "passed" => review.of = analysis /\ analysis # NoAnalysis /\ joined # {}
  /\ \A item \in gathered \cup joined \cup analysis.on : item[2] = scope

LEMMA NarrowClears == Narrow => ReviewFits'
BY DEF Narrow, ReviewFits, NoReview, NoAnalysis

LEMMA NextReview == TypeOK /\ ReviewFits /\ [Next]_vars => ReviewFits'
<1> SUFFICES ASSUME TypeOK, ReviewFits, [Next]_vars PROVE ReviewFits'
  OBVIOUS
<1>1. CASE UNCHANGED <<gathered, joined, analysis, review, scope>>
  BY <1>1 DEF ReviewFits
<1>2. CASE \E node \in {"replan", "retrieve_more"} : Revise(node)
  BY <1>2 DEF Revise, ReviewFits, NoReview, NoAnalysis
<1>3. CASE RunTasks
  <2>1. /\ UNCHANGED <<joined, analysis, review, scope>>
        /\ \E S : gathered' = gathered \cup {<<t, scope>> : t \in S}
    <3>1. CASE UNCHANGED gathered
      <4>1. gathered' = gathered \cup {<<t, scope>> : t \in {}}
        BY <3>1
      <4> QED
        BY <1>3, <4>1 DEF RunTasks
    <3> QED
      BY <1>3, <3>1 DEF RunTasks
  <2> QED
    BY <2>1 DEF ReviewFits
<1>4. CASE Barrier
  BY <1>4 DEF Barrier, ReviewFits, NoReview
<1>5. CASE JoinEvidence
  BY <1>5 DEF JoinEvidence, ReviewFits
<1>6. CASE AnalyzeJoined
  BY <1>6 DEF AnalyzeJoined, ReviewFits, NoReview
<1>7. CASE ReviewAnalysis
  BY <1>7 DEF ReviewAnalysis, ReviewFits
<1>8. CASE Void \/ \E answer \in {"continue", "stop"} : Resolve(answer)
  BY <1>1, <1>8, NarrowClears DEF Void, Resolve, products
<1>9. CASE UNCHANGED vars \/ (\E action \in Action : \E S \in Selection(action) : Decide(action, S))
        \/ DecisionFails \/ BudgetStops \/ PlanInitially \/ PlanFails
        \/ (\E node \in {"replan", "retrieve_more"} : RevisionFails(node))
        \/ Dispatch \/ NothingToJoin \/ Handoff \/ Propose \/ InputMissing
        \/ (\E node \in {"analysis", "reviewer", "action"} : Refuse(node))
        \/ Decline \/ Approve \/ Execute \/ Finalize
  BY <1>1, <1>9 DEF vars, products, Decide, DecisionFails, BudgetStops, PlanInitially, PlanFails,
     RevisionFails, Dispatch, NothingToJoin, Refuse, Handoff, Propose, InputMissing, Missing,
     Decline, Approve, Execute, Finalize
<1> QED
  BY <1>2, <1>3, <1>4, <1>5, <1>6, <1>7, <1>8, <1>9 DEF Next, Supervisor, Planner, Agents, Human

(* On the way to a write nobody touches what was handed over. *)
WriteFits ==
  /\ at \in {"handoff", "action", "approval", "execute"} => review.verdict = "passed"
  /\ at \in {"handoff", "action"} => Ready({"action"}) # {}
  /\ at \in {"action", "approval", "execute"} => envelope = [review |-> review, evidence |-> joined]
  /\ at \in {"approval", "execute"} => intent = [envelope |-> envelope, analysis |-> analysis]
  /\ at = "action" => owner = "action"
  /\ at = "execute" => owner = "harness" /\ approval = "approved"

LEMMA NextWrite == TypeOK /\ WriteFits /\ [Next]_vars => WriteFits'
<1> SUFFICES ASSUME TypeOK, WriteFits, [Next]_vars PROVE WriteFits'
  OBVIOUS
<1>1. CASE UNCHANGED vars
  BY <1>1 DEF vars, plan, products, answers, WriteFits, Ready, Done
<1>2. ASSUME NEW action \in Action, NEW S \in Selection(action), Decide(action, S)
      PROVE  WriteFits'
  <2>1. at' = Target(action)
        /\ (action = "handoff_action" => review.verdict = "passed" /\ Ready({"action"}) # {})
    BY <1>2, DecisionIs
  <2>2. at' \notin {"action", "approval", "execute"} /\ (at' = "handoff" => action = "handoff_action")
    BY <2>1 DEF Target, Action
  <2>3. UNCHANGED <<review, status, needs>>
    BY <1>2 DEF Decide, products, plan
  <2> QED
    BY <2>1, <2>2, <2>3 DEF WriteFits, Ready, Done
<1>3. CASE Handoff
  BY <1>3 DEF Handoff, CanHandOff, plan, WriteFits, Ready, Done
<1>4. CASE Propose
  BY <1>4 DEF Propose, WriteFits
<1>5. CASE Approve
  BY <1>5 DEF Approve, products, WriteFits
<1>6. CASE at' \notin {"handoff", "action", "approval", "execute"}
  BY <1>6 DEF WriteFits
<1>7. CASE Dispatch \/ RunTasks
  BY <1>6, <1>7 DEF Dispatch, RunTasks
<1>8. CASE Returns /\ ~Handoff /\ ~Propose /\ ~Approve
  <2>1. at' \in {"supervisor", "finalize"} \cup Stopped
    BY <1>8 DEF Returns, DecisionFails, BudgetStops, Planner, PlanInitially, PlanFails, Revise,
           RevisionFails, Barrier, JoinEvidence, NothingToJoin, Refuse, AnalyzeJoined,
           ReviewAnalysis, InputMissing, Missing, Human, Decline, Void,
           Resolve, Execute, Finalize, Terminate, Stopped
  <2> QED
    BY <1>6, <2>1 DEF Stopped
<1> QED
  BY <1>1, <1>2, <1>3, <1>4, <1>5, <1>7, <1>8, StepIs

LEMMA InitGate == Init => ReviewFits /\ WriteFits
BY DEF Init, ReviewFits, WriteFits, NoReview, NoAnalysis

(* No write is put to a person, and none executes, but on a passed review of the analysis it
   was made from, and on evidence the requester may still see. *)
THEOREM WritesRest == Spec => []WritesRestOnAReview
<1>1. ReviewFits /\ WriteFits => WritesRestOnAReview
  BY DEF ReviewFits, WriteFits, WritesRestOnAReview
<1> QED
  BY <1>1, InitGate, InitFits, NextFits, NextReview, NextWrite, PTL DEF Spec, Fits

(* What a node on the way to a write raises without is there when the node runs. *)
THEOREM HandoffsAreReady == Spec => []HandoffIsReady
<1>1. ReviewFits /\ WriteFits => HandoffIsReady
  BY DEF ReviewFits, WriteFits, HandoffIsReady, CanHandOff, CanPropose, NoIntent
<1> QED
  BY <1>1, InitGate, InitFits, NextFits, NextReview, NextWrite, PTL DEF Spec, Fits

-----------------------------------------------------------------------------
(* How a run succeeds. *)

Earned ==
  /\ review # NoReview \/ human = "continue"
  /\ writes /\ review.verdict = "passed" /\ human # "continue" => approval = "approved"

(* Whoever is sent to finalize without a termination code has earned the success. *)
SuccessFits ==
  /\ outcome # "none" => at = "end"
  /\ outcome = "succeeded" => Earned
  /\ at = "finalize" /\ termination = "none" /\ approval # "rejected" /\ human # "stop" => Earned

LEMMA NextSuccess ==
  TypeOK /\ BatchFits /\ PlanFits /\ WriteFits /\ SuccessFits /\ [Next]_vars => SuccessFits'
<1> SUFFICES ASSUME TypeOK, BatchFits, PlanFits, WriteFits, SuccessFits, [Next]_vars
             PROVE  SuccessFits'
  OBVIOUS
<1>1. CASE UNCHANGED vars
  BY <1>1 DEF vars, products, answers, SuccessFits, Earned
<1>2. CASE Finalize
  BY <1>2 DEF Finalize, products, answers, SuccessFits, Earned, TypeOK
<1>3. ASSUME Next, ~Finalize PROVE outcome' = "none"
  <2>1. at # "end" /\ UNCHANGED outcome
    BY <1>3, Zenon DEF Next, Supervisor, Planner, Agents, Human, Decide, DecisionFails, BudgetStops,
       PlanInitially, PlanFails, Revise, RevisionFails, Dispatch, RunTasks, Barrier, JoinEvidence,
       NothingToJoin, Refuse, AnalyzeJoined, ReviewAnalysis, Handoff, Propose, InputMissing,
       Missing, Decline, Approve, Void, Resolve, Execute
  <2>2. outcome = "none"
    BY <2>1 DEF SuccessFits
  <2> QED
    BY <2>1, <2>2
<1>4. ASSUME NEW action \in Action, NEW S \in Selection(action), Decide(action, S)
      PROVE  SuccessFits'
  <2>1. UNCHANGED <<review, human, writes, approval, termination, outcome>> /\ at = "supervisor"
    BY <1>4 DEF Decide, products, answers
  <2>2. at' = "finalize" => action = "finalize"
    BY <1>4, DecisionIs DEF Target, Action
  <2>3. ~(review = NoReview /\ Planned # {} /\ Planned = Done)
    BY DEF PlanFits, Planned, Done
  <2>4. action = "finalize" /\ termination = "none" => Earned
    BY <1>4, <2>3, DecisionIs DEF Earned, NoReview
  <2> QED
    BY <2>1, <2>2, <2>4 DEF SuccessFits, Earned
<1>5. CASE Execute
  <2>1. Earned
    BY <1>5 DEF Execute, WriteFits, Earned, NoReview
  <2> QED
    BY <1>5, <2>1 DEF Execute, products, answers, SuccessFits, Earned
<1>6. CASE outcome' = "none" /\ (at' # "finalize" \/ termination' # "none" \/ approval' = "rejected"
                                  \/ human' = "stop")
  BY <1>6 DEF SuccessFits
<1>7. CASE Dispatch \/ RunTasks
  BY <1>3, <1>6, <1>7 DEF Next, Agents, Dispatch, RunTasks, Finalize
<1>8. CASE Returns /\ ~Finalize /\ ~Execute
  <2>1. at' # "finalize" \/ termination' # "none" \/ approval' = "rejected" \/ human' = "stop"
    BY <1>8, Zenon DEF Returns, DecisionFails, BudgetStops, Planner, PlanInitially, PlanFails, Revise,
       RevisionFails, Barrier, JoinEvidence, NothingToJoin, Refuse, AnalyzeJoined, ReviewAnalysis,
       Handoff, Propose, InputMissing, Missing, Human, Decline, Approve, Void, Resolve, Terminate
  <2>2. Next
    BY <1>8 DEF Returns, Next, Supervisor, Planner, Agents, NothingToJoin
  <2> QED
    BY <1>3, <1>6, <1>8, <2>1, <2>2
<1> QED
  BY <1>1, <1>2, <1>4, <1>5, <1>7, <1>8, StepIs

(* No run succeeds unreviewed but by a person's word, and none that was to write on a passed
   review succeeds unless the write was approved. *)
THEOREM SuccessesAreEarned == Spec => []SuccessIsEarned
<1>1. Init => SuccessFits
  BY DEF Init, SuccessFits
<1>2. SuccessFits => SuccessIsEarned
  BY DEF SuccessFits, SuccessIsEarned, Earned
<1> QED
  BY <1>1, <1>2, InitGate, InitFits, NextFits, NextWrite, NextSuccess, PTL DEF Spec, Fits

-----------------------------------------------------------------------------
(* The outline. *)

(* A run that is closing is between the Supervisor and the end, or in the batch that closed
   it; one that was refused or stopped has nothing left but finalize. *)
OutlineFits ==
  /\ termination # "none" => at \in {"barrier", "supervisor", "finalize", "end"}
  /\ human = "continue" => at \in {"supervisor", "finalize", "end"}
  /\ human = "stop" \/ approval = "rejected" => at \in {"finalize", "end"} /\ termination = "none"

(* A step between two nodes that no person has a part in. *)
LEMMA WorkIsOutlined ==
  ASSUME OutlineFits, UNCHANGED <<approval, human, outcome>>,
         at \in Node \ {"approval", "execute", "escalate", "finalize"},
         at' \in (Node \ {"execute"}) \cup {"input_missing", "update_conflict"},
         Closed => Closed' /\ at' \in {"supervisor", "finalize"},
         Closed' => at' \in {"barrier", "supervisor", "finalize"},
         human = "continue" => at' \in {"supervisor", "finalize"}
  PROVE  OutlineFits' /\ (Outline!Next \/ UNCHANGED <<Place, outcome>>)
<1> USE DEF OutlineFits, Closed, Node
<1>1. OutlineFits'
  OBVIOUS
<1>2. Place = IF Closed THEN "finalize" ELSE "pipeline"
  BY DEF Place
<1>3. Place' = IF Closed' \/ at' = "finalize" THEN "finalize"
               ELSE IF at' \in {"input_missing", "update_conflict"} THEN "raised"
               ELSE IF at' \in {"approval", "escalate"} THEN at' ELSE "pipeline"
  BY <1>1 DEF Place
<1> QED
  BY <1>1, <1>2, <1>3 DEF Outline!Next, Outline!Work, Outline!Goes

LEMMA OutlineStep ==
  TypeOK /\ OutlineFits /\ [Next]_vars
    => OutlineFits' /\ (Outline!Next \/ UNCHANGED <<Place, outcome>>)
<1> SUFFICES ASSUME TypeOK, OutlineFits, [Next]_vars
             PROVE  OutlineFits' /\ (Outline!Next \/ UNCHANGED <<Place, outcome>>)
  OBVIOUS
<1>1. CASE UNCHANGED vars
  BY <1>1 DEF vars, answers, OutlineFits, Place
<1>2. ASSUME NEW action \in Action, NEW S \in Selection(action), Decide(action, S)
      PROVE  OutlineFits' /\ (Outline!Next \/ UNCHANGED <<Place, outcome>>)
  <2>1. /\ at = "supervisor" /\ at' = Target(action)
        /\ UNCHANGED <<approval, human, outcome, termination>>
    BY <1>2 DEF Decide, answers
  <2>2. Closed => action = "finalize"
    BY <1>2 DEF Decide, LegalActions, Closed
  <2>3. Target(action) \in Node \ {"execute", "barrier", "supervisor"}
        /\ (action = "finalize" => Target(action) = "finalize")
    BY DEF Target, Action, Node
  <2> QED
    BY <2>1, <2>2, <2>3, WorkIsOutlined DEF Closed, Node
<1>3. CASE DecisionFails \/ BudgetStops \/ Planner
  <2>1. /\ at \in {"supervisor", "plan", "replan", "retrieve_more"}
        /\ at' \in {"supervisor", "finalize"} /\ UNCHANGED <<approval, human, outcome>>
        /\ UNCHANGED termination \/ termination' \in {"limit", "failure"}
    BY <1>3 DEF DecisionFails, BudgetStops, Planner, PlanInitially, PlanFails, Revise,
       RevisionFails, Terminate, answers
  <2> QED
    BY <2>1, WorkIsOutlined DEF Closed, Node, OutlineFits
<1>4. CASE Dispatch
  BY <1>4, WorkIsOutlined DEF Dispatch, OutlineFits, Closed, answers, Node
<1>5. CASE RunTasks
  <2>1. /\ at = "tasks" /\ UNCHANGED <<approval, human, outcome>>
        /\ \/ at' = "update_conflict" /\ UNCHANGED termination
           \/ at' = "barrier" /\ termination' \in {termination, "failure"}
    BY <1>5 DEF RunTasks, answers
  <2> QED
    BY <2>1, WorkIsOutlined DEF Closed, Node, OutlineFits
<1>6. CASE Barrier \/ JoinEvidence \/ AnalyzeJoined \/ ReviewAnalysis
  <2>1. /\ at \in {"barrier", "join_evidence", "analysis", "reviewer"} /\ at' = "supervisor"
        /\ UNCHANGED <<approval, human, outcome>> /\ UNCHANGED termination
    BY <1>6, Zenon DEF Barrier, JoinEvidence, AnalyzeJoined, ReviewAnalysis, answers
  <2> QED
    BY <2>1, WorkIsOutlined DEF Closed, Node, OutlineFits
<1>7. CASE NothingToJoin \/ \E node \in {"analysis", "reviewer", "action"} : Refuse(node)
  <2>1. /\ at \in {"join_evidence", "analysis", "reviewer", "action"} /\ at' = "finalize"
        /\ UNCHANGED <<approval, human, outcome>> /\ termination' = "failure"
    BY <1>7 DEF NothingToJoin, Refuse, Terminate, answers
  <2> QED
    BY <2>1, WorkIsOutlined DEF Closed, Node, OutlineFits
<1>8. CASE Handoff \/ Propose \/ InputMissing
  <2>1. /\ at \in {"handoff", "action", "analysis", "reviewer"}
        /\ at' \in {"action", "approval", "input_missing"}
        /\ UNCHANGED <<approval, human, outcome>> /\ UNCHANGED termination
    BY <1>8 DEF Handoff, Propose, InputMissing, Missing, answers
  <2> QED
    BY <2>1, WorkIsOutlined DEF Closed, Node, OutlineFits
<1>9. CASE Human
  <2>1. CASE Decline \/ Approve \/ Void
    BY <2>1 DEF Decline, Approve, Void, OutlineFits, Place, answers, Outline!Next,
       Outline!Decision, Outline!Goes, TypeOK
  <2>2. ASSUME NEW answer \in {"continue", "stop"}, Resolve(answer)
        PROVE  OutlineFits' /\ Outline!Next
    BY <2>2 DEF Resolve, OutlineFits, Place, Outline!Next, Outline!Resolution, Outline!Goes
  <2> QED
    BY <1>9, <2>1, <2>2 DEF Human
<1>10. CASE Execute
  BY <1>10 DEF Execute, OutlineFits, Place, answers, Outline!Next, Outline!Execution, Outline!Goes
<1>11. CASE Finalize
  BY <1>11 DEF Finalize, OutlineFits, Place, answers, Outline!Next, Outline!Close
<1> QED
  BY <1>1, <1>2, <1>3, <1>4, <1>5, <1>6, <1>7, <1>8, <1>9, <1>10, <1>11, StepIs DEF Returns

(* The nodes, their edges and the policy together keep to the outline that RunWorker and the
   persons who are asked go by. *)
THEOREM GraphIsOutlined == Spec => ImplementsRunOutline
<1>1. Init => OutlineFits /\ Outline!Init
  BY DEF Init, OutlineFits, Outline!Init, Place
<1>2. Fits => TypeOK
  BY DEF Fits
<1>3. TypeOK /\ OutlineFits /\ [Next]_vars
        => OutlineFits' /\ [Outline!Next]_<<Place, outcome>>
  BY OutlineStep
<1> QED
  BY <1>1, <1>2, <1>3, InitFits, NextFits, PTL DEF Spec, ImplementsRunOutline, Outline!Spec
=============================================================================
