--------------------------- MODULE SupervisorGraph --------------------------
(***************************************************************************)
(* The supervised pipeline of one run, from its first Supervisor decision  *)
(* to the end of the graph:                                                *)
(*   - orchestration/supervisor_workflow.py: its nodes and their edges;    *)
(*   - supervisor_policy.py: which decisions are legal where;              *)
(*   - dynamic_planner.py, task_dag.py: the plans a proposal compiles to;  *)
(*   - dispatcher.py, budget.py: task states and the run's budget;         *)
(*   - runtime.py: what a narrowed scope clears when a run is resumed.     *)
(* What a model or a human answers is a choice.  A product is abstracted   *)
(* to what it was made from: an item of evidence to the task that gathered *)
(* it and the scope it ran under, an analysis to the items it saw, a       *)
(* review to its verdict and the analysis it judged, an intent to all of   *)
(* them.  A scope is the number of narrowings so far.                      *)
(* Task ids carry the number of the revision that added them: a revision   *)
(* keeps the completed tasks and renames everything else.  A proposal adds *)
(* one Analysis, one Reviewer and, for a write, one Action task.           *)
(* A node that raises for a reason of its own ends in RunWorker.NodeRaises;*)
(* only the raises the control flow itself leads to are modelled here.     *)
(***************************************************************************)
EXTENDS Naturals, FiniteSets

CONSTANTS
  Writes,          \* the values of request_write considered
  MaxParallel,     \* SERVICEMIND_MAX_PARALLEL
  MaxSteps, MaxReplans, MaxModelCalls, MaxToolCalls,    \* the run's Budget
  MaxNarrowings,   \* bound: how often the requester's grants shrink while a human is asked
  Tries,           \* the attempts a decision or a proposal may take, of 1..3
  ModelUse, ToolUse    \* the calls an agent may make for a task, of 0..2 and 0..6

ASSUME BudgetAssumption ==
  /\ Writes \subseteq BOOLEAN
  /\ MaxParallel \in Nat \ {0} /\ MaxSteps \in Nat \ {0} /\ MaxReplans \in Nat
  /\ MaxModelCalls \in Nat /\ MaxToolCalls \in Nat /\ MaxNarrowings \in Nat
  /\ Tries \subseteq 1..3 /\ ModelUse \subseteq 0..2 /\ ToolUse \subseteq 0..6

Agent == {"data", "knowledge", "analysis", "reviewer", "action"}
Revision == 0..(MaxReplans + 1)    \* a plan's replans and its one retrieval round
Task == Agent \X Revision
AgentOf(t) == t[1]
Gatherer == {t \in Task : AgentOf(t) \in {"data", "knowledge"}}
Scope == 0..MaxNarrowings
Item == Gatherer \X Scope

Verdict == {"passed", "retrieve_more", "replan", "reject", "escalate", "degraded", "abstain"}
NoAnalysis == [by |-> "nobody", on |-> {}]
Analysis == [by : Task, on : SUBSET Item] \cup {NoAnalysis}
NoReview == [verdict |-> "none", of |-> NoAnalysis]
Review == [verdict : Verdict, of : Analysis] \cup {NoReview}
NoEnvelope == [review |-> NoReview, evidence |-> {}]
Envelope == [review : Review, evidence : SUBSET Item]
NoIntent == [envelope |-> NoEnvelope, analysis |-> NoAnalysis]
Intent == [envelope : Envelope, analysis : Analysis]

VARIABLES
  writes,        \* request_write
  at,            \* the node that runs next
  status, needs, \* task_plan: [Task -> TaskStatus], depends_on; "absent" is not in the plan
  selected,      \* selected_task_ids of the decision being carried out
  completions,   \* of the batch in progress: task and result
  dirty,         \* evidence_dirty
  gathered,      \* data_evidence and knowledge_evidence
  joined,        \* joined_evidence
  analysis,      \* analysis_result
  review,        \* review_result
  envelope,      \* handoff_envelope
  intent,        \* action_intent
  approval,      \* approval
  human,         \* human_review
  owner,         \* control_owner
  termination,   \* termination_code: a failure, a limit of the budget, or none
  control,       \* RuntimeControl, its counters
  scope,         \* how often the run's scope was narrowed
  outcome        \* the status finalize_node records

plan == <<status, needs>>
products == <<dirty, gathered, joined, analysis, review, envelope, intent>>
answers == <<approval, human>>
vars == <<writes, at, plan, selected, completions, products, answers, owner, termination,
          control, scope, outcome>>

TaskStatus == {"absent", "pending", "running", "success", "failed"}
Node == {"supervisor", "plan", "dispatch", "tasks", "barrier", "join_evidence", "analysis",
         "reviewer", "retrieve_more", "replan", "handoff", "action", "approval", "execute",
         "escalate", "finalize"}
Stopped == {"end", "input_missing", "update_conflict"}    \* the graph's END, and two ways to raise

(* Counters saturate beyond every value the code compares them with. *)
Counter == [steps : 0..(MaxSteps + MaxParallel + 2), models : 0..(MaxModelCalls + 8),
            tools : 0..(MaxToolCalls + 8), replans : 0..(MaxReplans + 1), rounds : 0..1,
            failures : 0..(MaxParallel + 3)]

TypeOK ==
  /\ writes \in Writes /\ at \in Node \cup Stopped
  /\ status \in [Task -> TaskStatus] /\ needs \in [Task -> SUBSET Task]
  /\ selected \subseteq Task /\ completions \subseteq Task \X {"success", "failed"}
  /\ dirty \in BOOLEAN /\ gathered \subseteq Item /\ joined \subseteq Item
  /\ analysis \in Analysis /\ review \in Review /\ envelope \in Envelope /\ intent \in Intent
  /\ approval \in {"none", "approved", "rejected"} /\ human \in {"none", "continue", "stop"}
  /\ owner \in {"supervisor", "action", "human", "harness", "none"}
  /\ termination \in {"none", "failure", "limit"}
  /\ control \in Counter /\ scope \in Scope
  /\ outcome \in {"none", "succeeded", "failed", "cancelled"}

Init ==
  /\ writes \in Writes /\ at = "supervisor"
  /\ status = [t \in Task |-> "absent"] /\ needs = [t \in Task |-> {}]
  /\ selected = {} /\ completions = {}
  /\ dirty = FALSE /\ gathered = {} /\ joined = {}
  /\ analysis = NoAnalysis /\ review = NoReview /\ envelope = NoEnvelope /\ intent = NoIntent
  /\ approval = "none" /\ human = "none" /\ owner = "supervisor" /\ termination = "none"
  /\ control = [steps |-> 0, models |-> 0, tools |-> 0, replans |-> 0, rounds |-> 0, failures |-> 0]
  /\ scope = 0 /\ outcome = "none"

-----------------------------------------------------------------------------
(* The plan and the budget. *)

Planned == {t \in Task : status[t] # "absent"}
Done == {t \in Task : status[t] = "success"}

(* TaskDispatcher.ready_tasks and available_slots. *)
Ready(agents) == {t \in Task : AgentOf(t) \in agents /\ status[t] = "pending" /\ needs[t] \subseteq Done}
Slots == MaxParallel - Cardinality({t \in Task : status[t] = "running"})

Least(a, b) == IF a < b THEN a ELSE b
LeftUnspent(limit, used) == limit    \* mutant of Left: a batch is granted the whole budget again
Left(limit, used) == IF used < limit THEN limit - used ELSE 0

Charge(steps, models) ==
  [control EXCEPT !.steps = Least(@ + steps, MaxSteps + MaxParallel + 2),
                  !.models = Least(@ + models, MaxModelCalls + 8)]

(* BudgetController.check, but for the deadline: that may have passed at any check. *)
Spent(c) ==
  \/ c.steps >= MaxSteps
  \/ c.replans > MaxReplans
  \/ c.models >= MaxModelCalls
  \/ c.tools >= MaxToolCalls
  \/ c.failures >= 3

TerminateByDecision(code) ==    \* mutant of Terminate: the Supervisor is asked to finalize
  termination' = code /\ at' = "supervisor"

(* The end of a node that terminates the run instead of doing its work. *)
Terminate(code) == termination' = code /\ at' = "finalize"

(* _assembled_context does not fit: the node's only update is the termination code. *)
Refuse(node) ==
  /\ at = node
  /\ Terminate("failure")
  /\ UNCHANGED <<writes, plan, selected, completions, products, answers, owner, control, scope, outcome>>

(* A node reads a product that is not there and raises. *)
Missing(node) ==
  /\ at = node
  /\ at' = "input_missing"
  /\ UNCHANGED <<writes, plan, selected, completions, products, answers, owner, termination,
                 control, scope, outcome>>

-----------------------------------------------------------------------------
(* The Supervisor and its policy. *)

OfferedAnyway(v) ==    \* mutant of Offered: a passed review is enough for either end
  CASE v = "passed" -> {"finalize", "replan", "handoff_action"}
    [] v = "retrieve_more" -> {"retrieve_more", "replan", "escalate"}
    [] v = "replan" -> {"replan", "escalate"}
    [] v \in {"escalate", "degraded"} -> {"escalate", "finalize"}
    [] v \in {"abstain", "reject"} -> {"finalize"}

(* legal_actions with a review on the table. *)
Offered(v) ==
  CASE v = "passed" /\ writes ->
         {"replan"} \cup {a \in {"handoff_action"} : Ready({"action"}) # {}}
    [] v = "passed" /\ ~writes -> {"finalize", "replan"}
    [] v = "retrieve_more" -> {"retrieve_more", "replan", "escalate"}
    [] v = "replan" -> {"replan", "escalate"}
    [] v \in {"escalate", "degraded"} -> {"escalate", "finalize"}
    [] v \in {"abstain", "reject"} -> {"finalize"}

(* ... and without one, once the evidence at hand is joined. *)
Unreviewed ==
  {"replan", "escalate"}
    \cup {a \in {"dispatch"} : Ready({"data", "knowledge"}) # {} /\ Slots > 0}
    \cup {a \in {"analyze"} : Ready({"analysis"}) # {}}
    \cup {a \in {"review"} : Ready({"reviewer"}) # {}}
    \cup {a \in {"finalize"} : Ready(Agent) = {} /\ Planned = Done}

ClosedByTermination == termination # "none"    \* mutant of Closed: a "continue" changes nothing
Closed == termination # "none" \/ human = "continue"

LegalActions ==
  CASE Closed -> {"finalize"}
    [] ~Closed /\ Planned = {} -> {"plan", "escalate"}
    [] ~Closed /\ Planned # {} /\ review # NoReview -> Offered(review.verdict)
    [] ~Closed /\ Planned # {} /\ review = NoReview ->
         IF dirty THEN {"join_evidence", "replan"} ELSE Unreviewed

(* What SupervisorPolicy.validate lets a decision select. *)
Selection(action) ==
  CASE action = "dispatch" ->
         {S \in SUBSET Ready({"data", "knowledge"}) :
            S # {} /\ Cardinality(S) <= Least(Slots, Left(MaxToolCalls, control.tools))}
    [] action = "analyze" -> {{t} : t \in Ready({"analysis"})}
    [] action = "review" -> {{t} : t \in Ready({"reviewer"})}
    [] OTHER -> {{}}

Target(action) ==
  CASE action = "analyze" -> "analysis"
    [] action = "review" -> "reviewer"
    [] action = "handoff_action" -> "handoff"
    [] OTHER -> action

WithinBudget == Planned = {} \/ ~Spent(control)    \* before there is a plan there is no budget

(* A legal decision, at the first, second or third attempt. *)
Decide(action, S) ==
  /\ at = "supervisor" /\ WithinBudget
  /\ action \in LegalActions /\ S \in Selection(action)
  /\ \E attempts \in Tries : control' = Charge(1, attempts)
  /\ selected' = S
  /\ at' = Target(action)
  /\ owner' = "supervisor"
  /\ UNCHANGED <<writes, plan, completions, products, answers, termination, scope, outcome>>

(* Three illegal decisions, or a call that failed. *)
DecisionFails ==
  /\ at = "supervisor" /\ WithinBudget
  /\ \E attempts \in Tries : control' = Charge(0, attempts)
  /\ Terminate("failure")
  /\ UNCHANGED <<writes, plan, selected, completions, products, answers, owner, scope, outcome>>

BudgetStops ==
  /\ at = "supervisor" /\ Planned # {}
  /\ Terminate("limit")
  /\ UNCHANGED <<writes, plan, selected, completions, products, answers, owner, control, scope, outcome>>

-----------------------------------------------------------------------------
(* Planning.  Edges say what the tasks of a revision wait for. *)

AddTasks(kept, new, edges) ==
  /\ status' = [t \in Task |->
       IF t \in kept THEN status[t] ELSE IF t \in new THEN "pending" ELSE "absent"]
  /\ needs' = [t \in Task |-> IF t \in new THEN edges[t] ELSE IF t \in kept THEN needs[t] ELSE {}]

(* create_plan with _complete_evidence_pipeline: the Analysis waits for all the evidence. *)
PlanInitially ==
  /\ at = "plan"
  /\ \E evidence \in SUBSET {<<"data", 0>>, <<"knowledge", 0>>} :
       LET new == evidence \cup {<<a, 0>> : a \in {"analysis", "reviewer"}
                                   \cup {x \in {"action"} : writes}}
       IN AddTasks({}, new, [t \in Task |->
            CASE AgentOf(t) = "analysis" -> evidence
              [] AgentOf(t) = "reviewer" -> {<<"analysis", 0>>}
              [] AgentOf(t) = "action" -> {<<"reviewer", 0>>}
              [] OTHER -> {}])
  /\ \E attempts \in Tries \cap 1..2 : control' = Charge(1, attempts)
  /\ dirty' = FALSE
  /\ at' = "supervisor"
  /\ UNCHANGED <<writes, selected, completions, gathered, joined, analysis, review, envelope, intent,
                 answers, owner, termination, scope, outcome>>

PlanFails ==
  /\ at = "plan"
  /\ \E attempts \in Tries \cap 1..2 : control' = Charge(0, attempts)
  /\ Terminate("failure")
  /\ UNCHANGED <<writes, plan, selected, completions, products, answers, owner, scope, outcome>>

(* revise_node counts the revision before it looks at the budget. *)
Counted(node) ==
  IF node = "replan" THEN [control EXCEPT !.replans = @ + 1] ELSE [control EXCEPT !.rounds = @ + 1]

(* revise_plan: completed tasks stay; new evidence, Analysis, Reviewer and Action tasks may
   wait for completed tasks as well as for new ones.  That the Analysis names every completed
   evidence task, and never a part of them, makes no difference until a narrowing reopens
   them. *)
Revise(node) ==
  LET counted == Counted(node)
      new(a) == <<a, counted.replans + counted.rounds>>
      known(a) == {t \in Done : AgentOf(t) = a} \cup {new(a)}
  IN /\ at = node
     /\ ~Spent(counted)
     /\ \E evidence \in SUBSET {new("data"), new("knowledge")} :
          /\ evidence # {}
          /\ review.verdict = "retrieve_more" => new("knowledge") \in evidence
          /\ \E sources \in {(Done \cap Gatherer) \cup S : S \in SUBSET evidence},
                judged \in known("analysis"), gate \in known("reviewer") :
               AddTasks(Done,
                 evidence \cup {new("analysis"), new("reviewer")} \cup {t \in {new("action")} : writes},
                 [t \in Task |-> CASE AgentOf(t) = "analysis" -> sources
                                   [] AgentOf(t) = "reviewer" -> {judged}
                                   [] AgentOf(t) = "action" -> {gate}
                                   [] OTHER -> {}])
     /\ \E attempts \in Tries :
          control' = [counted EXCEPT !.steps = @ + 1, !.models = @ + attempts]
     /\ dirty' = FALSE /\ analysis' = NoAnalysis /\ review' = NoReview
     /\ owner' = "supervisor"
     /\ at' = "supervisor"
     /\ UNCHANGED <<writes, selected, completions, gathered, joined, envelope, intent, answers,
                    termination, scope, outcome>>

(* The budget or the deadline is spent, or three proposals were refused. *)
RevisionFails(node) ==
  LET counted == Counted(node)
  IN /\ at = node
     /\ \/ control' = counted /\ Terminate("limit")
        \/ /\ ~Spent(counted)
           /\ \E attempts \in Tries : control' = [counted EXCEPT !.models = @ + attempts]
           /\ Terminate("failure")
     /\ UNCHANGED <<writes, plan, selected, completions, products, answers, owner, scope, outcome>>

-----------------------------------------------------------------------------
(* Gathering evidence. *)

Dispatch ==
  /\ at = "dispatch"
  /\ status' = [t \in Task |-> IF t \in selected THEN "running" ELSE status[t]]
  /\ completions' = {}
  /\ at' = "tasks"
  /\ UNCHANGED <<writes, needs, selected, products, answers, owner, termination, control, scope, outcome>>

(* The branches of a batch run side by side and their updates are applied together.  A
   knowledge task whose context does not fit writes the termination code, which is a
   plain value in the graph's state: two of them in one batch conflict. *)
RunTasks ==
  /\ at = "tasks"
  /\ \E result \in [selected -> {"items", "nothing", "failed", "refused"}] :
       LET refused == {t \in selected : result[t] = "refused"}
       IN /\ \A t \in refused : AgentOf(t) = "knowledge"
          /\ IF Cardinality(refused) > 1
             THEN at' = "update_conflict" /\ UNCHANGED <<gathered, completions, termination>>
             ELSE /\ gathered' = gathered \cup {<<t, scope>> : t \in {u \in selected : result[u] = "items"}}
                  /\ completions' = {<<t, IF result[t] = "failed" THEN "failed" ELSE "success">> :
                                       t \in selected \ refused}
                  /\ termination' = IF refused = {} THEN termination ELSE "failure"
                  /\ at' = "barrier"
  /\ selected' = {}
  /\ UNCHANGED <<writes, plan, dirty, joined, analysis, review, envelope, intent, answers,
                 owner, control, scope, outcome>>

(* dispatch_barrier_node.  Each task was granted its part of what was left of the budget. *)
Barrier ==
  LET applied == {c \in completions : status[c[1]] = "running"}
      failed == {c \in applied : c[2] = "failed"}
      n == Cardinality(completions)
  IN /\ at = "barrier"
     /\ status' = [t \in Task |->
          IF <<t, "failed">> \in applied THEN "failed"
          ELSE IF <<t, "success">> \in applied THEN "success" ELSE status[t]]
     /\ \E models \in ModelUse, tools \in ToolUse :
          control' = [Charge(n, Least(models * n, Left(MaxModelCalls, control.models))) EXCEPT
            !.tools = Least(@ + Least(tools * n, Left(MaxToolCalls, @)), MaxToolCalls + 8),
            !.failures = IF failed = {} THEN 0 ELSE @ + Cardinality(failed)]
     /\ dirty' = (failed = {})
     /\ review' = IF failed = {} THEN NoReview ELSE [verdict |-> "replan", of |-> NoAnalysis]
     /\ completions' = {}
     /\ owner' = "supervisor"
     /\ at' = "supervisor"
     /\ UNCHANGED <<writes, needs, selected, gathered, joined, analysis, envelope, intent, answers,
                    termination, scope, outcome>>

JoinEvidence ==
  /\ at = "join_evidence" /\ gathered # {}
  /\ joined' = gathered /\ dirty' = FALSE
  /\ control' = Charge(1, 0)
  /\ owner' = "supervisor"
  /\ at' = "supervisor"
  /\ UNCHANGED <<writes, plan, selected, completions, gathered, analysis, review, envelope, intent,
                 answers, termination, scope, outcome>>

NothingToJoin == gathered = {} /\ Refuse("join_evidence")

-----------------------------------------------------------------------------
(* Analysis, review, and the way to a write. *)

Finish(S) == status' = [t \in Task |-> IF t \in S THEN "success" ELSE status[t]]

Calls == {Least(calls, Left(MaxModelCalls, control.models)) : calls \in ModelUse}

AnalyzeJoined ==
  /\ at = "analysis" /\ joined # {}
  /\ Finish(selected)
  /\ \E t \in selected : analysis' = [by |-> t, on |-> joined]
  /\ review' = NoReview
  /\ \E calls \in Calls : control' = Charge(1, calls)
  /\ owner' = "supervisor"
  /\ at' = "supervisor"
  /\ selected' = {}
  /\ UNCHANGED <<writes, needs, completions, dirty, gathered, joined, envelope, intent,
                 answers, termination, scope, outcome>>

(* The reviewer asks for evidence in the first round only, and for a new plan while one is
   left. *)
ReviewAnalysis ==
  /\ at = "reviewer" /\ joined # {} /\ analysis # NoAnalysis
  /\ Finish(selected)
  /\ \E v \in Verdict :
       /\ v = "retrieve_more" => control.rounds < 1
       /\ v = "replan" => control.replans < MaxReplans
       /\ review' = [verdict |-> v, of |-> analysis]
  /\ \E calls \in Calls : control' = Charge(1, calls)
  /\ owner' = "supervisor"
  /\ at' = "supervisor"
  /\ selected' = {}
  /\ UNCHANGED <<writes, needs, completions, dirty, gathered, joined, analysis, envelope,
                 intent, answers, termination, scope, outcome>>

(* What handoff_node and action_node raise without; execute_node raises unless the harness
   is in control. *)
CanHandOff == review.verdict = "passed" /\ Ready({"action"}) # {} /\ joined # {}
CanPropose == owner = "action" /\ Ready({"action"}) # {} /\ analysis # NoAnalysis

Handoff ==
  /\ at = "handoff" /\ CanHandOff
  /\ envelope' = [review |-> review, evidence |-> joined]
  /\ owner' = "action"
  /\ at' = "action"
  /\ UNCHANGED <<writes, plan, selected, completions, dirty, gathered, joined, analysis, review, intent,
                 answers, termination, control, scope, outcome>>

Propose ==
  /\ at = "action" /\ CanPropose
  /\ \E t \in Ready({"action"}) : Finish({t})
  /\ intent' = [envelope |-> envelope, analysis |-> analysis]
  /\ owner' = "human"
  /\ at' = "approval"
  /\ UNCHANGED <<writes, needs, selected, completions, dirty, gathered, joined, analysis, review,
                 envelope, answers, termination, control, scope, outcome>>

InputMissing ==
  \/ joined = {} /\ Missing("analysis")
  \/ (joined = {} \/ analysis = NoAnalysis) /\ Missing("reviewer")

-----------------------------------------------------------------------------
(* The two questions to a human, and what a resume with fewer grants does. *)

NarrowProducts ==    \* mutant of Narrow: the accumulated evidence stays
  /\ scope' = scope + 1
  /\ joined' = {} /\ dirty' = FALSE
  /\ analysis' = NoAnalysis /\ review' = NoReview /\ envelope' = NoEnvelope /\ intent' = NoIntent
  /\ status' = [t \in Task |-> IF t \in Planned THEN "pending" ELSE "absent"]
  /\ UNCHANGED gathered

(* resolve_resume_scope: evidence, the products made from it and the plan's progress are
   cleared.  human_review is cleared too, and then written by the node that resumes. *)
Narrow ==
  /\ scope' = scope + 1
  /\ gathered' = {} /\ joined' = {} /\ dirty' = FALSE
  /\ analysis' = NoAnalysis /\ review' = NoReview /\ envelope' = NoEnvelope /\ intent' = NoIntent
  /\ status' = [t \in Task |-> IF t \in Planned THEN "pending" ELSE "absent"]

Decline ==
  /\ at = "approval"
  /\ approval' = "rejected" /\ owner' = "harness" /\ at' = "finalize"
  /\ UNCHANGED <<writes, plan, selected, completions, products, human, termination, control, scope, outcome>>

Approve ==
  /\ at = "approval"
  /\ approval' = "approved" /\ owner' = "harness" /\ at' = "execute"
  /\ UNCHANGED <<writes, plan, selected, completions, products, human, termination, control, scope, outcome>>

(* An approval that meets a narrowed scope is voided; the action is derived again. *)
Void ==
  /\ at = "approval" /\ scope < MaxNarrowings
  /\ Narrow
  /\ human' = "none" /\ owner' = "supervisor" /\ at' = "supervisor"
  /\ UNCHANGED <<writes, needs, selected, completions, approval, termination, control, outcome>>

Resolve(answer) ==
  /\ at = "escalate"
  /\ \/ scope < MaxNarrowings /\ Narrow
     \/ UNCHANGED <<scope, status, products>>
  /\ human' = answer /\ owner' = "supervisor"
  /\ at' = IF answer = "continue" THEN "supervisor" ELSE "finalize"
  /\ UNCHANGED <<writes, needs, selected, completions, approval, termination, control, outcome>>

Execute ==
  /\ at = "execute" /\ owner = "harness"
  /\ owner' = "none" /\ at' = "finalize"
  /\ UNCHANGED <<writes, plan, selected, completions, products, answers, termination, control, scope, outcome>>

Finalize ==
  LET cancelled == termination = "limit" \/ approval = "rejected" \/ human = "stop"
                     \/ review.verdict = "reject"
  IN /\ at = "finalize"
     /\ outcome' = IF termination = "failure" THEN "failed"
                   ELSE IF cancelled THEN "cancelled" ELSE "succeeded"
     /\ at' = "end"
     /\ UNCHANGED <<writes, plan, selected, completions, products, answers, owner, termination,
                    control, scope>>

-----------------------------------------------------------------------------
Action == {"plan", "dispatch", "join_evidence", "analyze", "review", "retrieve_more", "replan",
           "handoff_action", "escalate", "finalize"}

Supervisor ==
  \/ \E action \in Action : \E S \in Selection(action) : Decide(action, S)
  \/ DecisionFails \/ BudgetStops

Planner ==
  \/ PlanInitially \/ PlanFails
  \/ \E node \in {"replan", "retrieve_more"} : Revise(node) \/ RevisionFails(node)

Agents ==
  \/ Dispatch \/ RunTasks \/ Barrier \/ JoinEvidence \/ NothingToJoin
  \/ AnalyzeJoined \/ ReviewAnalysis \/ Handoff \/ Propose \/ InputMissing
  \/ \E node \in {"analysis", "reviewer", "action"} : Refuse(node)

Human == Decline \/ Approve \/ Void \/ \E answer \in {"continue", "stop"} : Resolve(answer)

Next == Supervisor \/ Planner \/ Agents \/ Human \/ Execute \/ Finalize

Spec == Init /\ [][Next]_vars

(* The graph runs on, and a human who is asked answers. *)
FairSpec == Spec /\ WF_vars(Next)
=============================================================================
