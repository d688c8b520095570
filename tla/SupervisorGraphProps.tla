------------------------ MODULE SupervisorGraphProps ------------------------
(* What the supervised pipeline promises of the run it controls. *)
EXTENDS SupervisorGraph

(* The reviewer gate: an action that waits for approval or executes carries a passed
   review of the very analysis it was made from, and nothing in it was gathered under
   grants the requester no longer holds (handoff_node, resolve_resume_scope). *)
WritesRestOnAReview ==
  at \in {"approval", "execute"} =>
    /\ intent.envelope.review.verdict = "passed"
    /\ intent.envelope.review.of = intent.analysis /\ intent.analysis # NoAnalysis
    /\ intent.envelope.evidence # {}
    /\ \A item \in intent.analysis.on \cup intent.envelope.evidence : item[2] = scope

(* The comments of legal_actions: "otherwise the graph would reach handoff_node and raise".
   On the way to a write no node meets a missing product or a control_owner that is not its
   own. *)
HandoffIsReady ==
  /\ at = "handoff" => CanHandOff /\ analysis # NoAnalysis
  /\ at = "action" => CanPropose
  /\ at = "execute" => owner = "harness" /\ intent # NoIntent

(* A run succeeds on a review, or because a person accepted it without; and a run that was
   asked to write does not succeed on a passed review unless the approved write was done. *)
SuccessIsEarned ==
  outcome = "succeeded" =>
    /\ review # NoReview \/ human = "continue"
    /\ writes /\ review.verdict = "passed" /\ human # "continue" => approval = "approved"

(* The budget is looked at before a decision, never during the work it starts: what a run can
   spend beyond its limits is one decision and the batch or node that decision starts.
   Before there is a plan nothing is looked at: two decisions of three attempts each, when
   the first escalates and a person lets the run go on. *)
BudgetsHold ==
  /\ control.steps <= MaxSteps + MaxParallel
  /\ control.models <= IF MaxModelCalls > 4 THEN MaxModelCalls + 2 ELSE 6
  /\ control.tools <= MaxToolCalls
  /\ control.replans <= MaxReplans + 1 /\ control.rounds <= 1

(* test_supervisor_replan_before_any_review_does_not_crash: after a replan "the run must
   complete normally".  The code does not keep this: the revised Analysis may wait for
   completed evidence only, which was never joined. *)
RevisedRunsDoNotCrash == control.replans > 0 => at # "input_missing"

(* resolve_resume_scope: "Reopening the tasks is what makes the re-derivation happen instead
   of being merely available".  A run whose scope is narrowed while a person looks at its
   analysis succeeds only on an analysis made again.  The code does not keep this: the update
   that clears the products is followed by the answer that closes the run. *)
NarrowedRunsRederive ==
  [](at = "escalate" /\ scope = 0 /\ analysis # NoAnalysis
       => [](outcome = "succeeded" /\ scope > 0 => analysis # NoAnalysis))

(* No loop of the graph goes on for ever: plans, revisions, failed batches, retrieval rounds,
   voided approvals and accepted escalations all lead to the end. *)
EveryRunEnds == <>(at \in Stopped)

(* What runs next, seen from outside.  A run that was terminated, or whose escalation was
   answered, is on its way to the end whichever node it is at. *)
Place ==
  CASE at \in {"approval", "execute", "escalate", "end"} -> at
    [] at \in {"input_missing", "update_conflict"} -> "raised"
    [] at = "finalize" /\ (approval = "rejected" \/ human = "stop") -> "decline"
    [] OTHER -> IF at = "finalize" \/ termination # "none" \/ human = "continue"
                THEN "finalize" ELSE "pipeline"

Outline == INSTANCE RunOutline WITH place <- Place

(* The policy, the nodes and their edges together are the outline that RunWorker and a person
   who is asked go by: nothing resumes the work of a run that was terminated or whose
   escalation was answered, a refusal or a "stop" ends as cancelled and as nothing else, and
   nothing executes that was not asked about just before (legal_actions, after_approval,
   after_escalation, finalize_node). *)
ImplementsRunOutline == Outline!Spec
=============================================================================
