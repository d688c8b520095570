-------------------------- MODULE RunAdmissionProps --------------------------
(* What a caller and a tenant may rely on when runs are submitted. *)
EXTENDS RunAdmission

AdmissionTypeOK ==
    /\ runs \in Seq([key : Named \cup {NoKey}, goal : Goal \cup {"webhook"},
                     status : {"pending", "running", "waiting", "ended"},
                     waited : BOOLEAN])
    /\ receipt \in [Named -> 0..Len(runs)]
    /\ keyLock \in [Named -> Client \cup {Unlocked}]
    /\ admission \in Client \cup {Unlocked}
    /\ answered \subseteq [request : Submission, run : RunIds]
    /\ submissions \in 0..MaxSubmissions

(* Submissions, whichever of the three ways they come and however they     *)
(* race, never put more runs into the queue than it holds; only runs that  *)
(* a human has held up may fill it beyond, for they come back unasked.     *)
AdmissionHolds ==
    Cardinality({r \in Runnable : ~runs[r].waited}) <= QueueLimit

(* A key or a delivery has one run, and whoever was told a run under it    *)
(* was told that one and had asked for what it does, over retries, races,  *)
(* refusals and failures in between.                                       *)
RetriesFindTheRun ==
    \A k \in Named :
        /\ Cardinality({r \in RunIds : runs[r].key = k}) <= 1
        /\ \A a \in answered :
             a.request.key = k => runs[a.run].key = k /\ runs[a.run].goal = a.request.goal

(* The abstract queue as the rows and the transactions show it.  A run that *)
(* has waited comes back unasked and counts for nothing.                   *)
Asked == [c \in Client |-> IF client[c] = Away THEN Away ELSE Request(c)]
RunEntries ==
    [r \in RunIds |-> [key |-> runs[r].key, goal |-> runs[r].goal,
                       counts |-> runs[r].status \in {"pending", "running"} /\ ~runs[r].waited]]

Atomic == INSTANCE SubmissionQueue WITH asked <- Asked, entry <- RunEntries, Nothing <- Away

(* However the transactions of create_run, create_run_idempotent and        *)
(* claim_webhook_run interleave, wait for each other's locks, fail and are  *)
(* retried, callers cannot tell them from submissions made one at a time.   *)
ImplementsSubmissionQueue == Atomic!Spec
=============================================================================
