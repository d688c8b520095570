--------------------------- MODULE SubmissionQueue ---------------------------
(***************************************************************************)
(* What create_run, create_run_idempotent and claim_webhook_run promise    *)
(* whoever submits runs of one tenant, with no transactions and no locks:  *)
(* a submission is answered in one step, by a run of its own while the     *)
(* queue has room, by the run its key already has when that does what is   *)
(* asked, or not at all.                                                   *)
(***************************************************************************)
EXTENDS Naturals, FiniteSets

CONSTANTS
    Client,          \* submissions in flight
    Submission,      \* what they ask for: a key, or NoKey, and a goal
    NoKey,
    QueueLimit,      \* runs of a tenant that submissions may keep in the queue
    Nothing          \* a client that asks for nothing

VARIABLES
    asked,           \* client -> its submission, until it is answered or dropped
    entry,           \* run -> its key and goal, and whether it counts in the queue
    answered         \* what callers were told

queueVars == <<asked, entry, answered>>

Counting == {r \in DOMAIN entry : entry[r].counts}
Bearing(key) == {r \in DOMAIN entry : key # NoKey /\ entry[r].key = key}

Init ==
    /\ asked = [c \in Client |-> Nothing]
    /\ entry = <<>>
    /\ answered = {}

Ask(c) ==
    /\ asked[c] = Nothing
    /\ asked'[c] \in Submission
    /\ asked' = [asked EXCEPT ![c] = asked'[c]]
    /\ UNCHANGED <<entry, answered>>

Answer(c, run) ==
    /\ asked' = [asked EXCEPT ![c] = Nothing]
    /\ answered' = answered \cup {[request |-> asked[c], run |-> run]}

Create(c) ==
    /\ asked[c] # Nothing
    /\ Bearing(asked[c].key) = {}
    /\ Cardinality(Counting) < QueueLimit
    /\ LET run == Cardinality(DOMAIN entry) + 1
       IN  /\ entry' = [r \in DOMAIN entry \cup {run} |->
                 IF r = run THEN [key |-> asked[c].key, goal |-> asked[c].goal, counts |-> TRUE]
                 ELSE entry[r]]
           /\ Answer(c, run)

Find(c) ==
    /\ asked[c] # Nothing
    /\ \E r \in Bearing(asked[c].key) : entry[r].goal = asked[c].goal /\ Answer(c, r)
    /\ UNCHANGED entry

(* The queue is full, the key has another goal's run, or the caller gives up. *)
Drop(c) ==
    /\ asked[c] # Nothing
    /\ asked' = [asked EXCEPT ![c] = Nothing]
    /\ UNCHANGED <<entry, answered>>

(* A run ends, or waits for a human: it never counts again. *)
Leave(r) ==
    /\ entry[r].counts
    /\ entry' = [entry EXCEPT ![r].counts = FALSE]
    /\ UNCHANGED <<asked, answered>>

Next ==
    \/ \E c \in Client : Ask(c) \/ Create(c) \/ Find(c) \/ Drop(c)
    \/ \E r \in DOMAIN entry : Leave(r)

Spec == Init /\ [][Next]_queueVars
=============================================================================
