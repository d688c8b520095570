---------------------------- MODULE RunAdmission ----------------------------
(***************************************************************************)
(* How a run comes to be: create_run, create_run_idempotent and            *)
(* claim_webhook_run of persistence/repository.py, behind POST /runs and   *)
(* the GLPI webhook of api.py, in worker mode.  Each submission is one     *)
(* transaction; transaction-scoped advisory locks order those of one key   *)
(* and those that count the tenant's queue, across API processes.          *)
(*                                                                         *)
(* One tenant.  A webhook delivery is named by its signature, which covers *)
(* the body; its receipt row plays the part of the key's lock, because a   *)
(* second insert of the same key waits for the first to commit or roll     *)
(* back.  The rate limits in front of the endpoints are per process and    *)
(* decide nothing about runs; they are left out.                           *)
(***************************************************************************)
EXTENDS Naturals, Sequences, FiniteSets

CONSTANTS
    Client,          \* submissions in flight
    Key,             \* users' Idempotency-Keys
    Delivery,        \* signatures of webhook deliveries
    NoKey,           \* a submission without a key
    Goal,            \* what a submission asks for, up to request_hash
    QueueLimit,      \* settings: pending and running runs of a tenant
    Unlocked,        \* no client holds the lock
    MaxSubmissions   \* bound on submissions

ASSUME QueueLimitIsPositive == QueueLimit \in Nat \ {0}
ASSUME UnlockedIsNoClient == Unlocked \notin Client
ASSUME NoKeyIsNotGiven == NoKey \notin Key \cup Delivery
ASSUME SubmissionsAreBounded == MaxSubmissions \in Nat

VARIABLES
    runs,         \* committed rows of agent_runs, in order of creation
                  \*   (waited: the run has waited for a human, a history)
    receipt,      \* key or delivery -> its run, once committed
    keyLock,      \* key or delivery -> who holds its lock
    admission,    \* who holds the tenant's run-admission lock
    client,       \* client -> where its transaction is
    answered,     \* what callers were told: 202 with a run
    submissions

admissionVars == <<runs, receipt, keyLock, admission, client, answered, submissions>>

Named == Key \cup Delivery
Submission ==
    [key : Key \cup {NoKey}, goal : Goal] \cup [key : Delivery, goal : {"webhook"}]

Away == [at |-> "away"]
Request(c) == client[c].request
Enter(c, place) == client' = [client EXCEPT ![c].at = place]

RunIds == DOMAIN runs
Runnable == {r \in RunIds : runs[r].status \in {"pending", "running"}}

-----------------------------------------------------------------------------
AdmissionInit ==
    /\ runs = <<>>
    /\ receipt = [k \in Named |-> 0]
    /\ keyLock = [k \in Named |-> Unlocked]
    /\ admission = Unlocked
    /\ client = [c \in Client |-> Away]
    /\ answered = {}
    /\ submissions = 0

(* The transaction ends: its locks go, and the caller may be told a run.   *)
Release(c) ==
    /\ keyLock' = [k \in Named |-> IF keyLock[k] = c THEN Unlocked ELSE keyLock[k]]
    /\ admission' = IF admission = c THEN Unlocked ELSE admission
    /\ client' = [client EXCEPT ![c] = Away]

Tell(c, run) == answered' = answered \cup {[request |-> Request(c), run |-> run]}

Submit(c, q) ==
    /\ client[c] = Away
    /\ submissions < MaxSubmissions
    /\ submissions' = submissions + 1
    /\ client' = [client EXCEPT ![c] =
                    [at |-> IF q.key = NoKey THEN "admit" ELSE "key", request |-> q]]
    /\ UNCHANGED <<runs, receipt, keyLock, admission, answered>>

(* Mutant of LockKey: submissions of one key are not ordered. *)
EnterUnlocked(c) ==
    /\ client[c].at = "key"
    /\ Enter(c, "lookup")
    /\ UNCHANGED <<runs, receipt, keyLock, admission, answered, submissions>>

(* The submission key's lock, or the insert of the delivery's receipt.     *)
LockKey(c) ==
    /\ client[c].at = "key"
    /\ keyLock[Request(c).key] = Unlocked
    /\ keyLock' = [keyLock EXCEPT ![Request(c).key] = c]
    /\ Enter(c, "lookup")
    /\ UNCHANGED <<runs, receipt, admission, answered, submissions>>

(* Mutant of SameRequest: the key alone tells a retry. *)
SameRequestByKey(c, run) == TRUE

SameRequest(c, run) == runs[run].goal = Request(c).goal

(* The receipt is looked for before the queue is counted: a retry is not a *)
(* new admission.  Another request under the same key is a 409.            *)
Lookup(c) ==
    /\ client[c].at = "lookup"
    /\ LET known == receipt[Request(c).key]
       IN  \/ /\ known = 0
              /\ Enter(c, "admit")
              /\ UNCHANGED <<keyLock, admission, answered>>
           \/ /\ known # 0
              /\ IF SameRequest(c, known) THEN Tell(c, known) ELSE UNCHANGED answered
              /\ Release(c)
    /\ UNCHANGED <<runs, receipt, submissions>>

(* Mutant of LockAdmission: the queue is counted without the lock. *)
CountUnlocked(c) ==
    /\ client[c].at = "admit"
    /\ Enter(c, "count")
    /\ UNCHANGED <<runs, receipt, keyLock, admission, answered, submissions>>

(* _ensure_run_queue_capacity *)
LockAdmission(c) ==
    /\ client[c].at = "admit"
    /\ admission = Unlocked
    /\ admission' = c
    /\ Enter(c, "count")
    /\ UNCHANGED <<runs, receipt, keyLock, answered, submissions>>

Count(c) ==
    /\ client[c].at = "count"
    /\ IF Cardinality(Runnable) < QueueLimit
         THEN Enter(c, "insert") /\ UNCHANGED <<keyLock, admission>>
         ELSE Release(c)
    /\ UNCHANGED <<runs, receipt, answered, submissions>>

(* The run, its first event and its receipt, in one commit.                *)
InsertRun(c) ==
    /\ client[c].at = "insert"
    /\ LET run == Len(runs) + 1
           k == Request(c).key
       IN  /\ runs' = Append(runs, [key |-> k, goal |-> Request(c).goal,
                                    status |-> "pending", waited |-> FALSE])
           /\ receipt' = IF k = NoKey THEN receipt ELSE [receipt EXCEPT ![k] = run]
           /\ Tell(c, run)
    /\ Release(c)
    /\ UNCHANGED submissions

(* A process dies, a statement fails, a client gives up: a rollback.  When *)
(* the commit was made and only its answer is lost, the caller submits     *)
(* again, as every caller may.                                             *)
RollBack(c) ==
    /\ client[c] # Away
    /\ Release(c)
    /\ UNCHANGED <<runs, receipt, answered, submissions>>

(* Workers and decisions move runs on without asking for admission.        *)
Proceed(r) ==
    /\ \E next \in CASE runs[r].status = "pending" -> {"running"}
                     [] runs[r].status = "running" -> {"waiting", "ended"}
                     [] runs[r].status = "waiting" -> {"running", "ended"}
                     [] OTHER -> {} :
         runs' = [runs EXCEPT ![r].status = next, ![r].waited = @ \/ next = "waiting"]
    /\ UNCHANGED <<receipt, keyLock, admission, client, answered, submissions>>

AdmissionNext ==
    \/ \E c \in Client :
         \/ \E q \in Submission : Submit(c, q)
         \/ LockKey(c) \/ Lookup(c) \/ LockAdmission(c) \/ Count(c)
         \/ InsertRun(c) \/ RollBack(c)
    \/ \E r \in RunIds : Proceed(r)

AdmissionSpec == AdmissionInit /\ [][AdmissionNext]_admissionVars
=============================================================================
