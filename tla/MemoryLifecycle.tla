-------------------------- MODULE MemoryLifecycle ---------------------------
(***************************************************************************)
(* Long-term memory: memory/repository.py (the PostgreSQL authority), the  *)
(* retriever of memory/service.py, the review endpoint of                  *)
(* interfaces/http/memory_review.py and post_run of phase5_governance.py.  *)
(*                                                                         *)
(* A succeeded run writes an episode about its ticket; two episodes of two *)
(* tickets are grounds to propose a procedure; a human reviews what the    *)
(* policy quarantines; retrieval serves what is active.  Sessions are      *)
(* database transactions of concurrent requests.  A row that a session has *)
(* marked EXPIRED stays locked, and ACTIVE for everyone else, until that   *)
(* session commits; the tenant's advisory lock ("memory-governance")       *)
(* orders writers, reviewers and revokers, but not readers.                *)
(*                                                                         *)
(* One tenant, one procedure pattern.  Evidence is named by the ticket it  *)
(* belongs to.  Ranking, ACLs, taint and secrets are left out: they decide *)
(* which rows a query may see, never what becomes of a row.                *)
(***************************************************************************)
EXTENDS Naturals, Sequences, FiniteSets

CONSTANTS
    Session,    \* concurrent requests, one transaction at a time each
    Run,        \* succeeded runs, each writes about one ticket
    Ticket,     \* subject keys of the episodes
    Procedure,  \* subject key of the one procedure
    Content,    \* what a memory may say, up to content_hash
    Confident,  \* whether an episode reaches the auto-activation confidence
    Nobody,     \* no session: the advisory lock is free
    MaxRequests \* bound on the requests begun

ASSUME SubjectsDiffer == Procedure \notin Ticket
ASSUME NobodyIsNoSession == Nobody \notin Session
ASSUME ConfidenceIsKnown == Confident \subseteq BOOLEAN
ASSUME BoundIsNatural == MaxRequests \in Nat

VARIABLES
    memory,     \* the rows, in order of creation
    due,        \* rows whose expires_at or valid_to has passed
    outcome,    \* run -> what its result says
    writer,     \* holder of the tenant's write lock
    session,    \* session -> where its operation is
    begun       \* requests begun, capped by MaxRequests

memoryVars == <<memory, due, outcome, writer, session, begun>>

Subject == Ticket \cup {Procedure}
Status == {"QUARANTINE", "ACTIVE", "SUPERSEDED", "REVOKED", "EXPIRED"}
Pending == {"QUARANTINE", "ACTIVE"}

Outcome == [ticket : Ticket, content : Content, confident : Confident]
Idle == [at |-> "idle"]

Rows == DOMAIN memory
HeldRows(s) == IF "rows" \in DOMAIN session[s] THEN session[s].rows ELSE {}
LockedByOthers(s) == UNION {HeldRows(t) : t \in Session \ {s}}

IsProcedure(m) == memory[m].subject = Procedure

(* What session s sees: committed rows, and those it has expired itself.   *)
View(s) ==
    [m \in Rows |-> IF m \in HeldRows(s)
                      THEN [memory[m] EXCEPT !.status = "EXPIRED"]
                      ELSE memory[m]]

Mark(rows, ids, status) ==
    [m \in DOMAIN rows |-> IF m \in ids THEN [rows[m] EXCEPT !.status = status]
                                        ELSE rows[m]]

(* _expire_lapsed: FOR UPDATE SKIP LOCKED passes over rows another holds.  *)
Lapsed(s) ==
    {m \in Rows : memory[m].status = "ACTIVE" /\ m \in due} \ LockedByOthers(s)

(* corroborable_at and visible_at *)
Corroborable(rows, m) == rows[m].status \in Pending /\ m \notin due
Visible(rows, m) == rows[m].status = "ACTIVE" /\ m \notin due

(* _procedural_support_failure: all supports stand, of two tickets and runs *)
Supported(rows, m) ==
    LET valid == {e \in rows[m].supports : Corroborable(rows, e)}
    IN  /\ valid = rows[m].supports
        /\ Cardinality({rows[e].run : e \in valid}) >= 2
        /\ Cardinality({rows[e].subject : e \in valid}) >= 2

(* _revocation_closure over the rows the caller passes *)
Closure(rows, ids, t) ==
    LET direct == {m \in ids : t \in rows[m].evidence}
    IN  direct \cup {m \in ids : rows[m].supports \cap direct # {}}

-----------------------------------------------------------------------------
NothingRemembered ==
    /\ memory = <<>>
    /\ due = {}
    /\ writer = Nobody
    /\ session = [s \in Session |-> Idle]
    /\ begun = 0

MemoryInit == NothingRemembered /\ outcome \in [Run -> Outcome]

Goto(s, place) == session' = [session EXCEPT ![s] = place]
At(s, place) == session[s].at = place

(* A request arrives at an idle session. *)
Begin(s) ==
    /\ At(s, "idle")
    /\ begun < MaxRequests
    /\ begun' = begun + 1

(* Mutant of LockIsFree: nobody takes the lock. *)
LockIsFreeUnasked == TRUE

(* pg_advisory_xact_lock on the tenant's memory-governance key *)
LockIsFree == writer = Nobody

(* Commit and leave: own expiries become visible, the locks are released.  *)
Commit(s, rows) ==
    /\ memory' = rows
    /\ writer' = IF writer = s THEN Nobody ELSE writer

(* An expiry date passes. *)
Lapse(m) ==
    /\ m \in Rows \ due
    /\ due' = due \cup {m}
    /\ UNCHANGED <<memory, outcome, writer, session, begun>>

-----------------------------------------------------------------------------
(* Writing: MemoryWriter.write, then PostgresMemoryRepository.persist.     *)

Write(s, candidate) == Goto(s, [at |-> "persist", candidate |-> candidate])

(* post_run of run x, again when the run's finalisation is executed again. *)
PostRun(s, x) ==
    /\ Begin(s)
    /\ Write(s, [subject |-> outcome[x].ticket, content |-> outcome[x].content,
                 run |-> x, evidence |-> {outcome[x].ticket}, supports |-> {},
                 status |-> IF outcome[x].confident THEN "ACTIVE" ELSE "QUARANTINE"])
    /\ UNCHANGED <<memory, due, outcome, writer>>

ExpireFirst(s) ==
    /\ At(s, "persist")
    /\ Goto(s, [at |-> "compare", candidate |-> session[s].candidate,
                rows |-> Lapsed(s)])
    /\ UNCHANGED <<memory, due, outcome, writer, begun>>

SameKey(rows, c) ==
    {m \in DOMAIN rows : /\ rows[m].subject = c.subject
                         /\ rows[m].content = c.content
                         /\ rows[m].run = c.run}
Versions(rows, subject) == {m \in DOMAIN rows : rows[m].subject = subject}
Latest(rows, ids) ==
    CHOOSE m \in ids : \A n \in ids : rows[n].version <= rows[m].version

(* Mutant of Decided: that the last version was revoked is forgotten. *)
DecidedIfPending(previous, c) ==
    IF previous.status \in Pending THEN "QUARANTINE" ELSE c.status

(* _subject_dedupe_outcome when it does not return the predecessor *)
Decided(previous, c) ==
    IF \/ previous.status \in Pending
       \/ previous.status \in {"REVOKED", "SUPERSEDED"} /\ previous.content = c.content
      THEN "QUARANTINE" ELSE c.status

(* The record the writer gets back.  An episode that stands, or awaits its *)
(* review, is looked at for a procedure; anything else ends post_run.      *)
Return(s, row) ==
    Goto(s, IF row.subject # Procedure /\ row.status \in Pending
              THEN [at |-> "corroborate", run |-> session[s].candidate.run]
              ELSE Idle)

(* Under the write lock: the idempotency key, then the latest version.     *)
Compare(s) ==
    /\ At(s, "compare")
    /\ LockIsFree
    /\ LET rows == View(s)
           c == session[s].candidate
           known == SameKey(rows, c)
           older == Versions(rows, c.subject)
           last == rows[Latest(rows, older)]
           duplicate == last.status \in Pending /\ last.content = c.content
       IN  \/ /\ known # {}
              /\ Commit(s, rows)
              /\ Return(s, rows[CHOOSE m \in known : TRUE])
           \/ /\ known = {} /\ older # {} /\ duplicate
              /\ Commit(s, rows)
              /\ Return(s, last)
           \/ /\ known = {} /\ (older # {} => ~duplicate)
              /\ writer' = s
              /\ Goto(s, [at |-> "insert", candidate |-> c, rows |-> HeldRows(s),
                          version |-> IF older = {} THEN 1 ELSE last.version + 1,
                          status |-> IF older = {} THEN c.status
                                                   ELSE Decided(last, c)])
              /\ UNCHANGED memory
    /\ UNCHANGED <<due, outcome, begun>>

Insert(s) ==
    /\ At(s, "insert")
    /\ LET c == session[s].candidate
           row == [subject |-> c.subject, content |-> c.content, run |-> c.run,
                   evidence |-> c.evidence, supports |-> c.supports,
                   version |-> session[s].version, status |-> session[s].status,
                   reviewed |-> FALSE]
       IN  Commit(s, Append(View(s), row)) /\ Return(s, row)
    /\ UNCHANGED <<due, outcome, begun>>

(* pattern_episodes, then the first two episodes of different tickets.     *)
Corroborate(s) ==
    /\ At(s, "corroborate")
    /\ LET rows == Mark(memory, Lapsed(s), "EXPIRED")
           episodes == {m \in Rows : ~IsProcedure(m) /\ Corroborable(rows, m)}
           first == CHOOSE m \in episodes : \A n \in episodes : m <= n
           others == {m \in episodes : rows[m].subject # rows[first].subject}
           second == CHOOSE m \in others : \A n \in others : m <= n
           x == session[s].run
       IN  /\ memory' = rows
           /\ \/ /\ episodes # {} /\ others # {}
                 /\ Write(s, [subject |-> Procedure, content |-> outcome[x].content,
                              run |-> x, status |-> "QUARANTINE",
                              supports |-> {first, second},
                              evidence |-> rows[first].evidence \cup rows[second].evidence])
              \/ (episodes = {} \/ others = {}) /\ Goto(s, Idle)
    /\ UNCHANGED <<due, outcome, writer, begun>>

-----------------------------------------------------------------------------
(* Review: get_for_review, then transition with expected_status QUARANTINE. *)

StartReview(s, m, decision) ==
    /\ Begin(s)
    /\ m \in Rows \ due
    /\ memory[m].status = "QUARANTINE"
    /\ Goto(s, [at |-> "review", row |-> m, decision |-> decision])
    /\ UNCHANGED <<memory, due, outcome, writer>>

TakeWriteLock(s) ==
    /\ session[s].at \in {"review", "revoke"}
    /\ LockIsFree
    /\ writer' = s
    /\ Goto(s, [session[s] EXCEPT !.at = IF At(s, "review") THEN "decide" ELSE "revoking"])
    /\ UNCHANGED <<memory, due, outcome, begun>>

(* Mutant of StillAwaited: the status read before the lock is trusted. *)
StillAwaitedAsRead(m) == TRUE

(* _validate_review_snapshot and LEGAL_TRANSITIONS, with the row locked *)
StillAwaited(m) == memory[m].status = "QUARANTINE"

(* _validate_activation *)
MayActivate(m) ==
    /\ m \notin due
    /\ IsProcedure(m) => Supported(memory, m)

Replaced(m) ==
    {n \in Rows \ {m} : memory[n].subject = memory[m].subject /\ memory[n].status = "ACTIVE"}

Reject(s) ==
    /\ At(s, "decide")
    /\ session[s].decision = "reject"
    /\ LET m == session[s].row
       IN  /\ m \notin LockedByOthers(s)
           /\ StillAwaited(m)
           /\ Commit(s, [memory EXCEPT ![m].status = "REVOKED", ![m].reviewed = TRUE])
    /\ Goto(s, Idle)
    /\ UNCHANGED <<due, outcome, begun>>

Activate(s) ==
    /\ At(s, "decide")
    /\ session[s].decision = "activate"
    /\ LET m == session[s].row
       IN  /\ ({m} \cup Replaced(m)) \cap LockedByOthers(s) = {}
           /\ StillAwaited(m) /\ MayActivate(m)
           /\ Commit(s, [Mark(memory, Replaced(m), "SUPERSEDED")
                           EXCEPT ![m].status = "ACTIVE", ![m].reviewed = TRUE])
    /\ Goto(s, Idle)
    /\ UNCHANGED <<due, outcome, begun>>

(* 409: the status changed after the review was read, or the row may not   *)
(* be activated any more.                                                  *)
ReviewFails(s) ==
    /\ At(s, "decide")
    /\ LET m == session[s].row
       IN  /\ m \notin LockedByOthers(s)
           /\ \/ ~StillAwaited(m)
              \/ session[s].decision = "activate" /\ ~MayActivate(m)
    /\ Commit(s, memory)
    /\ Goto(s, Idle)
    /\ UNCHANGED <<due, outcome, begun>>

-----------------------------------------------------------------------------
(* revoke_by_evidence: every pending row is locked, then the closure goes. *)

StartRevoke(s, t) ==
    /\ Begin(s)
    /\ Goto(s, [at |-> "revoke", evidence |-> t])
    /\ UNCHANGED <<memory, due, outcome, writer>>

Revoke(s) ==
    /\ At(s, "revoking")
    /\ LET pending == {m \in Rows : memory[m].status \in Pending}
       IN  /\ pending \cap LockedByOthers(s) = {}
           /\ Commit(s, Mark(memory, Closure(memory, pending, session[s].evidence),
                             "REVOKED"))
    /\ Goto(s, [at |-> "revoked", evidence |-> session[s].evidence])
    /\ UNCHANGED <<due, outcome, begun>>

-----------------------------------------------------------------------------
(* Retrieval: candidates, the embedding call, revalidate.  Readers take no *)
(* write lock; procedures are locked while their support is looked at.     *)

(* Mutant of Unsupported: procedures are served without asking. *)
UnsupportedUnasked(rows, ids) == {}

(* _revoke_invalid_procedures *)
Unsupported(rows, ids) ==
    {m \in ids : rows[m].subject = Procedure /\ rows[m].status = "ACTIVE" /\ ~Supported(rows, m)}

Retrieve(s) ==
    /\ Begin(s)
    /\ Goto(s, [at |-> "candidates", rows |-> Lapsed(s)])
    /\ UNCHANGED <<memory, due, outcome, writer>>

Candidates(s) ==
    /\ At(s, "candidates")
    /\ LET rows == View(s)
           ids == {m \in Rows : Visible(rows, m)}
           fallen == Unsupported(rows, ids)
       IN  /\ fallen \cap LockedByOthers(s) = {}
           /\ Commit(s, Mark(rows, fallen, "REVOKED"))
           /\ Goto(s, [at |-> "embed", ids |-> ids \ fallen])
    /\ UNCHANGED <<due, outcome, begun>>

Revalidate(s) ==
    /\ At(s, "embed")
    /\ Goto(s, [at |-> "serve", ids |-> session[s].ids, rows |-> Lapsed(s)])
    /\ UNCHANGED <<memory, due, outcome, writer, begun>>

(* One memory of each lineage, the best ranked of those still visible.     *)
OnePerLineage(rows, ids) ==
    {chosen \in SUBSET ids :
        /\ \A m, n \in chosen : rows[m].subject = rows[n].subject => m = n
        /\ \A m \in ids : \E n \in chosen : rows[m].subject = rows[n].subject}

(* revalidate is two SELECTs, of the support and of the rows to serve, in  *)
(* READ COMMITTED.  They are one step here, with the procedures locked: an *)
(* episode that ends between them is served or not by the second SELECT,   *)
(* while its procedure was judged by the first one.                        *)
Serve(s) ==
    /\ At(s, "serve")
    /\ LET ids == session[s].ids
           fallen == Unsupported(View(s), ids)
           rows == Mark(View(s), fallen, "REVOKED")
       IN  /\ fallen \cap LockedByOthers(s) = {}
           /\ Commit(s, rows)
           /\ \E chosen \in OnePerLineage(rows, {m \in ids : Visible(rows, m)}) :
                 Goto(s, [at |-> "served", ids |-> chosen])
    /\ UNCHANGED <<due, outcome, begun>>

Answer(s) ==
    /\ session[s].at \in {"served", "revoked"}
    /\ Goto(s, Idle)
    /\ UNCHANGED <<memory, due, outcome, writer, begun>>

(* The process dies, the connection is lost, or PostgreSQL picks the       *)
(* transaction as the victim of a deadlock: nothing it did remains.        *)
Abort(s) ==
    /\ ~At(s, "idle")
    /\ Commit(s, memory)
    /\ Goto(s, Idle)
    /\ UNCHANGED <<due, outcome, begun>>

-----------------------------------------------------------------------------
Step(s) ==
    \/ ExpireFirst(s) \/ Compare(s) \/ Insert(s) \/ Corroborate(s)
    \/ TakeWriteLock(s) \/ Reject(s) \/ Activate(s) \/ ReviewFails(s) \/ Revoke(s)
    \/ Candidates(s) \/ Revalidate(s) \/ Serve(s) \/ Answer(s)

MemoryNext ==
    \/ \E m \in Rows : Lapse(m)
    \/ \E s \in Session :
         \/ Step(s)
         \/ \E x \in Run : PostRun(s, x)
         \/ \E m \in Rows, d \in {"activate", "reject"} : StartReview(s, m, d)
         \/ \E t \in Ticket : StartRevoke(s, t)
         \/ Retrieve(s)
         \/ Abort(s)

MemorySpec == MemoryInit /\ [][MemoryNext]_memoryVars
=============================================================================
