# ServiceMind: a TLA+ model of the durable run and the services around it

ServiceMind answers IT service tickets with a team of model-driven agents. A *run* is one
task: it is queued in PostgreSQL, executed by a LangGraph workflow that may stop twice to
ask a human (an approval of a write, a resolution of an escalated review), and ends with at
most one followup appended to a GLPI ticket. Everything that must be right about a run is
right only because several processes with a database between them keep to a protocol:
leases, session locks, advisory transaction locks, idempotency records, checkpoints and an
outbox. That protocol is what this project models, and with it the services around the run that
keep a protocol of their own: memory, the knowledge index, admission, MCP tasks, the router's budget and
the tools' idempotency ledger. Paths below are relative to the
repository, which lies under `src/`; `servicemind/` stands for `src/src/servicemind/`.

Contents: [inventory](#1-the-system) · [modules](#2-the-modules-and-the-code) ·
[runs](#3-what-is-checked) · [fairness](#4-fairness) · [proofs](#5-what-is-proved) ·
[findings](#6-where-the-code-differs-from-its-documents) · [plan](#7-plan) ·
[not modelled](#8-what-is-not-modelled)

## 1. The system

| component | state it keeps | operations | talks to |
|---|---|---|---|
| Run queue and guard (`persistence/run_queue.py`) | lease columns of `agent_runs`; session advisory locks per run and per tenant slot | `claim`, `renew`, `release`, `execution_guard` | run worker, decision endpoints |
| Run worker (`orchestration/run_worker.py`, `src/src/service/run_worker.py`) | tasks in flight, one heartbeat each | `once`, `run_forever`, `execute_claimed`, `_heartbeat`, `_drain` | queue, runtime, repository |
| HTTP API (`api.py`) | nothing between requests | submit, approve/reject, resolve a review, cancel, list, SSE | repository, guard, runtime |
| Repository (`persistence/repository.py`) | runs, approvals, intents, idempotency records, events, audit | `update_run`, `cancel_run`, `record_approval`, `run_submission`, `action_lock`, `save_action_intent` … | everybody |
| Supervisor graph (`orchestration/supervisor_workflow.py`) | the LangGraph state in the checkpoint | one node per step, two interrupts | agents, executor, repository |
| Routing, planning, dispatch, budgets (`orchestration/{supervisor_policy,dynamic_planner,dispatcher,task_dag,budget}.py`) | the task plan inside the graph state | legal actions, plan, revise, dispatch, charge | supervisor graph |
| Invocation and resume (`orchestration/runtime.py`) | none | `start_run`, `resume_run`, `resume_review_run`, `continue_incomplete_run`, withdrawal, scope narrowing | graph, entitlements |
| Recovery (`orchestration/recovery.py`) | none | resumes interrupted runs at start-up (`in_process` mode) | runtime |
| Action executor (`harness/executor.py`) | intent status, idempotency record | `execute` | repository, tool gateway |
| Tool gateway and providers (`tool_platform/gateway.py`, `providers.py`) | limiter, circuits, ledger (in process) | `execute` with one attempt for a WRITE | GLPI client |
| Outbox (`persistence/outbox.py`, `reliability/`) | outbox rows with leases; a Redis stream with a consumer group | `enqueue`, `claim`, `published`, `failed`, `prune_published`; `once`, `run_forever`; `read`, `reclaim`, `ack` | integrators |
| JEV ledger (`orchestration/jev_ledger.py`, `jev_router.py`) | a spend journal per day, shared by processes | `reserve`, `settle`, `mark_unknown` | router |
| Tool resilience (`tool_platform/resilience.py`) | circuits, windows, bulkheads, the in-process idempotency ledger | `before`, `success`, `failure`; `lock`, `get`, `complete`, `abort` | gateway |
| Model gateway (`model_gateway/`) | providers' circuits, budget, cache | `complete` | agents |
| MCP tasks (`mcp/tasks.py`, `mcp/server.py`) | leased tasks | `create`, `heartbeat`, `finish`, `get`, `cancel`, `recover_interrupted` | MCP server |
| Entitlements (`security/entitlements.py`) | cached grants | verify, refresh | runtime, API |
| Webhooks and limits (`harness/webhooks.py`, `interfaces/http/`) | webhook receipts | accept | repository |
| Memory (`memory/`, `phase5_governance.py`) | memory versions and their status | `persist`, `transition`, `revoke_by_evidence`, `candidates`, `revalidate` | agents, reviewers |
| Knowledge (`rag/`), graph-RAG (`graphrag/`) | documents and chunks in PostgreSQL, generations of an index behind an alias | ingest, reconcile, publish, retire, retrieve | agents, operators |

`PROJECT.json` lists the same parts with their files, and those that hold no protocol
(prompts, tracing, the evaluation harness, the chat scaffold, user interfaces).

**How they interact.** A submission inserts a `pending` row. A worker claims it (a lease in
the row), enters `execution_guard` (session locks on a connection of its own), renews the
lease to be sure it still has it, re-reads the row, and invokes the graph; a heartbeat beside
it renews the lease and cancels the execution when it is lost. Graph nodes write the row as
they go, and LangGraph writes checkpoints *behind* them. At a write the graph interrupts; the
approval endpoint takes the same guard, records the decision and runs the rest of the graph
inside the HTTP request. If that request dies, the decided run becomes claimable and a worker
replays the decision. The write itself goes through the executor (approved? idempotency
record, action lock), the gateway (submission lock against cancellation, one attempt,
timeout) and the provider (search the ticket for a marker, append, read back). Cancelling is a
transaction of its own that waits only for the submission lock. An approved action raises an
outbox event, which relays bring to a Redis stream at least once.

**What is hard.** Leases lapse under a live executor. Processes die between any two writes.
A status is read before a lock and acted on after it. A request given up by a timeout may still be
applied by GLPI. A resume value may meet a checkpoint that trails. A human decides twice, or
two humans decide at once. A relay that is late finds its row with another. `PROJECT.json`
lists 40 such hazards at their lines with the properties that watch them, or a note where none does yet.

**What makes each component correct.**

* *Queue, guard, worker, endpoints*: at most one executor in a run's graph and at most
  `SlotLimit` per tenant; no lock survives its holder; a lease lost stays lost; only the lock
  holder itself writes the run; a cancelled run and a recorded decision are final; no write without an
  approval; every run that can go on does.
* *Action executor*: one followup per approved action; none after the cancellation was
  answered; success only for a followup that exists and is audited; every attempt ends.
* *Outbox*: published means sent; duplicates only after faults; a row ends once; an
  acknowledged message was handled; every event and every entry gets through.
* *Supervisor graph*: a write rests on a passed review of the analysis it was made from and on
  evidence gathered under the grants that hold; success is earned; the loop ends, and overshoots its
  budgets by one decision and its work at most; a node on the way to a write has the products it reads.
* *The run's action slot*: a decision speaks of the action its approver was shown, through withdrawal, replacement,
  voiding and replay.
* *Run admission*: one run per idempotency key and webhook delivery, retried or raced; the queue limit is never exceeded.
* *Memory*: versions of a subject are numbered without repetition; an ended row stays ended; a revocation reaches every row
  that rests on the evidence, and nothing that was revoked comes back unreviewed by a late writer; what is served still stands when it is served.
* *Knowledge*: a reader gets documents in force, in one version each; the alias moves only to a generation that is whole.
* *MCP tasks*: a task ends once, and not by somebody else while its executor is healthy.
* *Judge's budget*: what the provider bills in a day stays in the day's budget.
* *Tool ledger*: duplicates of a request do not run together, and a kept result answers only what it was made for.
* *Recovery, model gateway, event stream*: not modelled, see sections 7 and 8.

## 2. The modules and the code

Each component is a module; its properties are in `…Props`, its TLC instance in `MC…`, its
proofs in `…Proofs`. What a component promises to those who use it is an abstract module of its own, which the detailed
one is shown to implement (`RunExecution`, `RunOutline`, `ApprovedWrite`, `EventDelivery`, `SubmissionQueue`). A definition whose comment begins with *mutant of* (or carries that note
beside it) is a plausible bug of the definition after it, kept to show that the property it
is paired with in `PROJECT.json` can fail; no specification uses it.

### RunExecution — what the guard promises

One variable, `executing[s]`: the run a session is inside, or `NoRun`. `Enter` needs the run to
be nobody else's and its tenant to have a free slot; `Leave` ends it. Nothing is said of
leases, connections or crashes: this is the docstring of `execution_guard` as a
specification, and `RunWorker` is shown to implement it.

### RunWorker — queue, guard, worker, decisions and the row-writing nodes of the graph

| state | code |
|---|---|
| `status`, `decision` | `agent_runs.status`; the `approvals` row |
| `stage`, `at` | where the checkpoint would resume; the node an invocation runs next |
| `leaseOwner`, `leaseLive` | `worker_lease_owner`; `worker_lease_expires_at > now()` |
| `runLock`, `slotLock`, `probe` | session locks `run-execute:<run>`, `tenant-slot:<t>:<k>`; the slot tried next |
| `pc`, `task`, `answer` | where a session is in `execute_claimed` or the endpoint; its run; the decision or resume value it carries |
| `faults` | bound on crashes, pauses past a lease, identity outages |

A `Worker` is one `execute_claimed` task, an `Api` one decision request. Each transaction is one
action (`Claim`, `RecordApproval`, `CancelRun`), and each `pg_try_advisory_lock` is one
(`TryRunLock`, `TrySlot`), because others may come between them. `Visit` is a node that writes the
row: `update_run` replaces any status except that a cancelled row refuses. `Checkpoint` is
LangGraph's background writer, so a crash resumes at an earlier node than the one that ran.
`Invoke` gives the resume value to the interrupted node only: LangGraph drops a
`Command(resume=…)` whose checkpoint is not at an interrupt. `NodeRaises`, `Interrupted`,
`HeartbeatLost`, `Blocked`, `ApprovalVoid`, `ApiVoid` are the error exits; what the entitlement verifier
answers is a free choice. A narrowed approval is withdrawn at any checkpoint that carries an action (`WithAction`),
not only at the approval; the nodes that do not need the action go on, the execute node raises. The node `pipeline` stands for everything between routing and the
first node that writes the row again; SupervisorGraph has the inside of it.

`Crash` drops a session's advisory locks, as PostgreSQL does for a closed connection, and
leaves rows, lease and checkpoint as they are. `Lapse` is the database clock passing an expiry; under a live holder it is a fault
(a heartbeat that came late), without one it happens sooner or later.

`CheckpointsGoForward` relates this module to the graph: whatever dies, is taken over or decided, no run's checkpoint is ever
set back (`Onward` is where the graph's own edges lead). It is proved, and no run checks it.

### SupervisorGraph — the review loop of one run

| state | code (`Phase3State`) |
|---|---|
| `at` | the node the graph runs next, or where it stopped |
| `status`, `needs` | the tasks of `task_plan`: `Task.status`, `Task.depends_on` |
| `selected`, `completions` | `supervisor_decision.selected_task_ids`; `task_completions` of the batch |
| `gathered`, `dirty`, `joined` | `data_evidence` and `knowledge_evidence`; `evidence_dirty`; `joined_evidence` |
| `analysis`, `review`, `envelope`, `intent` | the products, each abstracted to what it was made from |
| `approval`, `human`, `owner`, `termination`, `control` | the keys of these names (`human_review`, `control_owner`, `termination_code`) |
| `scope` | how often `resolve_resume_scope` found the requester's grants shrunk |
| `outcome` | the status `finalize_node` records |

One action per node, with its early returns as actions of their own: `BudgetStops` and
`DecisionFails` of `supervisor_node`, `PlanFails`, `RevisionFails`, `NothingToJoin`, `Refuse` (a context that does not
fit). `LegalActions` and `Selection` are the policy; a decision is any action in them, because the
Supervisor is a model. `RunTasks` applies a batch's branches together, as LangGraph does: two
knowledge tasks whose context is refused in one batch both write `termination_code`, a key without a
reducer, and the graph raises (`update_conflict`). Task ids are an agent and the revision that added the task; a proposal
has one Analysis, one Reviewer and, for a write, one Action task, whose dependencies are chosen among
what the validator accepts. `Void` and `Resolve` carry the narrowing that a resume may meet;
`InputMissing` is a node that reads a product that is not there. `BudgetsHold` tells what the check before each
decision leaves open: a decision costs up to three calls, and what it starts is charged when it is over.

**RunOutline** is the same graph with everything the models do folded into one place, `pipeline`, which is how RunWorker has it:
the two questions, what each answer may lead to, and the status at the end. `Place` and `outcome` map the graph onto it, so
`ImplementsRunOutline` says that the node RunWorker abstracts away has no exit it does not know of: nothing executes but
from the approval, a resolution of a review never goes back to work, and the status is recorded once. (The fast paths, which end before
the pipeline, are RunWorker's alone.)

The module leaves out `route` and the fast paths, a narrowing that meets the run between two nodes
(`continue_incomplete_run`), and raises that do not come from the control flow (`NodeRaises` of RunWorker has them).

### ActionExecution — the write, from the execute node to the ticket

`run`, `intent`, `ledger`, `checkpoint`, `audited` are five places written one after another in
transactions of their own; `actionLock` is the transaction lock of the idempotency key,
`submitLock` the `run-submit` lock that `cancel_run` waits for; `sent`, `inFlight`, `written` are GLPI seen
from outside. The actions are the steps of `ControlledActionExecutor.execute` (`Check`, `ClaimKey`,
`Lock`, …), of the gateway's single WRITE attempt and of the provider, in the code's order, with `Crash` and failed calls between any two of them.
`mode` tells worker mode (the guard admits one executor) from `in_process` mode (nothing does).
GLPI is external: a request in flight may be applied at any time, also after its sender gave it up, or be lost.

**ApprovedWrite** is the write as the person who approved it sees it: what GLPI was asked for, what is there, what is recorded as done
(`confirmed`: the ledger's record, on which the intent, the checkpoint and the status rest) and the run's status; no executors, locks or attempts. It says of both modes that nothing
is asked for after a cancellation and nothing recorded that is not there, and of worker mode that one thing is asked for, only while the run is open, and that the run ends once.

### Outbox — rows, relays, the stream and its consumers

A row has a status, a lease owner, whether it is due (`available_at` or `lease_expires_at` has
passed) and its attempts. A relay claims a batch, sends it one by one, and records each as
published or failed; `Owns` on both is the worker id, which *two processes can share* (it is the
address of an object inside the process), so the id is a constant map `IdOf`. The stream
keeps `Copies` of an event; a consumer group has queued, pending and acknowledged entries, and a
payload may be trimmed. No process under `src/` runs a `RedisStreamConsumer`: integrators do, and the
consumer actions are that class's methods.

**EventDelivery** is the promise of the docstrings in `reliability/outbox.py` to whoever raises an event and whoever handles one: an event is offered
until a copy of it is in the stream or it is given up; copies may be many and late; a copy is closed only if its event was handled or its payload
is gone. Relays, leases, attempts, pending lists and worker ids are not in it.

Deliberate over-approximations: a relay takes the rows of its batch in any order; a pruned
row stays pruned (a key could be raised again, but an approval is raised once under a key made of intent and hash,
`persistence/repository.py:673`); `RelayCrash` also stands for a database error that leaves `once()`.

### Services — the components beside the run

Eight components that share no state, each a module with its properties. `Services` runs them side by side: `part`
says which one a behaviour is about, the others stand still, so one run explores the sum of their state spaces, not the
product. They are safety and action properties only; no fairness is assumed of them. `ServicesProofs` shows that each part runs by its own
specification inside the composition.

**MemoryLifecycle** (`memory/repository.py`, `memory/service.py`, `interfaces/http/memory_review.py`, `post_run` of `phase5_governance.py`)

| state | code |
|---|---|
| `memory`, `due` | rows of the memory table in order of creation; those whose `expires_at` or `valid_to` has passed |
| `outcome` | what each succeeded run's result says, from which `post_run` makes an episode |
| `writer` | the tenant's advisory lock `memory-governance` |
| `session` | a request's transaction: what it read, the rows it has expired and keeps locked |

`Write`, `ExpireFirst`, `Compare`, `Insert` are `persist` (the lock is taken after the lapsed rows are, with `SKIP LOCKED`);
`Corroborate` proposes the procedure two episodes support; `StartReview` … `Activate`, `Reject` are the review endpoint, which reads and
decides in two transactions; `StartRevoke`, `Revoke` the withdrawal of evidence; `Retrieve`, `Revalidate`, `Serve` the reader, which
takes no lock and has an embedding call in the middle. `Abort` ends a transaction anywhere, which covers the victim of a
deadlock (writers lock rows before the advisory lock, reviewers after it). `persist` asks nothing of what its candidate rests on, so a row that cites
evidence withdrawn since can go in: a procedure only in quarantine, an episode at the policy's decision unless it says again what was revoked last.
`RevocationReachesAll` says that much of later writes and no more. `Candidates` and `Serve` are two SELECTs each in READ COMMITTED, of the rows and of the
support of their procedures (`memory/repository.py:1104`, `:1181`), taken as one step: an episode that is rejected or lapses between the two is not modelled,
so `ServedStillStands` speaks of the support as the first of them saw it (the procedures' own rows are locked over both).

**KnowledgeIndex** (`rag/service.py`, `rag/repository.py`, `rag/opensearch.py`)

| state | code |
|---|---|
| `supplied`, `identity` | what the source says; the embedding identity a process is configured with |
| `stored`, `builds` | document rows in PostgreSQL; the chunks of a replacement have ids of their own, numbered by `builds` |
| `index`, `alias` | rows of each generation's concrete index; the generation readers resolve |
| `ingester`, `operator`, `reader` | the ingestion process; retirement and reinstatement requests; a retrieval between search and expansion |

`Replace` commits to PostgreSQL, then `Clear`, `WriteRows`, `MarkIndexed` write the index, with `Die` and `DocumentFails` between; `Reconcile` and
`RegenerationDue` are what the next process concludes; `CountPending` and `Publish` move the alias. Deletion is left out: nothing in
the service calls it.

**RunAdmission** (`persistence/repository.py`, `api.py`): `runs`, `receipt` (idempotency records and webhook receipts), `keyLock` and `admission`
(advisory locks `run-submission:<hash>`, one per key, and `run-admission:<tenant>`), `client` (where a submission's transaction is), `answered` (what callers were told). `LockKey`, `Lookup`, `LockAdmission`, `Count`,
`InsertRun`, `Tell` are the three ways to create a run; `Release` and `RollBack` end the transaction. The signature of a webhook covers
its timestamp, so only identical signed deliveries are one `Delivery`.

**SubmissionQueue** is what those three ways promise a caller, without transactions and locks: a submission is answered in one step, by a run of its own while the queue
has room, by the run its key already has if the request is the same, or not at all. `Asked`, `RunEntries` and `Atomic` (RunAdmissionProps) map the one onto the
other: the step is the insertion for who creates and the lookup for who finds; the locks are what makes the insertion see the queue and the keys as they are.

**McpTasks** (`mcp/tasks.py`, `mcp/server.py`): `tasks` (rows with lease and status), `executor` (where `_run_task` is), `poller` (a `tasks/get` or `tasks/cancel`, which reads and writes in two
transactions). `Create`, `Heartbeat`, `Finish`, `Read`, `Close`, `Cancel`, `Recover`, with `LeaseLapses` and `Crash`.

**ActionSlot** (`api.py`, `runtime.py`, `persistence/repository.py`): the one `action_intents` row of a run, its approvals, the grants held and the grants the checkpoint was
derived under. `Look`, `EnterGuard`, `Resolve`, `Void`, `Withdraw`, `Record`, `Resume` are the endpoint; `Claim`, `Replay`, `Invalid` the worker's replay; `Derive`, `Save`, `Ask`, `Execute` the
nodes. `Regrant` changes the grants at any time. RunWorker has the guard and the leases in full; here the guard is one lock.

**JevLedger** (`orchestration/jev_ledger.py`, `jev_router.py`): `journal` (the events in a day's file), `flock`, `router` (a call, with the buffer of its file handle), `bill` (what the
provider billed for each reservation). A refusal and a failed flush leave text in the buffer, which `CloseFile` writes after the lock is
released. `Total` adds amounts by counting their units, one pair for each, so that the sum needs no recursion and can be proved about. A cost that is known is taken for the provider's bill, also where the answer names
none and the router settles its input tokens at the list price (`jev_router.py:692-697`): that the list price is what is billed is assumed. The minute's cap counts the day's file, so it starts afresh at midnight.

**ToolLedger** (`tool_platform/resilience.py`, `gateway.py`): `hashes`, `locks`, `results`, `completed`, `aged` are the ledger's dictionaries, `call` the calls with
the lock object each got. `Enlist` prunes; a call whose entry is pruned keeps its lock and is marked. `Complete` keeps the result before the success is audited: when the audit fails,
`Fail` drops it and the next duplicate executes again (for a write, the executor's own record stands in front of that).

**EntitlementCache** (`security/entitlements.py`): `account` and `role` are what the identity provider has of one subject, `remembered` is the cache's
entry, `asker` the calls of `verify`, which overlap; `lastHeld` is history. `AskProvider` takes the time the entry will count from, `LearnAccount` and `LearnRoles` are
the two requests of `_fetch` (a gone or disabled account ends the first), each taking as long as it likes, and the one that comes back last writes the entry. `ChangeGrants` is the operator of the identity provider.

## 3. What is checked

All runs finish; deadlock checking is off because a system in which all runs have ended may stop.

| run | instance | what it shows |
|---|---|---|
| `run_queue` | 2 runs, 2 workers, 1 slot, no humans, 1 fault; symmetric; 383 k states | leases may lie (both workers own the same run in turn while both execute), yet the guard implements `RunExecution`, every lock has a holder that will give it back, and no late heartbeat revives a lease |
| `run_decisions` | 1 run, 1 worker, 2 humans, 2 faults; symmetric; 1.02 M states | approve, reject, continue, stop and cancel against each other, a worker and crashes: a decision and a cancellation are final, only the lock holder writes, nothing executes without approval |
| `run_liveness` | 1 run, 1 worker, 1 human, 2 faults; no symmetry; 107 k states | no run is left active for ever, and a recorded decision takes effect even if its request dies and then the worker that took over |
| `run_reopen` | 1 run, 1 worker, 2 humans, no fault | *violation*: a review resolved twice reopens an ended run (section 6) |
| `action_execution` | 2 executors, 2 possible requests, both modes, 2 faults; 12,388 states | an `ApprovedWrite`: one request at most (worker mode, or no fault), success only for a followup that is there, nothing sent after the end, every attempt ends |
| `action_retry` | worker mode, one fault | *violation*: the retry after a crash is refused before it can reconcile |
| `outbox` | 2 relays with one id, 2 consumers, 4 copies, 2 attempts, 2 events with one fault or 1 event with three; 180,902 states | at-least-once delivery from the row to the handler (an `EventDelivery`), every duplicate paid for by a fault, even with colliding worker ids; `LeaseLost` takes a batch down and loses nothing, a dead consumer's messages are taken over |
| `supervisor` | reads and writes, 2 parallel tasks, 20 steps, no replan but one retrieval round, 18 model and 3 tool calls, 1 narrowing; 196,806 states | the graph is a `RunOutline`; the review gate, the hand-off, the outcome and the budgets over two plans and a re-derivation; every run ends |
| `supervisor_replan` | reads, one replan | *violation*: a revised Analysis runs before anything was joined |
| `supervisor_narrow` | reads, one narrowing | *violation*: a narrowing that meets the resolution of a review ends in success without products |
| `services` | the eight parts, each on its own instance (below); symmetric; 0.83 M states | the properties of section 2's last part and that admission is a `SubmissionQueue`, each over interleavings, crashes and lapses of its component |
| `knowledge_reconcile` | 1 document, 2 texts, 1 generation, 5 events | *violation*: an ingester that dies between PostgreSQL and the index leaves a document its successor never writes |

**Bounds and why they are enough.** Two sessions are what a mutual exclusion, a stale lease or a
double decision needs; two runs and one slot make a tenant's limit bind; two faults allow a
crash of the executor *and* of whoever recovers it, and one is enough for a lease that lapses under its owner
(`run_queue`; with two faults that run has 1.9 M states and shows nothing else).
`MaxFaults` bounds crashes, late heartbeats, lost calls and outages; without it a system in which
everything always dies makes no progress, and it is the only bound on faults; in `outbox`, `MaxTrouble` adds faults and events (an event costs
`EventCost`), so that two events with one fault and one event with three are in one run. `Copies` is one more than
the faults of the run allow, so the bound never hides a further duplicate. `MaxAttempts` is small
so that the limit is met. Two posts are enough to see a second one. Symmetry is
used in safety runs only. `supervisor`: a second plan comes from the retrieval round, whose revision is the same code as a replan; a
replan runs into its limit, which is the limit's own case. Twenty steps are what a run needs that is voided at its approval and
derives the action a second time; `Tries`, `ModelUse` and `ToolUse` pick extreme and cheap costs, so that the budgets are met at
different points of the loop. `services`: memory has 2 sessions, 2 runs, 2 tickets, 2 contents and 4 requests (two episodes, the procedure and one more of
review, revocation or retrieval); knowledge 2 documents in sources of their own, 2 generations and 4 events (starts, changes, upgrades, requests and deaths are events alike); admission 2 clients, a key, a delivery, a queue of 1
and 4 submissions; tasks 2 replicas, 1 request id and 2 tasks; the slot 2 approvers, 2 hashes, grants that shrink twice and 4
mishaps; the journal 2 calls on 2 days, of which one amount never fits the budget; the tool ledger 3 callers, 2 requests and room for one
entry, so that pruning happens at once; the entitlement cache 2 calls, 3 ticks, a window of 2 and 3 changes of the grants. Each is the least at which its mutants are found and every action happens.
For every safety property, action property and refinement of the passing runs the proofs of section 5 remove the bounds altogether. The type
invariants of all modules are proved; `run_queue` alone still runs one.

**Mutants.** Each checked property is paired with a change to the code's translation that breaks it under
the same configuration: the claim ignores the run lock's answer, `renew` forgets the expiry, `update_run`
lets a cancelled row be set running, the guard's `finally` keeps the slot, the executor resumes an
attempt that was interrupted without looking for its marker, the consumer acknowledges first, a reviewer decides the row as it was read, the
index's word is taken for who may see a document, a failed delivery is recorded as published, the end of a run is recorded without a look at the row, a key answers
for another request, a "continue" leaves the Supervisor its choice, a call without usage is settled at nothing, the cache's window starts when the answer comes, and so on.

## 4. Fairness

* `RunWorker`: a live worker task and a live request keep running (asyncio), a worker
  polls for as long as it lives (`run_forever`), and an expiry nobody renews passes (the clock).
  Nothing is assumed of humans, of crashes, of the checkpoint writer, or of the order in which claims happen. `EveryRunSettles` and
  `DecisionTakesEffect` assume `RequestsCease`: human requests take the same guard, and an endless stream of
  them may keep the workers out (each refusal only defers), which the code does not prevent.
* `ActionExecution`: somebody resumes a running run (worker loop or recovery), a
  live attempt goes on, the gateway's timeout expires, and GLPI gets to the requests in its queue or loses them.
* `SupervisorGraph`: the graph runs on and a human who is asked answers (`WF_vars(Next)`); which of the choices is taken is not assumed.
* `Outbox`: relay loops and integrators' consumers run for ever and are restarted when they die,
  and clocks move. `MaxTrouble` keeps crashes finite.
* `Services` and its parts: none; every property of theirs is about what may never happen.

Fairness is weak everywhere: no loop of the code is promised more than that it goes on.

## 5. What is proved

TLAPS checks the theorems below for every value of the constants under the named assumptions of each module: any number
of runs, sessions, events, relays, clients, rows, documents, faults. Every safety property, every action property and every refinement of a
passing run is proved. The pattern is the same throughout: the property is not
inductive, so an invariant names what holds *between* the steps of a protocol (who holds which lock, what a transaction
carries from what it read). It was tried with TLC on the runs' instances first; each action is then shown to keep it, and the property follows from it.

**Assumptions.** They say that special values are no ordinary ones (`NoKeyIsNotGiven`, `UnlockedIsNoClient`,
`NobodyIsNoSession`, `NoGenerationIsNone`, `NoArgumentIsNone`, `NoRouterIsNone`, `NoActionIsNoRecord`, `ActorsDiffer`, `SubjectsDiffer`), that bounds and limits are
numbers, limits positive where the code's settings are (`QueueLimitIsPositive`, `LedgerHasRoom`, `TimeIsCounted`, `AmountsAreCounted`, `SubmissionsAreBounded`, `EventsAreBounded`,
`TasksAreBounded`, `BoundIsNatural`, `GrantsAreCounted`, `ConfidenceIsKnown`), that there is a first day (`DaysAreNumbered`), that a source is a set of documents
(`SourcesHoldDocuments`), and, in `OutboxAssumption`, that events and relays are finitely many, without which counting copies means
nothing. `ConstantsAssumption`, `ActionAssumption` and `BudgetAssumption` do the same for the larger modules; the last has the ranges of `Tries`, `ModelUse`
and `ToolUse` that the code's retry limits give, and at least one step (`domain/task.py:85`, `ge=1`). TLC evaluates every one of them.

`RunWorkerProofs`
* `TypeCorrect` — every action preserves `TypeOK`; `SessionType` ties `task` to `pc`.
* `LocksHeld` — `LocksAreHeld` is inductive with `TypeOK`: `RunLockHolders` says a lock's holder
  is still on the run and past `entering`, which is what makes `Crash`, `UnlockSlot` and `UnlockRun`
  release exactly what is held; `SlotHolders` adds that each slot holder holds one slot of its run's tenant.
* `OneExecutorAlways`, `GuardImplementsRunExecution` — from it by the refinement mapping
  `Executing`: `TrySlot` that succeeds is `Enter`, the step that leaves `Guarded` (including `Crash`) is
  `Leave`, everything else stutters. Capacity follows from counting slots: the sessions inside the guard
  of a tenant map one to one into its slots.
* `WritersHold`, `CancellationHolds`, `DecisionHolds` — action properties, by a lemma `StepShape`
  that says which fields of which run a step may change and by whom. `WritersHold` names the writer: it is the session that has the run's lock
  (`LocksAreHeld` says that a session past `entering` is the holder), it alone moves in the step, and a checkpoint becomes the node that session is at.
* `ExecutionIsApproved` — `OnlyApprovedExecutes` is not inductive: a session that carries the answer
  "approved" must belong to a run whose decision is approved (`Honest`), and a resume value for the review must be
  unable to lead to the execute node (`Harmless`); both are needed because answers survive crashes in
  the database and checkpoints trail.
* `LostLeasesStayLost` — only `Claim` and `Release` can move an expiry that had passed (`ReleaseRevives`), and
  `Confirm` cannot, because `renew` asks for the expiry in the same statement.
* `ProgressIsKept` — `CheckpointsGoForward`, by `InvocationIsAhead`: whoever runs the graph is at a node the checkpoint leads to, because it began there and
  the steps of the graph compose (`OnwardIsAnOrder`). With one executor per run (`OneExecutor`) nobody can move the checkpoint meanwhile; without the guard the theorem is false, for a second
  executor that began earlier would write its older checkpoint over a newer one.

`ActionExecutionProofs`
* `TypeCorrect`, `LocksFollow` — types, and each lock is held exactly while its body runs (`LocksFollowTheAttempt`, which is proved and needs no run).
* `WritesOnce` — the inductive invariant `WriteInv` says: in worker mode one executor is
  active (`Alone`); as long as an intent is approved no request was sent unless by the attempt under way
  (`ApprovalUnspent`, `NothingSentYet`, `RequestIsMine`, `RequestKnown`); hence at most one request (`OneWrite`).
  It is the *status check* that makes this true (an attempt that died leaves `EXECUTING` behind), which is also why a retry
  cannot reconcile (section 6).
* `EndIsABarrier` — with `SubmissionOpen`: while a POST is being made the run is still running,
  because `cancel_run` waits for the submission lock. It is about *sending*: a request the timeout gave up may be applied by
  GLPI after the cancellation was answered.
* `SuccessHolds` — by `SuccessInv`: whatever says success rests on a followup that is there
  (`WriteIsThere`, `SuccessRests`), the attempt that completes the record is the one that wrote (`AttemptOwnsWrite`), and
  its audit record precedes the checkpoint (`CreationAudited`).
* `WriteIsAsApproved` — the refinement of `ApprovedWrite`, from these invariants and `ExecutedIsOpen`: with the guard, a run somebody executes has not ended unless it was cancelled,
  so no second end is written over the first. `Send` is where a request is asked for, GLPI's `Apply` where it arrives, `CompleteKey` confirms it, `Finalize` and `RecordFailure` end the run; every other step is one the
  abstraction does not see.

`OutboxProofs`
* `TypeCorrect`, `AckedEventsWereHandled`; the lemma `Sides` splits the system where the code does: relays and rows never touch
  the stream but by XADD, consumers never touch the rows.
* `RowsEnd` — needs `WorkWasSent` and `HeardWasSent`: a relay that heard an answer has an entry in the stream, whoever owns the row by then.
* `DuplicatesArePaidFor` — by counting. The copies in the stream, the relays that still hold the event and, while its row is
  open to a claim, one more, are together at most one more than the faults (`Paid`); each step that adds one to the left either
  closes the row or is a fault. The count holds under colliding worker ids, since nothing in it asks who owns a row.
* `OutboxDeliversAtLeastOnce` — the refinement of `EventDelivery`. `DeliveryFits` is what the mapping needs of the present state: a batch holds only events that were raised (`BatchesWereRaised`), what a relay
  reports as sent is in the stream (`WorkWasSent`, `HeardWasSent`), and what a consumer is about to acknowledge was handled (`DoneWasHandled`). It is proved with colliding ids too: a
  relay that records what another one's lease covers still records what is so.

`SupervisorGraphProofs`
* `GraphTypeCorrect` and `BudgetsAreKept` rest on `Fits`: `PlanFits` (a plan always has a Reviewer task, and one is still to run while there is no
  review), `BatchFits` (a batch is of the plan and starts only before a review, so no work is charged after it) and `SpendingFits` (a decision leaves room for the node it starts).
  The proof corrected the bound of `BudgetsHold` for call limits below 5: before there is a plan nothing is looked at, and two decisions of
  three attempts each may come before it (the first escalates, a person lets the run go on).
* `WritesRest`, `HandoffsAreReady` — `ReviewFits` (a passed review is of the analysis that is there, and all evidence has the scope of now) and `WriteFits` (nothing handed over changes
  on the way from hand-off to execution). A narrowing clears what it outdates, which is the lemma `NarrowClears`.
* `SuccessesAreEarned` — `SuccessFits`: whoever reaches `finalize` without a termination code has earned the success already.
* `GraphIsOutlined` — the refinement of `RunOutline`. `OutlineFits` says where a run that is closing can be: with a termination code or an accepted review it is on its way to `finalize`, and a refused or stopped
  one has nothing left but that; so the Supervisor's visit after a "continue", which the outline does not have, leads nowhere else.

`RunAdmissionProofs`
* `QueueIsNeverOverfilled` — `QueueFits`: whoever counted holds `run-admission` until its row is in, so what it counted still holds.
* `KeysHaveOneRun` — `KeysFit`: whoever found no receipt holds the key's lock, so there is none; rows and receipts name each other.
* `SubmissionsAreAtomic` — the refinement of `SubmissionQueue` from both: at the insertion the queue still has the room that was counted and the key still has no run, so the whole transaction can be taken to
  happen there; a full queue, another request under the key and a rollback are all the submission being dropped.

`ActionSlotProofs`
* `DecisionsNameTheirAction` — the decision is taken on the row as it is, and shown as it was. `ShownFits` says an id never changes its hash; `DecisionFits` reads
  the decisions off the row, so only an undecided row is replaced; `GuardFits` and `Prepared` keep what the guard's holder established until it uses it; `AskNamesTheRow` ties the checkpoint that asks
  to the row. `Withdraw` leaves the row, which is why a withdrawn row decided later is harmless here (section 6).

`MemoryLifecycleProofs`
* `MemoryInv`: rows rest on older rows (`RowsFit`), a transaction's candidate keeps what its support was and its version is the next one as long as it
  holds the write lock (`SessionsFit`, `PlaceFits`), locks have one holder each (`LocksFit`).
* `VersionsAreNumbered`, `EndsAreFinal`, `ServingsStand` (what `Revalidate` asks is what stands, however old the candidates).
* `RevocationsReach` has three parts. The revoker's commit leaves nothing that cites the evidence (`RevokeReaches`: a procedure cites all that its
  episodes cite, and `Revoke` waits for the rows others have locked). No later step makes or leaves a procedure active over a revoked episode but the review that rejects the episode
  (`SupportIsKept`: an insertion quarantines it, an activation asks for its support again, all other steps are `Mild`). And what a writer
  decided under the lock is still so when it inserts (`FollowsEnded`, an invariant of whoever is between `Compare` and `Insert`): the last version has ended or is expired by the
  writer itself, and if it was revoked it said something else (`NothingRevokedIsSaid`). Without the lock both are false.

`ServicesProofs`
* `TaskEndsStand` (`TaskInv`: one kept task per request), `AnswersAreInTime` (`GrantInv`: whatever an asker or the cache carries was held since the moment its window counts from).
* `DuplicatesStaySuppressed` (`ToolInv`): a call whose entry was not pruned holds the arguments and the lock that the ledger has for its request, so two such calls exclude each other.
* `FlipsAreWhole`, `ServedPassagesAreInForce` (`CorpusInv`): each stage of an ingestion says what of the document is in which store, and a publication is reached only with nothing pending and all of the
  indexed documents in the generation the process builds.
* `SpendIsKept` — `SpendFits` (with `SpendInv`, on which `SpendBooksTypeCorrect` rests too). The *worth* of a call is what was reserved for it while it may still be billed, and what it was billed of that
  afterwards. A router with a reservation speaks for one admitted call, and no other does (`RoutersFit`); a call that is worth anything has its event in its day's file, or in the buffer of the router that holds the lock
  and is about to flush it (`CallsAreOnRecord`); an event that ends a call names no less than it is worth (`EndsCover`). So a journal accounts for no less than the worth of the day's calls, and what is admitted against it stays in the budget (`WorthStaysInBudget`).
  `Total` is a cardinality, so a sum with one more amount is a union with one more block, and a sum of smaller amounts a subset: no induction is needed.
* `EachPartSteps`, `PartsRunByTheirSpecs`, `MemoryRunsOrStands`, `KnowledgeRunsOrStands` show that `ServicesSpec` implements the specification of each part (memory and knowledge where they are
  the part that runs; elsewhere they stand empty), so that `ServicesTypeCorrect`, `ServicesKeepTheirPromises` and `ServicesStepAsPromised` carry the parts' theorems over to the system the run checks. The type
  invariants of the parts (`AdmissionTypeCorrect`, `SlotTypeCorrect`, `MemoryTypeCorrect`, `LedgerTypeCorrect`, `KnowledgeTypeCorrect`, `SpendBooksTypeCorrect`) are theorems of their own.

**Only model-checked**: liveness and everything with `ENABLED` (`EveryRunSettles`, `DecisionTakesEffect`, `ExecutionEnds`, `EventsArrive`, `EveryRunEnds`), which
the prover does not do. The refinements are of the safety part alone: the abstract specifications state no fairness. `LocksFollowTheAttempt` and `CheckpointsGoForward` are proved and no run
checks them (TLC found them to hold on the instances of `action_execution` and `run_decisions`).

## 6. Where the code differs from its documents

* **`run_reopen`**: `resolve_review_escalation` reads the status before the guard
  (`servicemind/api.py:618`) and writes `RUNNING` under it (`:661`) without a second look; a run that ended in between
  becomes claimable again. `src/docs/BACKEND_UPGRADE_RESULTS_2026-11-05.md:93` says ended runs are not claimed again.
* **`action_retry`**: a crash after GLPI stored the followup leaves the intent `EXECUTING`; the retry is refused at
  `servicemind/harness/executor.py:70` before it can scan for the marker, and the run fails although the followup exists.
  `src/docs/PHASE2_ENTERPRISE_ACCEPTANCE.md:287` describes the scan.
* **`supervisor_replan`**: a revision's Analysis need not wait for the evidence the revision adds (`dynamic_planner.py` completes an
  initial plan only, `task_dag.py:103` checks Reviewer and Action only). Replanned before the first review, it may be ready at once,
  and `_joined` raises (`supervisor_workflow.py:139`). `src/tests/servicemind/test_supervisor_runtime.py:999-1002` says such a run must complete.
* **`supervisor_narrow`**: `resume_review_run` (`runtime.py:501`) sends the narrowing's update and the answer "continue" together; the
  products are cleared, the answer leaves FINALIZE alone, and the run succeeds empty. The comment at `runtime.py:298` says reopened
  tasks make the re-derivation happen.

* **`knowledge_reconcile`**: `replace()` keeps the document's id, and `reconcile` (`rag/service.py:159`) takes the former version's rows in the index for the
  new version's: a document whose ingester died in between is marked indexed, skipped from then on, and cannot be found
  until it changes again. `rag/service.py:148-149` says confirmed documents "were fully written".

**Stated, not kept, and not a run.** These definitions stand beside the properties, their comments say that the code does not keep
them, and TLC finds each violated under the configuration named:

* `OneWriteWhateverTheMode` (ActionExecutionProps; `ActionExecution.cfg` with one fault): in `in_process` mode two executors pass the status check
  before either holds the action lock; the first times out with its POST under way, the second finds no marker and posts again.
  `src/docs/PHASE2_ENTERPRISE_ACCEPTANCE.md:286-289` says the lock serialises them to one observable effect.
* `OneLiveVersion` (MemoryLifecycleProps; 1 session, 3 runs, 1 ticket, 2 contents, 5 requests): a reviewer rejects the second version of a subject; the third
  compares itself with that one only and is activated beside the first. `memory/repository.py:135-136` says "never a second live version
  on the same subject without review".
* `RetiredStaysRetired` (KnowledgeIndexProps; the knowledge part of `Services.cfg`): a re-ingest of a changed source writes the source's ACL over the operator's
  retirement; `rag/repository.py:332-333` says every re-ingest derives the flag from that ACL.
* `WithdrawnIsNotDecided` (ActionSlotProps; the slot part): a crash after the withdrawal, or a re-derivation of the same hash, leaves a withdrawn row that
  `record_approval` decides like a proposed one; `runtime.py:358` says it must stop being approvable. What is approved is still what was shown (`DecisionNamesItsAction`).
* `JournalStaysReadable` (JevLedgerProps; the budget part): a refusal on the day's first call leaves the header in the handle's buffer, which the close writes after the
  lock is released, perhaps behind another process's header; the journal is then corrupt and the router falls back to its rules until midnight.
* `OneCallPerRequest`, `NoEntryIsStranded` (ToolLedgerProps; the tools part): the entry of a failed request counts as completed while a retry of it runs, so a pruning lets a third
  duplicate in beside the retry; and a call cancelled while it waits for the bulkhead leaves an entry that is never pruned.

Also met and not stated as a property: during a migration readers of the old generation lose the documents already replaced
(their parents have new ids); the cap per minute of the judge restarts at midnight; `entitlements.py:61-62` says "A refusal is
never cached", and `verify` caches unknown and disabled users (`:217-222`).

## 7. Plan

Done: `RunExecution` and `RunWorker`, `ActionExecution`, `Outbox`, `SupervisorGraph`, and the eight parts of
`Services`, checked and their safety and action properties proved, five of them shown to implement what they promise. Left, in this order:

1. **More refinements**: the memory as an append-only list of versions with final ends, the alias as a switch between whole generations; the proved invariants
   of `MemoryLifecycle` and `KnowledgeIndex` are what such a mapping needs.
2. **RunLifecycle**: recovery at start-up in `in_process` mode, and a database session that ends on its own under a living worker; composes with `RunWorker`.
3. **RunEvents**: the event log and its resumable stream, with the crash between the terminal status and the terminal event.
4. The circuits of tools and models: calls that outlive a reset.

## 8. What is not modelled

* *Text and models*: prompts, retrieval quality, ranking, chunking, evaluation; a node that calls a model is a choice of outcomes.
* *Metrics, logging, tracing, HTTP, serialisation*: no state another component decides on.
* *Authentication, roles, row-level security, cryptography*: fixed by the caller of the modelled operations.
* *Connection pool limits*: a blocked acquisition ends in an exception, which the models have at every step.
* *Start-up recovery*, the model gateway, the event stream, the rate limiters and circuits: left for later (section 7); what
  they answer is a free choice of the models that meet them.
* *LangGraph* is external (1.2.9): assumed are checkpoints that may trail the run and never lead it, nodes re-run from
  their top on a resume, and resume values dropped where no interrupt waits.
* *PostgreSQL* is external: session locks end with their connection, a transaction is atomic, advisory transaction locks end with it. A session lost while its
  process lives on is left for RunLifecycle.
