------------------------------- MODULE Outbox -------------------------------
(***************************************************************************)
(* Delivery of integration events, from the transaction that raises one to *)
(* the consumer's handler:                                                 *)
(*   - persistence/outbox.py: the tool_outbox rows and their leases;       *)
(*   - reliability/outbox.py: OutboxRelay, RedisStreamPublisher and        *)
(*     RedisStreamConsumer;                                                *)
(*   - reliability/worker.py: the delivery loop, which takes the rest of a *)
(*     batch down with an exception that leaves OutboxRelay.once;          *)
(*   - the Redis stream and its consumer group, external: XADD may take    *)
(*     effect although its caller gets an error, and old entries are       *)
(*     trimmed.                                                            *)
(* An entry of the stream is an event and the number of its XADD.  Relays  *)
(* claim under IdOf[r]: outbox-<id(stop)> is an address inside a process   *)
(* and two processes may share it.                                         *)
(***************************************************************************)
EXTENDS Naturals, FiniteSets

CONSTANTS
  Event,        \* tool_outbox rows: an approval raises one, under a key of its own
  Relay, IdOf,  \* [Relay -> worker id]
  Consumer,     \* members of one consumer group
  Copies,       \* bound: XADDs of one event
  MaxAttempts,  \* max_attempts of failed()
  MaxTrouble,   \* bound: crashes, Redis and handler errors, late relays, trims
  EventCost,    \* the part of that bound which raising an event uses up
  Nobody,
  NoEvent

Entry == Event \X (1..Copies)

ASSUME OutboxAssumption ==
  /\ Copies \in Nat /\ MaxTrouble \in Nat /\ EventCost \in Nat
  /\ MaxAttempts \in Nat \ {0}
  /\ \A r \in Relay : IdOf[r] # Nobody
  /\ Nobody \notin Consumer
  /\ NoEvent \notin Event
  /\ IsFiniteSet(Event) /\ IsFiniteSet(Relay)

VARIABLES
  row,          \* [Event -> RowStatus]: tool_outbox.status
  owner,        \* [Event -> Id \cup {Nobody}]: lease_owner
  live,         \* [Event -> BOOLEAN]: lease_expires_at > now
  due,          \* [Event -> BOOLEAN]: available_at <= now
  attempts,     \* [Event -> Nat]
  todo,         \* [Relay -> SUBSET Event]: what is left of the claimed batch
  sending,      \* [Relay -> Event \cup {NoEvent}]
  result,       \* [Relay -> {"none", "ok", "error"}]: how publish() ended
  group,        \* [Entry -> EntryStatus]: the entry in the stream and its consumer group
  gone,         \* entries MAXLEN has trimmed
  keeper,       \* [Entry -> Consumer \cup {Nobody}]: whose pending list it is in
  work,         \* [Consumer -> SUBSET Entry]: messages in a consumer's hands
  done,         \* [Consumer -> SUBSET Entry]: those its handler returned for, not yet acked
  handled,      \* events a handler has processed
  faults

rows == <<row, owner, live, due, attempts>>
relays == <<todo, sending, result>>
stream == <<group, gone, keeper>>
consumers == <<work, done, handled>>
vars == <<rows, relays, stream, consumers, faults>>

RowStatus == {"none", "pending", "leased", "published", "dead", "pruned"}
EntryStatus == {"absent", "queued", "pending", "acked"}

TypeOK ==
  /\ row \in [Event -> RowStatus]
  /\ owner \in [Event -> {IdOf[r] : r \in Relay} \cup {Nobody}]
  /\ \A v \in Event : (owner[v] # Nobody) <=> (row[v] = "leased")
  /\ live \in [Event -> BOOLEAN] /\ due \in [Event -> BOOLEAN]
  /\ attempts \in [Event -> Nat]
  /\ todo \in [Relay -> SUBSET Event]
  /\ sending \in [Relay -> Event \cup {NoEvent}]
  /\ result \in [Relay -> {"none", "ok", "error"}]
  /\ \A r \in Relay : (result[r] # "none") <=> (sending[r] # NoEvent)
  /\ group \in [Entry -> EntryStatus]
  /\ gone \subseteq Entry
  /\ keeper \in [Entry -> Consumer \cup {Nobody}]
  /\ \A x \in Entry : (keeper[x] # Nobody) <=> (group[x] = "pending")
  /\ work \in [Consumer -> SUBSET Entry] /\ done \in [Consumer -> SUBSET Entry]
  /\ \A c \in Consumer : done[c] \subseteq work[c]
  /\ handled \subseteq Event
  /\ faults \in 0..MaxTrouble

Init ==
  /\ row = [v \in Event |-> "none"]
  /\ owner = [v \in Event |-> Nobody]
  /\ live = [v \in Event |-> FALSE] /\ due = [v \in Event |-> TRUE]
  /\ attempts = [v \in Event |-> 0]
  /\ todo = [r \in Relay |-> {}]
  /\ sending = [r \in Relay |-> NoEvent]
  /\ result = [r \in Relay |-> "none"]
  /\ group = [x \in Entry |-> "absent"]
  /\ gone = {}
  /\ keeper = [x \in Entry |-> Nobody]
  /\ work = [c \in Consumer |-> {}] /\ done = [c \in Consumer |-> {}]
  /\ handled = {}
  /\ faults = 0

Trouble == faults + EventCost * Cardinality({v \in Event : row[v] # "none"})

Fault == Trouble < MaxTrouble /\ faults' = faults + 1

-----------------------------------------------------------------------------
(* The rows. *)

(* enqueue_in_transaction: a second row under the same key is not inserted. *)
Enqueue(v) ==
  /\ row[v] = "none"
  /\ Trouble + EventCost <= MaxTrouble
  /\ row' = [row EXCEPT ![v] = "pending"]
  /\ UNCHANGED <<owner, live, due, attempts, relays, stream, consumers, faults>>

ClaimableLeased(v) == due[v] /\ row[v] \in {"pending", "leased"}    \* mutant: takes live leases

Claimable(v) ==
  /\ due[v]
  /\ \/ row[v] = "pending"
     \/ row[v] = "leased" /\ ~live[v]

(* One transaction leases a batch; rows locked by another claim are skipped. *)
Claim(r) ==
  /\ todo[r] = {} /\ sending[r] = NoEvent
  /\ \E batch \in SUBSET {v \in Event : Claimable(v)} :
       /\ batch # {}
       /\ row' = [v \in Event |-> IF v \in batch THEN "leased" ELSE row[v]]
       /\ owner' = [v \in Event |-> IF v \in batch THEN IdOf[r] ELSE owner[v]]
       /\ live' = [v \in Event |-> v \in batch \/ live[v]]
       /\ attempts' = [v \in Event |-> IF v \in batch THEN attempts[v] + 1 ELSE attempts[v]]
       /\ todo' = [todo EXCEPT ![r] = batch]
  /\ UNCHANGED <<due, sending, result, stream, consumers, faults>>

OwnsUnchecked(r, v) == TRUE    \* mutant of Owns: published and failed trust their caller

Owns(r, v) == row[v] = "leased" /\ owner[v] = IdOf[r]

-----------------------------------------------------------------------------
(* The relay: OutboxRelay.once over its batch. *)

(* XADD.  The stream takes the entry or not, and the caller hears of it or gets an error. *)
Publish(r, v) ==
  /\ v \in todo[r] /\ sending[r] = NoEvent
  /\ sending' = [sending EXCEPT ![r] = v]
  /\ todo' = [todo EXCEPT ![r] = @ \ {v}]
  /\ \E added, heard \in BOOLEAN :
       /\ heard => added
       /\ IF heard THEN UNCHANGED faults ELSE Fault
       /\ result' = [result EXCEPT ![r] = IF heard THEN "ok" ELSE "error"]
       /\ IF added
          THEN \E k \in 1..Copies :
                 /\ \A j \in 1..Copies : (group[<<v, j>>] = "absent") <=> (j >= k)
                 /\ group' = [group EXCEPT ![<<v, k>>] = "queued"]
          ELSE UNCHANGED group
  /\ UNCHANGED <<rows, gone, keeper, consumers>>

NextEvent(r) ==
  /\ sending' = [sending EXCEPT ![r] = NoEvent]
  /\ result' = [result EXCEPT ![r] = "none"]

Unlease(v, status) ==
  /\ row' = [row EXCEPT ![v] = status]
  /\ owner' = [owner EXCEPT ![v] = Nobody]
  /\ live' = [live EXCEPT ![v] = FALSE]

(* ToolOutboxRepository.published. *)
RecordPublished(r) ==
  LET v == sending[r]
  IN /\ result[r] = "ok"
     /\ Owns(r, v)
     /\ Unlease(v, "published")
     /\ NextEvent(r)
     /\ UNCHANGED <<due, attempts, todo, stream, consumers, faults>>

FailedAsPublished(r) ==    \* mutant of RecordFailed: the event is not offered again
  LET v == sending[r]
  IN /\ result[r] = "error"
     /\ Owns(r, v)
     /\ Unlease(v, "published")
     /\ NextEvent(r)
     /\ UNCHANGED <<due, attempts, todo, stream, consumers, faults>>

(* ToolOutboxRepository.failed: back off, or give up. *)
RecordFailed(r) ==
  LET v == sending[r]
  IN /\ result[r] = "error"
     /\ Owns(r, v)
     /\ IF attempts[v] >= MaxAttempts
        THEN Unlease(v, "dead") /\ UNCHANGED due
        ELSE Unlease(v, "pending") /\ due' = [due EXCEPT ![v] = FALSE]
     /\ NextEvent(r)
     /\ UNCHANGED <<attempts, todo, stream, consumers, faults>>

(* A lease lost in between is a PermissionError out of once(): the loop goes on with
   the next tenant and the rest of the batch keeps its leases. *)
LeaseLost(r) ==
  /\ sending[r] # NoEvent /\ ~Owns(r, sending[r])
  /\ todo' = [todo EXCEPT ![r] = {}]
  /\ NextEvent(r)
  /\ UNCHANGED <<rows, stream, consumers, faults>>

RelayCrash(r) ==
  /\ todo[r] # {} \/ sending[r] # NoEvent
  /\ Fault
  /\ todo' = [todo EXCEPT ![r] = {}]
  /\ NextEvent(r)
  /\ UNCHANGED <<rows, stream, consumers>>

(* The sweep removes a delivered row that is past its retention. *)
Prune(v) ==
  /\ row[v] = "published"
  /\ row' = [row EXCEPT ![v] = "pruned"]
  /\ UNCHANGED <<owner, live, due, attempts, relays, stream, consumers, faults>>

InHand(v) == \E r \in Relay : v \in todo[r] \cup {sending[r]} /\ owner[v] = IdOf[r]

(* The clock passes a lease's expiry: late while its relay is still at it. *)
Lapse(v) ==
  /\ row[v] = "leased" /\ live[v]
  /\ live' = [live EXCEPT ![v] = FALSE]
  /\ IF InHand(v) THEN Fault ELSE UNCHANGED faults
  /\ UNCHANGED <<row, owner, due, attempts, relays, stream, consumers>>

BackoffEnds(v) ==
  /\ ~due[v]
  /\ due' = [due EXCEPT ![v] = TRUE]
  /\ UNCHANGED <<row, owner, live, attempts, relays, stream, consumers, faults>>

-----------------------------------------------------------------------------
(* The consumer group. *)

Assign(c, taken) ==
  /\ group' = [x \in Entry |-> IF x \in taken THEN "pending" ELSE group[x]]
  /\ keeper' = [x \in Entry |-> IF x \in taken THEN c ELSE keeper[x]]
  /\ work' = [work EXCEPT ![c] = taken]

(* XREADGROUP ">": entries no member has seen. *)
Read(c) ==
  /\ work[c] = {}
  /\ \E taken \in SUBSET {x \in Entry : group[x] = "queued" /\ x \notin gone} :
       taken # {} /\ Assign(c, taken)
  /\ UNCHANGED <<rows, relays, gone, done, handled, faults>>

(* A pending entry may be claimed once it has idled for min_idle_ms: never while its
   keeper is at it, unless that one is late. *)
Late(x) == \E c \in Consumer : x \in work[c]

ReclaimUndelivered(c) ==    \* mutant of Reclaim: it moves the messages and counts them
  /\ work[c] = {}
  /\ \E taken \in SUBSET {x \in Entry : group[x] = "pending" /\ ~Late(x)} :
       /\ taken # {}
       /\ keeper' = [x \in Entry |-> IF x \in taken THEN c ELSE keeper[x]]
  /\ UNCHANGED <<rows, relays, group, gone, work, done, handled, faults>>

(* RedisStreamConsumer.reclaim; an entry whose payload is gone has nothing to handle
   and is acknowledged. *)
Reclaim(c) ==
  /\ work[c] = {}
  /\ \E idle \in SUBSET {x \in Entry : group[x] = "pending"} :
       /\ idle # {}
       /\ IF \E x \in idle : Late(x) THEN Fault ELSE UNCHANGED faults
       /\ group' = [x \in Entry |-> IF x \in idle \cap gone THEN "acked" ELSE group[x]]
       /\ keeper' = [x \in Entry |->
            IF x \in idle THEN (IF x \in gone THEN Nobody ELSE c) ELSE keeper[x]]
       /\ work' = [work EXCEPT ![c] = idle \ gone]
  /\ UNCHANGED <<rows, relays, gone, done, handled>>

(* The handler returns. *)
Handle(c, x) ==
  /\ x \in work[c] /\ done[c] = {}
  /\ handled' = handled \cup {x[1]}
  /\ done' = [done EXCEPT ![c] = {x}]
  /\ UNCHANGED <<rows, relays, stream, work, faults>>

AckUnhandled(c, x) ==    \* mutant of Ack: acknowledged before the handler
  /\ x \in work[c]
  /\ group' = [group EXCEPT ![x] = "acked"]
  /\ keeper' = [keeper EXCEPT ![x] = Nobody]
  /\ work' = [work EXCEPT ![c] = @ \ {x}]
  /\ done' = [done EXCEPT ![c] = @ \ {x}]
  /\ UNCHANGED <<rows, relays, gone, handled, faults>>

(* XACK removes the message from the group's pending list, whoever keeps it. *)
Ack(c, x) ==
  /\ x \in done[c]
  /\ group' = [group EXCEPT ![x] = "acked"]
  /\ keeper' = [keeper EXCEPT ![x] = Nobody]
  /\ work' = [work EXCEPT ![c] = @ \ {x}]
  /\ done' = [done EXCEPT ![c] = {}]
  /\ UNCHANGED <<rows, relays, gone, handled, faults>>

(* The handler raises or the consumer dies, before or after the handler's effect: its
   messages stay pending. *)
ConsumerFails(c) ==
  /\ work[c] # {}
  /\ Fault
  /\ work' = [work EXCEPT ![c] = {}]
  /\ done' = [done EXCEPT ![c] = {}]
  /\ UNCHANGED <<rows, relays, stream, handled>>

(* MAXLEN drops the payload; the pending list still knows the entry. *)
Trim(x) ==
  /\ group[x] # "absent" /\ x \notin gone
  /\ Fault
  /\ gone' = gone \cup {x}
  /\ UNCHANGED <<rows, relays, group, keeper, consumers>>

-----------------------------------------------------------------------------
RelayStep(r) ==
  \/ \E v \in Event : Publish(r, v)
  \/ RecordPublished(r) \/ RecordFailed(r) \/ LeaseLost(r)

ConsumerStep(c) == Read(c) \/ \E x \in Entry : Handle(c, x) \/ Ack(c, x)

Next ==
  \/ \E v \in Event : Enqueue(v) \/ Prune(v) \/ Lapse(v) \/ BackoffEnds(v)
  \/ \E r \in Relay : Claim(r) \/ RelayStep(r) \/ RelayCrash(r)
  \/ \E c \in Consumer : ConsumerStep(c) \/ Reclaim(c) \/ ConsumerFails(c)
  \/ \E x \in Entry : Trim(x)

Spec == Init /\ [][Next]_vars

(* The relay loop and a consumer's two read paths run for ever; clocks move. *)
Fairness ==
  /\ \A r \in Relay : WF_vars(RelayStep(r)) /\ WF_vars(Claim(r))
  /\ \A c \in Consumer : WF_vars(ConsumerStep(c)) /\ WF_vars(UNCHANGED faults /\ Reclaim(c))
  /\ \A v \in Event : WF_vars(BackoffEnds(v)) /\ WF_vars(~InHand(v) /\ Lapse(v))

FairSpec == Spec /\ Fairness
=============================================================================
