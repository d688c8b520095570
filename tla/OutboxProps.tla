---------------------------- MODULE OutboxProps ----------------------------
(***************************************************************************)
(* What event delivery promises: the docstrings of reliability/outbox.py   *)
(* ("At-least-once consumer with PEL recovery") stated of the rows, the    *)
(* stream and the consumer group together.                                 *)
(***************************************************************************)
EXTENDS Outbox

Sent(v) == {x \in Entry : x[1] = v /\ group[x] # "absent"}

(* An event is sent twice only because something went wrong: each copy after the first
   is paid for by a crash, a late relay or an unheard XADD.  Two relays that are on
   time never send the same event (the leases of claim). *)
DuplicatesNeedAFault ==
  \A v \in Event : Cardinality(Sent(v)) <= 1 + faults

(* An acknowledged message was handled, or its payload had been trimmed: what the
   docstring of RedisStreamConsumer calls at-least-once. *)
AckedWasHandled ==
  \A x \in Entry : group[x] = "acked" => x[1] \in handled \/ x \in gone

(* A row ends once, and as published only when an entry of its event reached the
   stream: whichever relay wrote it, however late, and under a worker id another process
   shares (lease check of published and failed; the docstring of prune_published:
   "delivery happened when the event reached the stream"). *)
RowsEndOnce ==
  [][\A v \in Event :
       /\ row[v] \in {"published", "dead"} => row'[v] \in {row[v], "pruned"}
       /\ row'[v] = "published" => Sent(v)' # {}]_vars

(* Every event that was raised arrives: its row ends published, or dead after its
   attempts, and what was sent of it is handled by some consumer, unless every entry of
   it is trimmed first.  No crash leaves a row leased for ever (claim takes expired
   leases), and no consumer that dies keeps the messages it had in hand (reclaim). *)
EventsArrive ==
  \A v \in Event :
    row[v] = "pending" ~>
      /\ row[v] \in {"published", "dead", "pruned"}
      /\ v \in handled \/ Sent(v) \subseteq gone

(* The rows without their leases, and the stream without its pending lists. *)
Stage == [v \in Event |-> IF row[v] \in {"pending", "leased"} THEN "offered" ELSE row[v]]
InStream == {x \in Entry : group[x] # "absent"}
Acked == {x \in Entry : group[x] = "acked"}

Delivery == INSTANCE EventDelivery WITH
  Copy <- 1..Copies, stage <- Stage, sent <- InStream, closed <- Acked, lost <- gone

(* Rows, relays, the stream and its consumers together deliver every event at least once, as
   if there were no leases to lose and no members to die: a row ends as published only with a
   copy in the stream, only what is in the stream is handled, and a message is closed only
   when its event was handled or its payload is gone. *)
ImplementsEventDelivery == Delivery!Spec
=============================================================================
