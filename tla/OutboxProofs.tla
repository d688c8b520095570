---------------------------- MODULE OutboxProofs ----------------------------
(* Proofs about Outbox, for any number of events, relays and consumers, and *)
(* for every assignment of worker ids to relays.                           *)
EXTENDS OutboxProps, FiniteSetTheorems, TLAPS

-----------------------------------------------------------------------------
(* Types. *)

(* What a fault costs keeps the bound: the part that events have used up is a number. *)
LEMMA TroubleIsCounted ==
  ASSUME faults \in Nat
  PROVE  /\ EventCost * Cardinality({v \in Event : row[v] # "none"}) \in Nat
         /\ Trouble < MaxTrouble => faults + 1 \in 0..MaxTrouble
<1> DEFINE raised == {v \in Event : row[v] # "none"}
<1>1. Cardinality(raised) \in Nat
  BY OutboxAssumption, FS_Subset, FS_CardinalityType DEF OutboxAssumption
<1>2. EventCost * Cardinality(raised) \in Nat
  BY <1>1, OutboxAssumption DEF OutboxAssumption
<1> QED
  BY <1>2, OutboxAssumption DEF Trouble, OutboxAssumption

LEMMA FaultType ==
  ASSUME TypeOK, Fault
  PROVE  faults' \in 0..MaxTrouble /\ faults' = faults + 1
<1>1. faults \in Nat
  BY DEF TypeOK
<1> QED
  BY <1>1, TroubleIsCounted DEF Fault

LEMMA NextType == TypeOK /\ [Next]_vars => TypeOK'
<1> SUFFICES ASSUME TypeOK, [Next]_vars PROVE TypeOK'
  OBVIOUS
<1> USE OutboxAssumption DEF TypeOK, OutboxAssumption, rows, relays, stream, consumers,
     RowStatus, EntryStatus
<1>1. CASE UNCHANGED vars
  BY <1>1 DEF vars
<1>2. ASSUME NEW v \in Event, Enqueue(v) PROVE TypeOK'
  BY <1>2 DEF Enqueue
<1>3. ASSUME NEW v \in Event, Prune(v) PROVE TypeOK'
  BY <1>3 DEF Prune
<1>4. ASSUME NEW v \in Event, Lapse(v) PROVE TypeOK'
  BY <1>4, FaultType DEF Lapse
<1>5. ASSUME NEW v \in Event, BackoffEnds(v) PROVE TypeOK'
  BY <1>5 DEF BackoffEnds
<1>6. ASSUME NEW r \in Relay, Claim(r) PROVE TypeOK'
  <2>1. PICK batch \in SUBSET {v \in Event : Claimable(v)} :
          /\ row' = [v \in Event |-> IF v \in batch THEN "leased" ELSE row[v]]
          /\ owner' = [v \in Event |-> IF v \in batch THEN IdOf[r] ELSE owner[v]]
          /\ live' = [v \in Event |-> v \in batch \/ live[v]]
          /\ attempts' = [v \in Event |-> IF v \in batch THEN attempts[v] + 1 ELSE attempts[v]]
          /\ todo' = [todo EXCEPT ![r] = batch]
    BY <1>6 DEF Claim
  <2>2. live' \in [Event -> BOOLEAN]
    BY <2>1, Zenon
  <2>3. attempts' \in [Event -> Nat] /\ todo' \in [Relay -> SUBSET Event]
    BY <2>1
  <2>4. /\ row' \in [Event -> RowStatus]
        /\ owner' \in [Event -> {IdOf[q] : q \in Relay} \cup {Nobody}]
        /\ \A v \in Event : (owner'[v] # Nobody) <=> (row'[v] = "leased")
    BY <2>1
  <2>5. UNCHANGED <<due, sending, result, group, gone, keeper, work, done, handled, faults>>
    BY <1>6 DEF Claim
  <2> QED
    BY <2>2, <2>3, <2>4, <2>5
<1>7. ASSUME NEW r \in Relay, NEW v \in Event, Publish(r, v) PROVE TypeOK'
  <2>1. /\ sending' = [sending EXCEPT ![r] = v]
        /\ todo' = [todo EXCEPT ![r] = @ \ {v}]
        /\ UNCHANGED <<row, owner, live, due, attempts, gone, keeper, work, done, handled>>
    BY <1>7 DEF Publish
  <2>2. /\ result' \in [Relay -> {"none", "ok", "error"}] /\ faults' \in 0..MaxTrouble
        /\ \A q \in Relay : (result'[q] # "none") <=> (sending'[q] # NoEvent)
    BY <1>7, FaultType DEF Publish
  <2>3. /\ group' \in [Entry -> EntryStatus]
        /\ \A x \in Entry : (keeper[x] # Nobody) <=> (group'[x] = "pending")
    <3>1. CASE UNCHANGED group
      BY <3>1
    <3>2. ASSUME NEW k \in 1..Copies,
                 \A j \in 1..Copies : (group[<<v, j>>] = "absent") <=> (j >= k),
                 group' = [group EXCEPT ![<<v, k>>] = "queued"]
          PROVE  /\ group' \in [Entry -> EntryStatus]
                 /\ \A x \in Entry : (keeper[x] # Nobody) <=> (group'[x] = "pending")
      <4>1. <<v, k>> \in Entry
        BY DEF Entry
      <4>2. group[<<v, k>>] = "absent"
        BY <3>2
      <4> QED
        BY <3>2, <4>1, <4>2
    <3> QED
      BY <1>7, <3>1, <3>2 DEF Publish
  <2> QED
    BY <2>1, <2>2, <2>3
<1>8. ASSUME NEW r \in Relay, RecordPublished(r) PROVE TypeOK'
  <2>1. sending[r] \in Event
    BY <1>8 DEF RecordPublished
  <2> QED
    BY <1>8, <2>1 DEF RecordPublished, Unlease, NextEvent
<1>9. ASSUME NEW r \in Relay, RecordFailed(r) PROVE TypeOK'
  <2>1. sending[r] \in Event
    BY <1>9 DEF RecordFailed
  <2>2. /\ row' \in [Event -> RowStatus]
        /\ owner' \in [Event -> {IdOf[q] : q \in Relay} \cup {Nobody}]
        /\ \A v \in Event : (owner'[v] # Nobody) <=> (row'[v] = "leased")
    BY <1>9, <2>1 DEF RecordFailed, Unlease
  <2>3. live' \in [Event -> BOOLEAN] /\ due' \in [Event -> BOOLEAN]
    BY <1>9, <2>1 DEF RecordFailed, Unlease
  <2>4. sending' \in [Relay -> Event \cup {NoEvent}]
        /\ result' \in [Relay -> {"none", "ok", "error"}]
        /\ \A q \in Relay : (result'[q] # "none") <=> (sending'[q] # NoEvent)
    BY <1>9 DEF RecordFailed, NextEvent
  <2>5. UNCHANGED <<attempts, todo, group, gone, keeper, work, done, handled, faults>>
    BY <1>9 DEF RecordFailed
  <2> QED
    BY <2>2, <2>3, <2>4, <2>5
<1>10. ASSUME NEW r \in Relay, LeaseLost(r) PROVE TypeOK'
  BY <1>10 DEF LeaseLost, NextEvent
<1>11. ASSUME NEW r \in Relay, RelayCrash(r) PROVE TypeOK'
  BY <1>11, FaultType DEF RelayCrash, NextEvent
<1>12. ASSUME NEW c \in Consumer, Read(c) PROVE TypeOK'
  BY <1>12 DEF Read, Assign
<1>13. ASSUME NEW c \in Consumer, Reclaim(c) PROVE TypeOK'
  BY <1>13, FaultType DEF Reclaim
<1>14. ASSUME NEW c \in Consumer, NEW x \in Entry, Handle(c, x) PROVE TypeOK'
  BY <1>14 DEF Handle, Entry
<1>15. ASSUME NEW c \in Consumer, NEW x \in Entry, Ack(c, x) PROVE TypeOK'
  BY <1>15 DEF Ack
<1>16. ASSUME NEW c \in Consumer, ConsumerFails(c) PROVE TypeOK'
  BY <1>16, FaultType DEF ConsumerFails
<1>17. ASSUME NEW x \in Entry, Trim(x) PROVE TypeOK'
  BY <1>17, FaultType DEF Trim
<1> QED
  BY <1>1, <1>2, <1>3, <1>4, <1>5, <1>6, <1>7, <1>8, <1>9, <1>10, <1>11, <1>12, <1>13, <1>14,
     <1>15, <1>16, <1>17 DEF Next, RelayStep, ConsumerStep

LEMMA InitType == Init => TypeOK
BY OutboxAssumption DEF Init, TypeOK, OutboxAssumption, RowStatus, EntryStatus

(* Rows, leases, batches, the stream and its pending lists keep their types; a row has an
   owner exactly while it is leased, an entry a keeper exactly while it is pending. *)
THEOREM TypeCorrect == Spec => []TypeOK
BY InitType, NextType, PTL DEF Spec

-----------------------------------------------------------------------------
(* Who writes what: the relays and the rows never touch the stream, XADD apart; the
   consumers and the trimming never touch the rows and the relays. *)

RowSide ==
  \/ \E v \in Event : Enqueue(v) \/ Prune(v) \/ Lapse(v) \/ BackoffEnds(v)
  \/ \E r \in Relay : Claim(r) \/ RecordPublished(r) \/ RecordFailed(r) \/ LeaseLost(r)
                      \/ RelayCrash(r)

StreamSide ==
  \/ \E c \in Consumer : ConsumerStep(c) \/ Reclaim(c) \/ ConsumerFails(c)
  \/ \E x \in Entry : Trim(x)

LEMMA Sides ==
  Next => RowSide \/ StreamSide \/ \E r \in Relay, v \in Event : Publish(r, v)
BY DEF Next, RelayStep, RowSide, StreamSide

LEMMA RowSideKeepsStream == RowSide => UNCHANGED <<stream, consumers>>
BY DEF RowSide, Enqueue, Prune, Lapse, BackoffEnds, Claim, RecordPublished, RecordFailed,
   LeaseLost, RelayCrash, stream, consumers

LEMMA StreamSideKeepsRows == StreamSide => UNCHANGED <<rows, relays>>
BY DEF StreamSide, ConsumerStep, Read, Handle, Ack, Reclaim, ConsumerFails, Trim, rows, relays

LEMMA SentUnchanged == UNCHANGED group => \A v \in Event : Sent(v)' = Sent(v)
BY DEF Sent

(* What a consumer has in its hands is in the stream.  It need not be pending any more:
   another member may have taken it over and acknowledged it. *)
WorkWasSent == \A c \in Consumer : \A x \in work[c] : group[x] # "absent"

LEMMA NextWork == TypeOK /\ WorkWasSent /\ [Next]_vars => WorkWasSent'
<1> SUFFICES ASSUME TypeOK, WorkWasSent, [Next]_vars PROVE WorkWasSent'
  OBVIOUS
<1> USE DEF TypeOK, WorkWasSent
<1>1. CASE UNCHANGED vars
  BY <1>1 DEF vars, stream, consumers
<1>2. CASE RowSide
  BY <1>2, RowSideKeepsStream DEF stream, consumers
<1>3. ASSUME NEW r \in Relay, NEW v \in Event, Publish(r, v) PROVE WorkWasSent'
  BY <1>3 DEF Publish, consumers
<1>4. ASSUME NEW c \in Consumer, Read(c) PROVE WorkWasSent'
  BY <1>4 DEF Read, Assign
<1>5. ASSUME NEW c \in Consumer, NEW y \in Entry, Handle(c, y) PROVE WorkWasSent'
  BY <1>5 DEF Handle, stream
<1>6. ASSUME NEW c \in Consumer, NEW y \in Entry, Ack(c, y) PROVE WorkWasSent'
  BY <1>6 DEF Ack
<1>7. ASSUME NEW c \in Consumer, Reclaim(c) PROVE WorkWasSent'
  BY <1>7 DEF Reclaim
<1>8. ASSUME NEW c \in Consumer, ConsumerFails(c) PROVE WorkWasSent'
  BY <1>8 DEF ConsumerFails, stream
<1>9. ASSUME NEW x \in Entry, Trim(x) PROVE WorkWasSent'
  BY <1>9 DEF Trim, consumers
<1> QED
  BY <1>1, <1>2, <1>3, <1>4, <1>5, <1>6, <1>7, <1>8, <1>9, Sides DEF StreamSide, ConsumerStep

(* Only XADD puts an entry in the stream, and none leaves it. *)
LEMMA StreamSideKeepsSent ==
  ASSUME TypeOK, WorkWasSent, StreamSide
  PROVE  \A v \in Event : Sent(v)' = Sent(v)
<1> SUFFICES \A x \in Entry : (group'[x] = "absent") <=> (group[x] = "absent")
  BY DEF Sent
<1> USE DEF TypeOK, WorkWasSent, EntryStatus
<1>1. ASSUME NEW c \in Consumer, Read(c)
      PROVE  \A x \in Entry : (group'[x] = "absent") <=> (group[x] = "absent")
  BY <1>1 DEF Read, Assign
<1>2. ASSUME NEW c \in Consumer, NEW y \in Entry, Handle(c, y) PROVE UNCHANGED group
  BY <1>2 DEF Handle, stream
<1>3. ASSUME NEW c \in Consumer, NEW y \in Entry, Ack(c, y)
      PROVE  group[y] # "absent" /\ group' = [group EXCEPT ![y] = "acked"]
  BY <1>3 DEF Ack
<1>4. ASSUME NEW c \in Consumer, Reclaim(c)
      PROVE  \A x \in Entry : (group'[x] = "absent") <=> (group[x] = "absent")
  BY <1>4 DEF Reclaim
<1>5. ASSUME NEW c \in Consumer, ConsumerFails(c) PROVE UNCHANGED group
  BY <1>5 DEF ConsumerFails, stream
<1>6. ASSUME NEW x \in Entry, Trim(x) PROVE UNCHANGED group
  BY <1>6 DEF Trim
<1> QED
  BY <1>1, <1>2, <1>3, <1>4, <1>5, <1>6 DEF StreamSide, ConsumerStep

-----------------------------------------------------------------------------
(* At least once. *)

(* What a handler has returned for is handled, and stays so. *)
DoneWasHandled == \A c \in Consumer : \A x \in done[c] : x[1] \in handled

LEMMA NextAcked ==
  TypeOK /\ DoneWasHandled /\ AckedWasHandled /\ [Next]_vars
    => DoneWasHandled' /\ AckedWasHandled'
<1> SUFFICES ASSUME TypeOK, DoneWasHandled, AckedWasHandled, [Next]_vars
             PROVE  DoneWasHandled' /\ AckedWasHandled'
  OBVIOUS
<1> USE DEF TypeOK, DoneWasHandled, AckedWasHandled
<1>1. CASE UNCHANGED vars
  BY <1>1 DEF vars, stream, consumers
<1>2. CASE RowSide
  BY <1>2, RowSideKeepsStream DEF stream, consumers
<1>3. ASSUME NEW r \in Relay, NEW v \in Event, Publish(r, v)
      PROVE  DoneWasHandled' /\ AckedWasHandled'
  BY <1>3 DEF Publish, consumers
<1>4. ASSUME NEW c \in Consumer, Read(c) PROVE DoneWasHandled' /\ AckedWasHandled'
  BY <1>4 DEF Read, Assign
<1>5. ASSUME NEW c \in Consumer, NEW y \in Entry, Handle(c, y)
      PROVE  DoneWasHandled' /\ AckedWasHandled'
  BY <1>5 DEF Handle, stream
<1>6. ASSUME NEW c \in Consumer, NEW y \in Entry, Ack(c, y)
      PROVE  DoneWasHandled' /\ AckedWasHandled'
  BY <1>6 DEF Ack
<1>7. ASSUME NEW c \in Consumer, Reclaim(c) PROVE DoneWasHandled' /\ AckedWasHandled'
  BY <1>7 DEF Reclaim
<1>8. ASSUME NEW c \in Consumer, ConsumerFails(c) PROVE DoneWasHandled' /\ AckedWasHandled'
  BY <1>8 DEF ConsumerFails, stream
<1>9. ASSUME NEW x \in Entry, Trim(x) PROVE DoneWasHandled' /\ AckedWasHandled'
  BY <1>9 DEF Trim, consumers
<1> QED
  BY <1>1, <1>2, <1>3, <1>4, <1>5, <1>6, <1>7, <1>8, <1>9, Sides DEF StreamSide, ConsumerStep

(* No message is acknowledged before a handler has returned for its event, whatever
   crashes and however often it is reclaimed; only trimming loses one. *)
THEOREM AckedEventsWereHandled == Spec => []AckedWasHandled
<1>1. Init => TypeOK /\ DoneWasHandled /\ AckedWasHandled
  BY InitType DEF Init, DoneWasHandled, AckedWasHandled
<1> QED
  BY <1>1, NextType, NextAcked, PTL DEF Spec

-----------------------------------------------------------------------------
(* How a row ends. *)

(* A relay that heard of its XADD has an entry to show for it, and so has a row that is
   published. *)
HeardWasSent ==
  /\ \A r \in Relay, v \in Event : result[r] = "ok" /\ sending[r] = v => Sent(v) # {}
  /\ \A v \in Event : row[v] = "published" => Sent(v) # {}

LEMMA PublishSends ==
  ASSUME TypeOK, NEW r \in Relay, NEW v \in Event, Publish(r, v)
  PROVE  /\ \A w \in Event : Sent(w) \subseteq Sent(w)'
         /\ result'[r] = "ok" => Sent(v)' # {}
<1>1. CASE UNCHANGED group
  <2>1. result'[r] = "ok" => \E k \in 1..Copies : group' = [group EXCEPT ![<<v, k>>] = "queued"]
    BY <1>1 DEF Publish, TypeOK
  <2>2. ASSUME NEW k \in 1..Copies, group' = [group EXCEPT ![<<v, k>>] = "queued"]
        PROVE  <<v, k>> \in Sent(v)'
    BY <2>2 DEF Sent, Entry, TypeOK
  <2> QED
    BY <1>1, <2>1, <2>2, SentUnchanged
<1>2. ASSUME NEW k \in 1..Copies, group' = [group EXCEPT ![<<v, k>>] = "queued"]
      PROVE  (\A w \in Event : Sent(w) \subseteq Sent(w)') /\ <<v, k>> \in Sent(v)'
  BY <1>2 DEF Sent, Entry, TypeOK
<1> QED
  BY <1>1, <1>2 DEF Publish

LEMMA NextSent ==
  ASSUME TypeOK, WorkWasSent, [Next]_vars
  PROVE  \A w \in Event : Sent(w) \subseteq Sent(w)'
<1>1. CASE UNCHANGED vars
  BY <1>1, SentUnchanged DEF vars, stream
<1>2. CASE RowSide
  BY <1>2, RowSideKeepsStream, SentUnchanged DEF stream
<1>3. CASE StreamSide
  BY <1>3, StreamSideKeepsSent
<1>4. ASSUME NEW r \in Relay, NEW v \in Event, Publish(r, v)
      PROVE  \A w \in Event : Sent(w) \subseteq Sent(w)'
  BY <1>4, PublishSends
<1> QED
  BY <1>1, <1>2, <1>3, <1>4, Sides

(* Every status a step gives a row, and the only writer of "published": a relay that holds
   the row's lease and heard of its XADD. *)
LEMMA RowWrites ==
  ASSUME TypeOK, [Next]_vars, NEW v \in Event
  PROVE  /\ row[v] \in {"published", "dead"} => row'[v] \in {row[v], "pruned"}
         /\ row'[v] = "published" =>
              \/ row[v] = "published"
              \/ \E r \in Relay : sending[r] = v /\ result[r] = "ok"
<1> DEFINE Goal == /\ row[v] \in {"published", "dead"} => row'[v] \in {row[v], "pruned"}
                   /\ row'[v] = "published" =>
                        \/ row[v] = "published"
                        \/ \E r \in Relay : sending[r] = v /\ result[r] = "ok"
<1> USE DEF TypeOK
<1>1. CASE UNCHANGED row
  BY <1>1
<1>2. CASE UNCHANGED vars
  BY <1>1, <1>2 DEF vars, rows
<1>3. CASE StreamSide
  BY <1>1, <1>3, StreamSideKeepsRows DEF rows
<1>4. ASSUME NEW r \in Relay, NEW w \in Event, Publish(r, w) PROVE Goal
  BY <1>1, <1>4 DEF Publish, rows
<1>5. ASSUME NEW w \in Event, Enqueue(w) \/ Prune(w) PROVE Goal
  BY <1>5 DEF Enqueue, Prune
<1>6. ASSUME NEW w \in Event, Lapse(w) \/ BackoffEnds(w) PROVE UNCHANGED row
  BY <1>6 DEF Lapse, BackoffEnds
<1>7. ASSUME NEW r \in Relay, Claim(r) PROVE Goal
  BY <1>7 DEF Claim, Claimable
<1>8. ASSUME NEW r \in Relay, RecordPublished(r) PROVE Goal
  BY <1>8 DEF RecordPublished, Owns, Unlease
<1>9. ASSUME NEW r \in Relay, RecordFailed(r) PROVE Goal
  BY <1>9 DEF RecordFailed, Owns, Unlease
<1>10. ASSUME NEW r \in Relay, LeaseLost(r) \/ RelayCrash(r) PROVE UNCHANGED row
  BY <1>10 DEF LeaseLost, RelayCrash, rows
<1> QED
  BY <1>1, <1>2, <1>3, <1>4, <1>5, <1>6, <1>7, <1>8, <1>9, <1>10, Sides DEF RowSide

(* Every way a relay comes to have an event whose XADD it heard of. *)
LEMMA ResultWrites ==
  ASSUME TypeOK, [Next]_vars, NEW r \in Relay, result'[r] = "ok"
  PROVE  \/ result[r] = "ok" /\ sending'[r] = sending[r]
         \/ \E v \in Event : Publish(r, v) /\ sending'[r] = v
<1> DEFINE Goal == \/ result[r] = "ok" /\ sending'[r] = sending[r]
                   \/ \E v \in Event : Publish(r, v) /\ sending'[r] = v
<1> USE DEF TypeOK
<1>1. CASE UNCHANGED <<sending, result>>
  BY <1>1
<1>2. CASE UNCHANGED vars
  BY <1>1, <1>2 DEF vars, relays
<1>3. CASE StreamSide
  BY <1>1, <1>3, StreamSideKeepsRows DEF relays
<1>4. ASSUME NEW q \in Relay, NEW w \in Event, Publish(q, w) PROVE Goal
  BY <1>4 DEF Publish
<1>5. ASSUME NEW w \in Event, Enqueue(w) \/ Prune(w) \/ Lapse(w) \/ BackoffEnds(w)
      PROVE  UNCHANGED <<sending, result>>
  BY <1>5 DEF Enqueue, Prune, Lapse, BackoffEnds, relays
<1>6. ASSUME NEW q \in Relay, Claim(q) PROVE UNCHANGED <<sending, result>>
  BY <1>6 DEF Claim
<1>7. ASSUME NEW q \in Relay, NextEvent(q) PROVE Goal
  BY <1>7 DEF NextEvent
<1>8. ASSUME NEW q \in Relay,
             RecordPublished(q) \/ RecordFailed(q) \/ LeaseLost(q) \/ RelayCrash(q)
      PROVE  NextEvent(q)
  BY <1>8 DEF RecordPublished, RecordFailed, LeaseLost, RelayCrash
<1> QED
  BY <1>1, <1>2, <1>3, <1>4, <1>5, <1>6, <1>7, <1>8, Sides DEF RowSide

LEMMA NextHeard ==
  TypeOK /\ WorkWasSent /\ HeardWasSent /\ [Next]_vars => HeardWasSent'
<1> SUFFICES ASSUME TypeOK, WorkWasSent, HeardWasSent, [Next]_vars PROVE HeardWasSent'
  OBVIOUS
<1>1. ASSUME NEW r \in Relay, NEW v \in Event, result'[r] = "ok", sending'[r] = v
      PROVE  Sent(v)' # {}
  <2>1. CASE result[r] = "ok" /\ sending'[r] = sending[r]
    BY <1>1, <2>1, NextSent DEF HeardWasSent
  <2>2. CASE Publish(r, v)
    BY <1>1, <2>2, PublishSends
  <2> QED
    BY <1>1, <2>1, <2>2, ResultWrites
<1>2. ASSUME NEW v \in Event, row'[v] = "published" PROVE Sent(v)' # {}
  <2>1. Sent(v) # {}
    BY <1>2, RowWrites DEF HeardWasSent
  <2> QED
    BY <2>1, NextSent
<1> QED
  BY <1>1, <1>2 DEF HeardWasSent

LEMMA InitSent == Init => WorkWasSent /\ HeardWasSent
BY DEF Init, WorkWasSent, HeardWasSent

(* A row that is published or dead is never written again but by the sweep, and none is
   published without an entry in the stream: a late relay, or one that shares its worker id
   with another, cannot do it. *)
THEOREM RowsEnd == Spec => RowsEndOnce
<1> DEFINE EndsOnce ==
      \A v \in Event :
        /\ row[v] \in {"published", "dead"} => row'[v] \in {row[v], "pruned"}
        /\ row'[v] = "published" => Sent(v)' # {}
<1>1. TypeOK /\ WorkWasSent /\ HeardWasSent /\ [Next]_vars => [EndsOnce]_vars
  BY NextHeard, RowWrites DEF HeardWasSent
<1>2. Spec => []TypeOK /\ [](WorkWasSent /\ HeardWasSent) /\ [][Next]_vars
  BY InitType, InitSent, NextType, NextWork, NextHeard, PTL DEF Spec
<1>3. Spec => [][EndsOnce]_vars
  BY <1>1, <1>2, PTL
<1> QED
  BY <1>3 DEF RowsEndOnce

-----------------------------------------------------------------------------
(* Duplicates.  The copies of an event that are in the stream, the relays that still have
   it in their hands or have it to report as failed, and one more while the row is open to
   a claim, are together at most one more than the faults. *)

Holding(v) == {r \in Relay : v \in todo[r] \/ (sending[r] = v /\ result[r] = "error")}

Open(v) ==
  \/ row[v] \in {"none", "pending"}
  \/ row[v] = "leased" /\ ~(live[v] /\ InHand(v))

SentOrHeld(v) == Cardinality(Sent(v)) + Cardinality(Holding(v))

Paid(v) == SentOrHeld(v) <= 1 + faults /\ (Open(v) => SentOrHeld(v) <= faults)

CopiesPaid ==
  /\ \A r \in Relay : sending[r] \notin todo[r]
  /\ \A v \in Event : Paid(v)

LEMMA CountsAreNumbers ==
  ASSUME NEW v \in Event
  PROVE  /\ IsFiniteSet(Sent(v)) /\ Cardinality(Sent(v)) \in Nat
         /\ IsFiniteSet(Holding(v)) /\ Cardinality(Holding(v)) \in Nat
         /\ IsFiniteSet(Sent(v)') /\ Cardinality(Sent(v)') \in Nat
         /\ IsFiniteSet(Holding(v)') /\ Cardinality(Holding(v)') \in Nat
<1>1. IsFiniteSet(Entry)
  <2>1. IsFiniteSet(1..Copies)
    BY OutboxAssumption, FS_Interval DEF OutboxAssumption
  <2> QED
    BY <2>1, OutboxAssumption, FS_Product DEF Entry, OutboxAssumption
<1>2. /\ Sent(v) \in SUBSET Entry /\ Holding(v) \in SUBSET Relay
      /\ Sent(v)' \in SUBSET Entry /\ Holding(v)' \in SUBSET Relay
  BY DEF Sent, Holding
<1> QED
  BY <1>1, <1>2, OutboxAssumption, FS_Subset, FS_CardinalityType DEF OutboxAssumption

(* A step that sends nothing and takes the event into no relay's hands: it does not open
   the row, or a relay lets go of the event, or it costs a fault. *)
LEMMA LettingGo ==
  ASSUME TypeOK, TypeOK', NEW v \in Event, Paid(v),
         Sent(v)' = Sent(v), Holding(v)' \subseteq Holding(v),
         faults' >= faults,
         \/ Open(v)' => Open(v)
         \/ Holding(v)' # Holding(v)
         \/ faults' = faults + 1
  PROVE  Paid(v)'
<1>1. Cardinality(Holding(v)') <= Cardinality(Holding(v))
  BY CountsAreNumbers, FS_Subset
<1>2. Holding(v)' # Holding(v) => Cardinality(Holding(v)') < Cardinality(Holding(v))
  BY CountsAreNumbers, <1>1, FS_Subset
<1>3. faults \in Nat /\ faults' \in Nat
  BY DEF TypeOK
<1> QED
  BY <1>1, <1>2, <1>3, CountsAreNumbers DEF Paid, SentOrHeld

LEMMA FaultsGrow ==
  ASSUME TypeOK, [Next]_vars
  PROVE  faults' >= faults
<1>1. faults \in Nat /\ (Fault => faults' = faults + 1)
  BY DEF TypeOK, Fault
<1>2. UNCHANGED faults \/ Fault
  BY DEF Next, RelayStep, ConsumerStep, vars, Enqueue, Prune, Lapse, BackoffEnds, Claim, Publish,
     RecordPublished, RecordFailed, LeaseLost, RelayCrash, Read, Handle, Ack, Reclaim,
     ConsumerFails, Trim
<1> QED
  BY <1>1, <1>2

(* An XADD: the relay gives the event up for a copy of it, or for an error to report, or,
   when it hears an error for a copy that was taken, for both and a fault. *)
LEMMA PublishPaid ==
  ASSUME TypeOK, TypeOK', CopiesPaid, NEW r \in Relay, NEW w \in Event, Publish(r, w)
  PROVE  CopiesPaid'
<1>1. /\ w \in todo[r] /\ sending[r] = NoEvent
      /\ sending' = [sending EXCEPT ![r] = w] /\ todo' = [todo EXCEPT ![r] = @ \ {w}]
      /\ UNCHANGED <<row, owner, live>>
  BY DEF Publish, rows
<1>2. PICK heard \in BOOLEAN :
        /\ result' = [result EXCEPT ![r] = IF heard THEN "ok" ELSE "error"]
        /\ IF heard THEN UNCHANGED faults ELSE Fault
  BY DEF Publish
<1>3. faults \in Nat /\ faults' \in Nat /\ faults' = IF heard THEN faults ELSE faults + 1
  BY <1>2 DEF TypeOK, Fault
<1>4. \A q \in Relay : sending'[q] \notin todo'[q]
  BY <1>1 DEF CopiesPaid, TypeOK
<1>5. ASSUME NEW v \in Event PROVE Open(v)' <=> Open(v)
  <2>1. ASSUME NEW q \in Relay
        PROVE  v \in todo'[q] \cup {sending'[q]} <=> v \in todo[q] \cup {sending[q]}
    BY <1>1, OutboxAssumption DEF TypeOK, OutboxAssumption
  <2>2. InHand(v)' <=> InHand(v)
    BY <1>1, <2>1 DEF InHand
  <2> QED
    BY <1>1, <2>2 DEF Open
<1>6. ASSUME NEW v \in Event, v # w PROVE Paid(v)'
  <2>1. Sent(v)' = Sent(v)
    <3>1. CASE UNCHANGED group
      BY <3>1, SentUnchanged
    <3>2. ASSUME NEW k \in 1..Copies, group' = [group EXCEPT ![<<w, k>>] = "queued"]
          PROVE  Sent(v)' = Sent(v)
      BY <1>6, <3>2 DEF Sent, Entry, TypeOK
    <3> QED
      BY <3>1, <3>2 DEF Publish
  <2>2. Holding(v)' \subseteq Holding(v)
    BY <1>1, <1>2, <1>6 DEF Holding, TypeOK
  <2> QED
    BY <1>3, <1>5, <2>1, <2>2, LettingGo DEF CopiesPaid
<1>7. Paid(w)'
  <2>1. Holding(w)' = IF heard THEN Holding(w) \ {r} ELSE Holding(w)
    BY <1>1, <1>2 DEF Holding, TypeOK
  <2>2. r \in Holding(w)
    BY <1>1 DEF Holding
  <2>3. Cardinality(Sent(w)') <= Cardinality(Sent(w)) + 1
    <3>1. CASE UNCHANGED group
      BY <3>1, SentUnchanged, CountsAreNumbers
    <3>2. ASSUME NEW k \in 1..Copies, group' = [group EXCEPT ![<<w, k>>] = "queued"]
          PROVE  Cardinality(Sent(w)') <= Cardinality(Sent(w)) + 1
      <4>1. Sent(w)' = Sent(w) \cup {<<w, k>>}
        BY <3>2 DEF Sent, Entry, TypeOK
      <4>2. Cardinality(Sent(w) \cup {<<w, k>>}) =
              IF <<w, k>> \in Sent(w) THEN Cardinality(Sent(w)) ELSE Cardinality(Sent(w)) + 1
        BY CountsAreNumbers, FS_AddElement, Zenon
      <4> QED
        BY <4>1, <4>2, CountsAreNumbers
    <3> QED
      BY <3>1, <3>2 DEF Publish
  <2>4. Cardinality(Holding(w)') =
          IF heard THEN Cardinality(Holding(w)) - 1 ELSE Cardinality(Holding(w))
    BY <2>1, <2>2, CountsAreNumbers, FS_RemoveElement
  <2> QED
    BY <1>3, <1>5, <2>3, <2>4, CountsAreNumbers DEF CopiesPaid, Paid, SentOrHeld
<1> QED
  BY <1>4, <1>6, <1>7 DEF CopiesPaid

(* A claim takes the event out of reach of the next one, and into one relay's hands. *)
LEMMA ClaimPaid ==
  ASSUME TypeOK, TypeOK', CopiesPaid, NEW r \in Relay, Claim(r)
  PROVE  CopiesPaid'
<1>1. PICK batch \in SUBSET {v \in Event : Claimable(v)} :
        /\ row' = [v \in Event |-> IF v \in batch THEN "leased" ELSE row[v]]
        /\ owner' = [v \in Event |-> IF v \in batch THEN IdOf[r] ELSE owner[v]]
        /\ live' = [v \in Event |-> v \in batch \/ live[v]]
        /\ todo' = [todo EXCEPT ![r] = batch]
  BY DEF Claim
<1>2. /\ todo[r] = {} /\ sending[r] = NoEvent
      /\ UNCHANGED <<sending, result, faults>>
      /\ faults \in Nat
  BY DEF Claim, TypeOK
<1>3. NoEvent \notin batch
  BY <1>1, OutboxAssumption DEF OutboxAssumption
<1>4. \A q \in Relay : sending'[q] \notin todo'[q]
  BY <1>1, <1>2, <1>3 DEF CopiesPaid, TypeOK
<1>5. \A v \in Event : Sent(v)' = Sent(v)
  BY SentUnchanged DEF Claim, stream
<1>6. ASSUME NEW v \in Event, v \notin batch PROVE Paid(v)'
  <2>1. Holding(v)' = Holding(v)
    BY <1>1, <1>2, <1>6 DEF Holding, TypeOK
  <2>2. InHand(v)' <=> InHand(v)
    BY <1>1, <1>2, <1>6 DEF InHand, TypeOK
  <2>3. row'[v] = row[v] /\ (live'[v] <=> live[v])
    BY <1>1, <1>6, Zenon
  <2>4. Open(v)' <=> Open(v)
    BY <2>2, <2>3 DEF Open
  <2> QED
    BY <1>2, <1>5, <2>1, <2>4 DEF CopiesPaid, Paid, SentOrHeld
<1>7. ASSUME NEW v \in Event, v \in batch PROVE Paid(v)'
  <2>1. Open(v)
    BY <1>1, <1>7 DEF Claimable, Open
  <2>2. ~Open(v)'
    <3>1. row'[v] = "leased"
      BY <1>1, <1>7
    <3>2. live'[v]
      BY <1>1, <1>7, Zenon
    <3>3. InHand(v)'
      BY <1>1, <1>7 DEF InHand, TypeOK
    <3> QED
      BY <3>1, <3>2, <3>3 DEF Open
  <2>3. Holding(v)' = Holding(v) \cup {r}
    BY <1>1, <1>2, <1>7 DEF Holding, TypeOK
  <2>4. Cardinality(Holding(v) \cup {r}) =
          IF r \in Holding(v) THEN Cardinality(Holding(v)) ELSE Cardinality(Holding(v)) + 1
    BY CountsAreNumbers, FS_AddElement, Zenon
  <2> QED
    BY <1>2, <1>5, <2>1, <2>2, <2>3, <2>4, CountsAreNumbers DEF CopiesPaid, Paid, SentOrHeld
<1> QED
  BY <1>4, <1>6, <1>7 DEF CopiesPaid

(* A relay that reports an event, or loses the lease, or dies, lets go of it: the row may
   open again, but for a failed report only when nobody else has it and otherwise for a
   fault. *)
LEMMA RelayPaid ==
  ASSUME TypeOK, TypeOK', CopiesPaid, NEW r \in Relay, faults' >= faults,
         RecordPublished(r) \/ RecordFailed(r) \/ LeaseLost(r) \/ RelayCrash(r)
  PROVE  CopiesPaid'
<1>1. /\ sending' = [sending EXCEPT ![r] = NoEvent]
      /\ result' = [result EXCEPT ![r] = "none"]
      /\ todo' = todo \/ todo' = [todo EXCEPT ![r] = {}]
  BY DEF RecordPublished, RecordFailed, LeaseLost, RelayCrash, NextEvent
<1>2. \A q \in Relay : sending'[q] \notin todo'[q]
  BY <1>1, OutboxAssumption DEF CopiesPaid, TypeOK, OutboxAssumption
<1>3. \A v \in Event : Sent(v)' = Sent(v) /\ Holding(v)' \subseteq Holding(v)
  <2>1. UNCHANGED group
    BY DEF RecordPublished, RecordFailed, LeaseLost, RelayCrash, stream
  <2> QED
    BY <1>1, <2>1, SentUnchanged DEF Holding, TypeOK
<1>4. ASSUME NEW v \in Event, ~Open(v), Open(v)'
      PROVE  Holding(v)' # Holding(v) \/ faults' = faults + 1
  <2>1. CASE RecordPublished(r)
    <3>1. sending[r] \in Event /\ UNCHANGED todo
          /\ row' = [row EXCEPT ![sending[r]] = "published"]
          /\ owner' = [owner EXCEPT ![sending[r]] = Nobody]
          /\ live' = [live EXCEPT ![sending[r]] = FALSE]
      BY <2>1 DEF RecordPublished, Unlease, TypeOK
    <3>2. v # sending[r]
      BY <1>4, <3>1 DEF Open, TypeOK
    <3>3. row'[v] = row[v] /\ live'[v] = live[v] /\ owner'[v] = owner[v]
      BY <3>1, <3>2 DEF TypeOK
    <3>4. InHand(v) => InHand(v)'
      BY <1>1, <3>1, <3>2, <3>3 DEF InHand, TypeOK
    <3> QED
      BY <1>4, <3>3, <3>4 DEF Open
  <2>2. CASE RecordFailed(r)
    <3>1. sending[r] \in Event /\ UNCHANGED todo /\ result[r] = "error"
          /\ \/ row' = [row EXCEPT ![sending[r]] = "dead"]
             \/ row' = [row EXCEPT ![sending[r]] = "pending"]
          /\ owner' = [owner EXCEPT ![sending[r]] = Nobody]
          /\ live' = [live EXCEPT ![sending[r]] = FALSE]
      BY <2>2 DEF RecordFailed, Unlease, TypeOK
    <3>2. CASE v = sending[r]
      <4>1. r \in Holding(v)
        BY <3>1, <3>2 DEF Holding
      <4>2. r \notin Holding(v)'
        BY <1>1, <3>1, <3>2 DEF Holding, CopiesPaid, TypeOK
      <4> QED
        BY <4>1, <4>2
    <3>3. CASE v # sending[r]
      <4>1. row'[v] = row[v] /\ live'[v] = live[v] /\ owner'[v] = owner[v]
        BY <3>1, <3>3 DEF TypeOK
      <4>2. InHand(v) => InHand(v)'
        BY <1>1, <3>1, <3>3, <4>1 DEF InHand, TypeOK
      <4> QED
        BY <1>4, <4>1, <4>2 DEF Open
    <3> QED
      BY <3>2, <3>3
  <2>3. CASE LeaseLost(r)
    <3>1. UNCHANGED <<row, owner, live>> /\ ~Owns(r, sending[r])
          /\ todo' = [todo EXCEPT ![r] = {}]
      BY <2>3 DEF LeaseLost, rows
    <3>2. row[v] = "leased" /\ InHand(v) /\ ~InHand(v)'
      BY <1>4, <3>1 DEF Open
    <3>3. PICK q \in Relay : v \in todo[q] \cup {sending[q]} /\ owner[v] = IdOf[q]
      BY <3>2 DEF InHand
    <3>4. q = r
      BY <1>1, <3>1, <3>2, <3>3 DEF InHand, TypeOK
    <3>5. v \in todo[r]
      BY <3>1, <3>2, <3>3, <3>4 DEF Owns
    <3>6. r \in Holding(v) /\ r \notin Holding(v)'
      BY <1>1, <3>1, <3>5 DEF Holding, TypeOK
    <3> QED
      BY <3>6
  <2>4. CASE RelayCrash(r)
    BY <2>4 DEF RelayCrash, Fault
  <2> QED
    BY <2>1, <2>2, <2>3, <2>4
<1>5. ASSUME NEW v \in Event PROVE Paid(v)'
  BY <1>3, <1>4, LettingGo DEF CopiesPaid
<1> QED
  BY <1>2, <1>5 DEF CopiesPaid

(* The rest touches no relay: a new row was open before, a lease that lapses under a relay
   that is at it is a fault. *)
LEMMA RowPaid ==
  ASSUME TypeOK, TypeOK', CopiesPaid, faults' >= faults, NEW w \in Event,
         Enqueue(w) \/ Prune(w) \/ Lapse(w) \/ BackoffEnds(w)
  PROVE  CopiesPaid'
<1>1. UNCHANGED <<relays, stream, owner>>
  BY DEF Enqueue, Prune, Lapse, BackoffEnds
<1>2. \A v \in Event : Sent(v)' = Sent(v) /\ Holding(v)' = Holding(v) /\ InHand(v)' = InHand(v)
  BY <1>1, SentUnchanged DEF stream, relays, Holding, InHand
<1>3. ASSUME NEW v \in Event, Open(v)', ~Open(v) PROVE faults' = faults + 1
  <2>1. CASE Enqueue(w)
    BY <1>2, <1>3, <2>1 DEF Enqueue, Open, TypeOK
  <2>2. CASE Prune(w)
    BY <1>2, <1>3, <2>2 DEF Prune, Open, TypeOK
  <2>3. CASE BackoffEnds(w)
    BY <1>2, <1>3, <2>3 DEF BackoffEnds, Open
  <2>4. CASE Lapse(w)
    <3>1. v = w
      BY <1>2, <1>3, <2>4 DEF Lapse, Open, TypeOK
    <3>2. InHand(v)
      BY <1>3, <2>4, <3>1 DEF Lapse, Open
    <3> QED
      BY <2>4, <3>1, <3>2 DEF Lapse, Fault
  <2> QED
    BY <2>1, <2>2, <2>3, <2>4
<1>4. \A v \in Event : Paid(v)'
  BY <1>2, <1>3, LettingGo DEF CopiesPaid
<1> QED
  BY <1>1, <1>4 DEF CopiesPaid, relays

LEMMA NextPaid == TypeOK /\ WorkWasSent /\ CopiesPaid /\ [Next]_vars => CopiesPaid'
<1> SUFFICES ASSUME TypeOK, WorkWasSent, CopiesPaid, [Next]_vars PROVE CopiesPaid'
  OBVIOUS
<1>1. TypeOK' /\ faults' >= faults
  BY NextType, FaultsGrow
<1>2. CASE UNCHANGED <<rows, relays>> /\ \A v \in Event : Sent(v)' = Sent(v)
  <2>1. \A v \in Event : Holding(v)' = Holding(v) /\ Open(v)' = Open(v)
    BY <1>2 DEF rows, relays, Holding, Open, InHand
  <2>2. \A v \in Event : Paid(v)'
    BY <1>1, <1>2, <2>1, LettingGo DEF CopiesPaid
  <2> QED
    BY <1>2, <2>2 DEF CopiesPaid, relays
<1>3. CASE UNCHANGED vars
  BY <1>2, <1>3, SentUnchanged DEF vars, stream
<1>4. CASE StreamSide
  BY <1>2, <1>4, StreamSideKeepsRows, StreamSideKeepsSent
<1> QED
  BY <1>1, <1>3, <1>4, PublishPaid, ClaimPaid, RelayPaid, RowPaid, Sides DEF RowSide

(* Without faults no event is in the stream twice, and each further copy of one is paid for
   by a crash, a late relay or an unheard XADD: for any number of relays, and when processes
   share their worker ids. *)
THEOREM DuplicatesArePaidFor == Spec => []DuplicatesNeedAFault
<1>1. Init => WorkWasSent /\ CopiesPaid
  <2> SUFFICES ASSUME Init PROVE WorkWasSent /\ CopiesPaid
    OBVIOUS
  <2>1. faults = 0
    BY DEF Init
  <2>2. ASSUME NEW v \in Event PROVE Paid(v)
    <3>1. Sent(v) = {} /\ Holding(v) = {}
      BY OutboxAssumption DEF Init, Sent, Holding, OutboxAssumption
    <3>2. Cardinality({}) = 0
      BY FS_EmptySet, Zenon
    <3>3. SentOrHeld(v) = 0
      BY <3>1, <3>2 DEF SentOrHeld
    <3> QED
      BY <2>1, <3>3 DEF Paid
  <2> QED
    BY <2>2 DEF CopiesPaid, Init, WorkWasSent
<1>2. TypeOK /\ CopiesPaid => DuplicatesNeedAFault
  <2> SUFFICES ASSUME TypeOK, CopiesPaid, NEW v \in Event
               PROVE  Cardinality(Sent(v)) <= 1 + faults
    BY DEF DuplicatesNeedAFault
  <2> QED
    BY CountsAreNumbers DEF CopiesPaid, Paid, SentOrHeld, TypeOK
<1> QED
  BY <1>1, <1>2, InitType, NextType, NextWork, NextPaid, PTL DEF Spec

-----------------------------------------------------------------------------
(* At least once, as a refinement: every step is one of EventDelivery or none. *)

(* What is left of a batch was raised. *)
BatchesWereRaised == \A r \in Relay : \A v \in todo[r] : row[v] # "none"

LEMMA NextRaised == TypeOK /\ BatchesWereRaised /\ [Next]_vars => BatchesWereRaised'
<1> SUFFICES ASSUME TypeOK, BatchesWereRaised, [Next]_vars PROVE BatchesWereRaised'
  OBVIOUS
<1> USE DEF TypeOK, BatchesWereRaised
<1>1. CASE UNCHANGED vars
  BY <1>1 DEF vars, rows, relays
<1>2. CASE StreamSide
  BY <1>2, StreamSideKeepsRows DEF rows, relays
<1>3. ASSUME NEW v \in Event, Enqueue(v) \/ Prune(v) \/ Lapse(v) \/ BackoffEnds(v)
      PROVE  BatchesWereRaised'
  BY <1>3 DEF Enqueue, Prune, Lapse, BackoffEnds, relays
<1>4. ASSUME NEW r \in Relay, Claim(r) PROVE BatchesWereRaised'
  BY <1>4 DEF Claim
<1>5. ASSUME NEW r \in Relay, RecordPublished(r) \/ RecordFailed(r) PROVE BatchesWereRaised'
  <2>1. PICK v \in Event, status \in {"published", "dead", "pending"} :
          row' = [row EXCEPT ![v] = status] /\ todo' = todo
    BY <1>5 DEF RecordPublished, RecordFailed, Unlease
  <2> QED
    BY <2>1
<1>6. ASSUME NEW r \in Relay, LeaseLost(r) \/ RelayCrash(r) PROVE BatchesWereRaised'
  BY <1>6 DEF LeaseLost, RelayCrash, rows
<1>7. ASSUME NEW r \in Relay, NEW v \in Event, Publish(r, v) PROVE BatchesWereRaised'
  BY <1>7 DEF Publish, rows
<1> QED
  BY <1>1, <1>2, <1>3, <1>4, <1>5, <1>6, <1>7, Sides DEF RowSide

DeliveryFits ==
  TypeOK /\ WorkWasSent /\ DoneWasHandled /\ AckedWasHandled /\ HeardWasSent /\ BatchesWereRaised

LEMMA DeliveryFitsStep == DeliveryFits /\ [Next]_vars => DeliveryFits'
BY NextType, NextWork, NextAcked, NextHeard, NextRaised DEF DeliveryFits

(* The delivery's view of a row and of the stream. *)
LEMMA StageOf ==
  ASSUME TypeOK
  PROVE  /\ \A v \in Event : Stage[v] = IF row[v] \in {"pending", "leased"} THEN "offered" ELSE row[v]
         /\ \A v \in Event : (row[v] # "none") <=> (Stage[v] # "none")
BY DEF Stage, TypeOK, RowStatus

LEMMA StageAfter ==
  ASSUME TypeOK, NEW v \in Event, NEW status \in RowStatus, row' = [row EXCEPT ![v] = status],
         NEW stands, stands = IF status \in {"pending", "leased"} THEN "offered" ELSE status
  PROVE  Stage' = [Stage EXCEPT ![v] = stands]
<1>1. \A w \in Event : (IF row'[w] \in {"pending", "leased"} THEN "offered" ELSE row'[w])
                         = [Stage EXCEPT ![v] = stands][w]
  BY DEF Stage, TypeOK
<1> QED
  BY <1>1 DEF Stage

LEMMA SameStream == UNCHANGED stream => UNCHANGED <<InStream, Acked, gone>>
BY DEF stream, InStream, Acked

LEMMA SameRows == UNCHANGED row => Stage' = Stage
BY DEF Stage

Seen == <<Stage, InStream, Acked, gone, handled>>

LEMMA RowSideDelivers ==
  ASSUME DeliveryFits, RowSide
  PROVE  Delivery!Next \/ UNCHANGED Seen
<1> USE DEF DeliveryFits
<1>1. UNCHANGED <<InStream, Acked, gone, handled>>
  BY RowSideKeepsStream, SameStream DEF consumers
<1>2. ASSUME NEW v \in Event, Enqueue(v) PROVE Delivery!Next
  <2>1. Stage[v] = "none" /\ Stage' = [Stage EXCEPT ![v] = "offered"]
    BY <1>2, StageAfter, StageOf DEF Enqueue, RowStatus
  <2>2. Delivery!Raise(v)
    BY <1>1, <2>1 DEF Delivery!Raise, Delivery!Turns
  <2> QED
    BY <2>2 DEF Delivery!Next
<1>3. ASSUME NEW v \in Event, Prune(v) PROVE Delivery!Next
  <2>1. Stage[v] = "published" /\ Stage' = [Stage EXCEPT ![v] = "pruned"]
    BY <1>3, StageAfter, StageOf DEF Prune, RowStatus
  <2>2. Delivery!Forget(v)
    BY <1>1, <2>1 DEF Delivery!Forget, Delivery!Turns
  <2> QED
    BY <2>2 DEF Delivery!Next
<1>4. ASSUME NEW v \in Event, Lapse(v) \/ BackoffEnds(v) PROVE UNCHANGED Seen
  BY <1>1, <1>4, SameRows DEF Lapse, BackoffEnds, Seen
<1>5. ASSUME NEW r \in Relay, Claim(r) PROVE UNCHANGED Seen
  <2>1. PICK batch \in SUBSET {v \in Event : Claimable(v)} :
          row' = [v \in Event |-> IF v \in batch THEN "leased" ELSE row[v]]
    BY <1>5 DEF Claim
  <2>2. \A v \in batch : row[v] \in {"pending", "leased"}
    BY <2>1 DEF Claimable
  <2>3. \A v \in Event : (IF row'[v] \in {"pending", "leased"} THEN "offered" ELSE row'[v])
                           = IF row[v] \in {"pending", "leased"} THEN "offered" ELSE row[v]
    BY <2>1, <2>2
  <2>4. Stage' = Stage
    BY <2>3, Zenon DEF Stage
  <2> QED
    BY <1>1, <2>4 DEF Seen
<1>6. ASSUME NEW r \in Relay, RecordPublished(r) PROVE Delivery!Next
  <2> DEFINE v == sending[r]
  <2>1. /\ v \in Event /\ row[v] = "leased" /\ Sent(v) # {}
        /\ row' = [row EXCEPT ![v] = "published"]
    BY <1>6 DEF RecordPublished, Owns, Unlease, TypeOK, HeardWasSent
  <2>2. Stage[v] = "offered" /\ Stage' = [Stage EXCEPT ![v] = "published"]
    BY <2>1, StageAfter, StageOf DEF RowStatus
  <2>3. Delivery!Copied(v)
    BY <2>1 DEF Delivery!Copied, InStream, Sent
  <2>4. Delivery!Deliver(v)
    BY <1>1, <2>2, <2>3 DEF Delivery!Deliver, Delivery!Turns
  <2> QED
    BY <2>1, <2>4 DEF Delivery!Next
<1>7. ASSUME NEW r \in Relay, RecordFailed(r) PROVE Delivery!Next \/ UNCHANGED Seen
  <2> DEFINE v == sending[r]
  <2>1. v \in Event /\ row[v] = "leased"
    BY <1>7 DEF RecordFailed, Owns, TypeOK
  <2>2. CASE row' = [row EXCEPT ![v] = "dead"]
    <3>1. Stage[v] = "offered" /\ Stage' = [Stage EXCEPT ![v] = "dead"]
      BY <2>1, <2>2, StageAfter, StageOf DEF RowStatus
    <3>2. Delivery!GiveUp(v)
      BY <1>1, <3>1 DEF Delivery!GiveUp, Delivery!Turns
    <3> QED
      BY <2>1, <3>2 DEF Delivery!Next
  <2>3. CASE row' = [row EXCEPT ![v] = "pending"]
    <3>1. Stage[v] = "offered" /\ Stage' = [Stage EXCEPT ![v] = "offered"]
      BY <2>1, <2>3, StageAfter, StageOf DEF RowStatus
    <3>2. Stage' = Stage
      BY <3>1 DEF Stage
    <3> QED
      BY <1>1, <3>2 DEF Seen
  <2> QED
    BY <1>7, <2>2, <2>3 DEF RecordFailed, Unlease
<1>8. ASSUME NEW r \in Relay, LeaseLost(r) \/ RelayCrash(r) PROVE UNCHANGED Seen
  BY <1>1, <1>8, SameRows DEF LeaseLost, RelayCrash, rows, Seen
<1> QED
  BY <1>2, <1>3, <1>4, <1>5, <1>6, <1>7, <1>8 DEF RowSide

LEMMA StreamSideDelivers ==
  ASSUME DeliveryFits, StreamSide
  PROVE  Delivery!Next \/ UNCHANGED Seen
<1> USE DEF DeliveryFits
<1>1. UNCHANGED Stage
  BY StreamSideKeepsRows, SameRows DEF rows
<1>2. ASSUME NEW c \in Consumer, Read(c) PROVE UNCHANGED Seen
  <2>1. PICK taken \in SUBSET {x \in Entry : group[x] = "queued" /\ x \notin gone} :
          group' = [x \in Entry |-> IF x \in taken THEN "pending" ELSE group[x]]
    BY <1>2 DEF Read, Assign
  <2>2. UNCHANGED <<InStream, Acked>>
    BY <2>1 DEF InStream, Acked
  <2> QED
    BY <1>1, <1>2, <2>2 DEF Read, Seen
<1>3. ASSUME NEW c \in Consumer, NEW x \in Entry, Handle(c, x) PROVE Delivery!Next
  <2>1. x \in InStream /\ x[1] \in Event
    BY <1>3 DEF Handle, WorkWasSent, InStream, Entry
  <2>2. UNCHANGED <<InStream, Acked, gone>> /\ handled' = handled \cup {x[1]}
    BY <1>3, SameStream DEF Handle
  <2>3. Delivery!Handle(x[1])
    BY <1>1, <2>1, <2>2 DEF Delivery!Handle, Delivery!Copied
  <2> QED
    BY <2>1, <2>3 DEF Delivery!Next
<1>4. ASSUME UNCHANGED <<gone, handled>>, Acked \subseteq Acked', UNCHANGED InStream,
             \A x \in Acked' \ Acked : x[1] \in handled \/ x \in gone
      PROVE  Delivery!Next
  <2>1. Acked' \subseteq InStream
    <3>1. Acked' \subseteq InStream'
      BY DEF Acked, InStream
    <3> QED
      BY <1>4, <3>1
  <2>2. Delivery!Close
    BY <1>1, <1>4, <2>1 DEF Delivery!Close
  <2> QED
    BY <2>2 DEF Delivery!Next
<1>5. ASSUME NEW c \in Consumer, NEW x \in Entry, Ack(c, x) PROVE Delivery!Next
  <2>1. group' = [group EXCEPT ![x] = "acked"] /\ UNCHANGED <<gone, handled>>
    BY <1>5 DEF Ack
  <2>2. group[x] # "absent" /\ x[1] \in handled
    BY <1>5 DEF Ack, WorkWasSent, DoneWasHandled, TypeOK
  <2>3. Acked \subseteq Acked' /\ Acked' \ Acked \subseteq {x} /\ UNCHANGED InStream
    BY <2>1, <2>2 DEF Acked, InStream, TypeOK
  <2> QED
    BY <1>4, <2>1, <2>2, <2>3
<1>6. ASSUME NEW c \in Consumer, Reclaim(c) PROVE Delivery!Next
  <2>1. PICK idle \in SUBSET {x \in Entry : group[x] = "pending"} :
          group' = [x \in Entry |-> IF x \in idle \cap gone THEN "acked" ELSE group[x]]
    BY <1>6 DEF Reclaim
  <2>2. Acked \subseteq Acked' /\ Acked' \ Acked \subseteq gone /\ UNCHANGED InStream
    BY <2>1 DEF Acked, InStream
  <2>3. UNCHANGED <<gone, handled>>
    BY <1>6 DEF Reclaim
  <2> QED
    BY <1>4, <2>2, <2>3
<1>7. ASSUME NEW c \in Consumer, ConsumerFails(c) PROVE UNCHANGED Seen
  BY <1>1, <1>7, SameStream DEF ConsumerFails, Seen
<1>8. ASSUME NEW x \in Entry, Trim(x) PROVE Delivery!Next
  <2>1. x \in InStream /\ gone' = gone \cup {x}
    BY <1>8 DEF Trim, InStream
  <2>2. UNCHANGED <<InStream, Acked, handled>>
    BY <1>8 DEF Trim, InStream, Acked, consumers
  <2>3. Delivery!Lose
    BY <1>1, <2>1, <2>2 DEF Delivery!Lose
  <2> QED
    BY <2>3 DEF Delivery!Next
<1> QED
  BY <1>2, <1>3, <1>5, <1>6, <1>7, <1>8 DEF StreamSide, ConsumerStep

LEMMA PublishDelivers ==
  ASSUME DeliveryFits, NEW r \in Relay, NEW v \in Event, Publish(r, v)
  PROVE  Delivery!Next \/ UNCHANGED Seen
<1> USE DEF DeliveryFits
<1>1. UNCHANGED <<Stage, gone, handled>>
  BY SameRows DEF Publish, rows, consumers
<1>2. CASE UNCHANGED group
  BY <1>1, <1>2 DEF Seen, InStream, Acked
<1>3. ASSUME NEW k \in 1..Copies, group[<<v, k>>] = "absent",
             group' = [group EXCEPT ![<<v, k>>] = "queued"]
      PROVE  Delivery!Next
  <2>1. /\ <<v, k>> \notin InStream /\ InStream' = InStream \cup {<<v, k>>}
        /\ UNCHANGED Acked
    <3>1. /\ <<v, k>> \in Entry /\ group'[<<v, k>>] = "queued"
          /\ \A x \in Entry \ {<<v, k>>} : group'[x] = group[x]
      BY <1>3 DEF TypeOK, Entry
    <3> QED
      BY <1>3, <3>1 DEF InStream, Acked
  <2>2. Stage[v] # "none"
    BY StageOf DEF Publish, BatchesWereRaised
  <2>3. Delivery!Send(v)
    BY <1>1, <2>1, <2>2 DEF Delivery!Send
  <2> QED
    BY <2>3 DEF Delivery!Next
<1>4. ASSUME NEW k \in 1..Copies,
             \A j \in 1..Copies : (group[<<v, j>>] = "absent") <=> (j >= k),
             group' = [group EXCEPT ![<<v, k>>] = "queued"]
      PROVE  Delivery!Next
  <2>1. group[<<v, k>>] = "absent"
    BY <1>4
  <2> QED
    BY <1>3, <1>4, <2>1
<1> QED
  BY <1>2, <1>4 DEF Publish

(* Whatever relays and consumers do to each other's leases and messages, what they do
   together is to deliver every event at least once. *)
THEOREM OutboxDeliversAtLeastOnce == Spec => ImplementsEventDelivery
<1>1. Init => DeliveryFits /\ Delivery!Init
  <2> SUFFICES ASSUME Init PROVE DeliveryFits /\ Delivery!Init
    OBVIOUS
  <2>1. DoneWasHandled /\ AckedWasHandled /\ BatchesWereRaised
    BY DEF Init, DoneWasHandled, AckedWasHandled, BatchesWereRaised
  <2>2. Delivery!Init
    BY DEF Init, Delivery!Init, Stage, InStream, Acked
  <2> QED
    BY <2>1, <2>2, InitType, InitSent DEF DeliveryFits
<1>2. DeliveryFits /\ [Next]_vars => [Delivery!Next]_(Delivery!deliveryVars)
  <2> SUFFICES ASSUME DeliveryFits, [Next]_vars
               PROVE  Delivery!Next \/ UNCHANGED Seen
    BY DEF Delivery!deliveryVars, Seen
  <2>1. CASE UNCHANGED vars
    BY <2>1, SameRows, SameStream DEF vars, rows, consumers, Seen
  <2> QED
    BY <2>1, RowSideDelivers, StreamSideDelivers, PublishDelivers, Sides
<1> QED
  BY <1>1, <1>2, DeliveryFitsStep, PTL DEF Spec, ImplementsEventDelivery, Delivery!Spec
=============================================================================
