------------------------------ MODULE JevLedger ------------------------------
(***************************************************************************)
(* What the judge-evaluated router may spend: the journal of               *)
(* orchestration/jev_ledger.py, one append-only file per day that several  *)
(* processes lock, read whole and append to, and the calls of              *)
(* orchestration/jev_router.py that reserve, post and settle.              *)
(*                                                                         *)
(* A journal is the sequence of its events.  What a handle has written is  *)
(* in its buffer until it is flushed, before the lock is released; a       *)
(* refusal leaves without a flush, and closing the handle, which is after  *)
(* the release, writes what is in the buffer.  Amounts are small numbers;  *)
(* the router's own circuit and concurrency limit, which only keep calls   *)
(* away, are left out.                                                     *)
(***************************************************************************)
EXTENDS Naturals, Sequences, FiniteSets

CONSTANTS
    Router,         \* calls of the router, each in a process of its own
    NoRouter,       \* nobody has locked a journal
    Reservation,    \* amounts a request may be reserved at
    Budget,         \* the daily cap
    PerMinute,      \* reservations a minute
    Days,           \* bound on the days
    MaxCalls,       \* bound on reservations admitted
    MaxLosses       \* bound on failed flushes and deaths

ASSUME AmountsAreCounted == Reservation \subseteq Nat \ {0} /\ Budget \in Nat /\ PerMinute \in Nat
ASSUME NoRouterIsNone == NoRouter \notin Router
ASSUME DaysAreNumbered == Days \in Nat \ {0} /\ MaxCalls \in Nat /\ MaxLosses \in Nat

VARIABLES
    today,
    journal,    \* day -> events in its file
    flock,      \* day -> who has locked its file
    router,     \* router -> where its call is
    bill,       \* reservations admitted: their day, their amount and what
                \*   the provider billed
    losses

ledgerVars == <<today, journal, flock, router, bill, losses>>

NotRouting == [at |-> "idle"]
Header == [event |-> "ledger"]
Torn == [event |-> "torn"]

Events(d, kinds) == {n \in DOMAIN journal[d] : journal[d][n].event \in kinds}
Attempts(d) == Events(d, {"reserve"})

(* _parse: one header, first, and no line that is not an event.            *)
Readable(d) ==
    journal[d] # <<>> => Events(d, {"ledger"}) = {1} /\ Events(d, {"torn"}) = {}

(* _snapshot: what is settled or unknown, and what is pending.             *)
Counted(d, n) ==
    LET ends == {k \in Events(d, {"settle", "unknown"}) : journal[d][k].id = journal[d][n].id}
    IN  IF ends = {} THEN journal[d][n].usd
                     ELSE journal[d][CHOOSE k \in ends : TRUE].usd

(* A sum of amounts, counted unit by unit. *)
Units(amount) == UNION {{x} \X (1..amount[x]) : x \in DOMAIN amount}
Total(amount) == Cardinality(Units(amount))

Accounted(d) == Total([n \in Attempts(d) |-> Counted(d, n)])
LastMinute(d) == Cardinality({n \in Attempts(d) : journal[d][n].recent})

-----------------------------------------------------------------------------
LedgerInit ==
    /\ today = 1
    /\ journal = [d \in 1..Days |-> <<>>]
    /\ flock = [d \in 1..Days |-> NoRouter]
    /\ router = [r \in Router |-> NotRouting]
    /\ bill = <<>>
    /\ losses = 0

Loss == losses < MaxLosses /\ losses' = losses + 1
Proceeds(r, place) == router' = [router EXCEPT ![r].at = place]
Quit(r) == router' = [router EXCEPT ![r] = NotRouting]
Unlock(r) == flock' = [d \in 1..Days |-> IF flock[d] = r THEN NoRouter ELSE flock[d]]
Written(r, events) == journal' = [journal EXCEPT ![router[r].day] = @ \o events]

(* reserve reads the clock before it has the lock.                         *)
AskToSpend(r, usd) ==
    /\ router[r] = NotRouting
    /\ Len(bill) < MaxCalls
    /\ router' = [router EXCEPT ![r] =
                    [at |-> "wait", todo |-> "reserve", day |-> today, id |-> 0, usd |-> usd]]
    /\ UNCHANGED <<today, journal, flock, bill, losses>>

(* Mutant of TakeFile: the file is opened and not locked. *)
TakeFileUnlocked(r) ==
    /\ router[r].at = "wait"
    /\ Proceeds(r, "locked")
    /\ UNCHANGED <<today, journal, flock, bill, losses>>

(* _acquire, and its timeout: the caller does without the ledger.          *)
TakeFile(r) ==
    /\ router[r].at = "wait"
    /\ flock[router[r].day] = NoRouter
    /\ flock' = [flock EXCEPT ![router[r].day] = r]
    /\ Proceeds(r, "locked")
    /\ UNCHANGED <<today, journal, bill, losses>>

LockTimesOut(r) ==
    /\ router[r].at = "wait"
    /\ flock[router[r].day] # NoRouter
    /\ Quit(r)
    /\ UNCHANGED <<today, journal, flock, bill, losses>>

(* JevJournalCorrupt: nothing is admitted and nothing is settled.          *)
CannotRead(r) ==
    /\ router[r].at = "locked"
    /\ ~Readable(router[r].day)
    /\ Unlock(r)
    /\ Quit(r)
    /\ UNCHANGED <<today, journal, bill, losses>>

Buffered(r, events) ==
    router' = [router EXCEPT ![r] =
                 [at |-> "flush", todo |-> @.todo, day |-> @.day, id |-> @.id, usd |-> @.usd,
                  buffer |-> IF journal[@.day] = <<>> THEN <<Header>> \o events ELSE events]]

Admissible(r) ==
    /\ Accounted(router[r].day) + router[r].usd <= Budget
    /\ LastMinute(router[r].day) < PerMinute

Admit(r) ==
    /\ router[r].at = "locked" /\ router[r].todo = "reserve"
    /\ Readable(router[r].day) /\ Admissible(r)
    /\ LET id == Len(bill) + 1
           q == router[r]
           line == [event |-> "reserve", id |-> id, usd |-> q.usd, recent |-> TRUE]
       IN  /\ bill' = Append(bill, [day |-> q.day, usd |-> q.usd, cost |-> 0])
           /\ router' = [router EXCEPT ![r] =
                [at |-> "flush", todo |-> "reserve", day |-> q.day, id |-> id, usd |-> q.usd,
                 buffer |-> IF journal[q.day] = <<>> THEN <<Header, line>> ELSE <<line>>]]
    /\ UNCHANGED <<today, journal, flock, losses>>

(* An exception passes over the flush: what was written is in the buffer.  *)
LeavesUnflushed(r, events) ==
    router' = [router EXCEPT ![r] = [at |-> "close", day |-> @.day, buffer |-> events]]

(* JevBudgetExhausted or JevRateLimited.  On an empty file the header was  *)
(* written to the buffer: it goes to the file with the handle's close.     *)
TurnAway(r) ==
    /\ router[r].at = "locked" /\ router[r].todo = "reserve"
    /\ Readable(router[r].day) /\ ~Admissible(r)
    /\ Unlock(r)
    /\ IF journal[router[r].day] = <<>> THEN LeavesUnflushed(r, <<Header>>) ELSE Quit(r)
    /\ UNCHANGED <<today, journal, bill, losses>>

CloseFile(r) ==
    /\ router[r].at = "close"
    /\ Written(r, router[r].buffer)
    /\ Quit(r)
    /\ UNCHANGED <<today, flock, bill, losses>>

(* settle and mark_unknown; the latter keeps the whole reservation.        *)
EndAttempt(r) ==
    /\ router[r].at = "locked" /\ router[r].todo # "reserve"
    /\ Readable(router[r].day)
    /\ Buffered(r, <<[event |-> router[r].todo, id |-> router[r].id, usd |-> router[r].usd]>>)
    /\ UNCHANGED <<today, journal, flock, bill, losses>>

Flush(r) ==
    /\ router[r].at = "flush"
    /\ Written(r, router[r].buffer)
    /\ Unlock(r)
    /\ IF router[r].todo = "reserve"
         THEN router' = [router EXCEPT ![r] = [at |-> "reserved", todo |-> "post", day |-> @.day,
                                               id |-> @.id, usd |-> @.usd]]
         ELSE Quit(r)
    /\ UNCHANGED <<today, bill, losses>>

(* The disk refuses or the process dies in the flush: everything, nothing  *)
(* or half a line is in the file, or the close writes it later; no call is *)
(* made on it.                                                             *)
FlushFails(r) ==
    /\ Loss
    /\ router[r].at = "flush"
    /\ \/ /\ \E events \in {<<>>, <<Torn>>, router[r].buffer} : Written(r, events)
          /\ Quit(r)
       \/ /\ LeavesUnflushed(r, router[r].buffer)
          /\ UNCHANGED journal
    /\ Unlock(r)
    /\ UNCHANGED <<today, bill>>

(* The call.  The provider bills it or not, and then perhaps more than was *)
(* reserved; the router learns of it, or (an error, a timeout, another     *)
(* status, no usage in the answer) does not.  A usage that counts tokens   *)
(* but names no cost is settled at the configured list price, which is     *)
(* assumed to be what the provider bills.                                  *)
Post(r) ==
    /\ router[r].at = "reserved"
    /\ \E cost \in {0, router[r].usd + 1}, known \in BOOLEAN :
         /\ bill' = [bill EXCEPT ![router[r].id].cost = cost]
         /\ router' = [router EXCEPT ![r].at = "wait",
                                     ![r].todo = IF known THEN "settle" ELSE "unknown",
                                     ![r].usd = IF known THEN cost ELSE @]
    /\ UNCHANGED <<today, journal, flock, losses>>

(* The caller had stopped waiting for the thread that reserved.            *)
GiveUp(r) ==
    /\ router[r].at = "reserved"
    /\ Quit(r)
    /\ UNCHANGED <<today, journal, flock, bill, losses>>

RouterDies(r) ==
    /\ Loss
    /\ router[r].at \notin {"idle", "flush"}
    /\ Unlock(r)
    /\ Quit(r)
    /\ UNCHANGED <<today, journal, bill>>

MinutePasses ==
    /\ \E d \in 1..Days : LastMinute(d) > 0
    /\ journal' = [d \in 1..Days |->
                     [n \in DOMAIN journal[d] |->
                        IF n \in Attempts(d) THEN [journal[d][n] EXCEPT !.recent = FALSE]
                                             ELSE journal[d][n]]]
    /\ UNCHANGED <<today, flock, router, bill, losses>>

Midnight ==
    /\ today < Days
    /\ today' = today + 1
    /\ UNCHANGED <<journal, flock, router, bill, losses>>

LedgerNext ==
    \/ MinutePasses \/ Midnight
    \/ \E r \in Router :
         \/ \E usd \in Reservation : AskToSpend(r, usd)
         \/ TakeFile(r) \/ LockTimesOut(r) \/ CannotRead(r) \/ Admit(r) \/ TurnAway(r)
         \/ CloseFile(r) \/ EndAttempt(r) \/ Flush(r) \/ FlushFails(r)
         \/ Post(r) \/ GiveUp(r) \/ RouterDies(r)

LedgerSpec == LedgerInit /\ [][LedgerNext]_ledgerVars
=============================================================================
