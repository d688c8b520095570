------------------------------ MODULE ToolLedger ------------------------------
(***************************************************************************)
(* The in-process idempotency ledger of the tool gateway                   *)
(* (tool_platform/resilience.py, IdempotencyLedger) and the part of        *)
(* ToolGateway.execute between its lock and its return: the duplicates of  *)
(* a request, the bulkhead, results that are kept and entries that are     *)
(* pruned by age and by number.                                            *)
(*                                                                         *)
(* The ledger gives every entry a lock object; lock number n is the one    *)
(* that the n-th accepted call made or found new.  A call whose entry was  *)
(* pruned goes on with a lock nobody else will get.  Policy, schemas, the  *)
(* limiter and the circuit, which refuse calls before the ledger sees      *)
(* them, and the attempts inside one call are left out.                    *)
(***************************************************************************)
EXTENDS Naturals, Sequences, FiniteSets

CONSTANTS
    Caller,         \* tasks of the process that call the gateway
    ToolRequest,    \* request ids: tenant, tool, version and request
    Argument,       \* hashes of arguments
    NoArgument,     \* no entry, no result
    Capacity,       \* max_entries
    Slots,          \* calls of one tool at a time (Bulkheads)
    MaxToolCalls    \* bound on calls the ledger accepts

ASSUME LedgerHasRoom == Capacity \in Nat \ {0} /\ Slots \in Nat \ {0} /\ MaxToolCalls \in Nat
ASSUME NoArgumentIsNone == NoArgument \notin Argument

VARIABLES
    hashes,     \* request -> the arguments it was made with
    locks,      \* request -> the number of its lock
    results,    \* request -> the arguments its kept result is for, and
                \*   whether its entry had been pruned by then
    completed,  \* ended requests, the oldest first
    aged,       \* how many of them are past the time to live
    call,       \* caller -> where its call is
    accepted

toolVars == <<hashes, locks, results, completed, aged, call, accepted>>

NotCalling == [at |-> "idle"]
NoResult == [for |-> NoArgument, pruned |-> FALSE]
Entries == {q \in ToolRequest : hashes[q] # NoArgument}

ToolInit ==
    /\ hashes = [q \in ToolRequest |-> NoArgument]
    /\ locks = [q \in ToolRequest |-> 0]
    /\ results = [q \in ToolRequest |-> NoResult]
    /\ completed = <<>>
    /\ aged = 0
    /\ call = [c \in Caller |-> NotCalling]
    /\ accepted = 0

Hangup(c) == call' = [call EXCEPT ![c] = NotCalling]
Reaches(c, place) == call' = [call EXCEPT ![c].at = place]

Calling(q, args, lock) == [at |-> "lock", q |-> q, args |-> args, lock |-> lock, pruned |-> FALSE]

(* lock, for an entry that is there; other arguments are refused.          *)
Join(c, q) ==
    /\ call[c] = NotCalling
    /\ accepted < MaxToolCalls
    /\ hashes[q] # NoArgument
    /\ accepted' = accepted + 1
    /\ call' = [call EXCEPT ![c] = Calling(q, hashes[q], locks[q])]
    /\ UNCHANGED <<hashes, locks, results, completed, aged>>

(* _prune: the aged entries go, and older ones while there are too many.   *)
Oldest(k) == {completed[n] : n \in 1..k}
Pruned ==
    CHOOSE k \in 0..Len(completed) :
        /\ \/ k = Len(completed)
           \/ k >= aged /\ Cardinality(Entries \ Oldest(k)) < Capacity
        /\ \A j \in 0..(k - 1) :
             ~(j >= aged /\ Cardinality(Entries \ Oldest(j)) < Capacity)

(* The entries of a set leave; a call that is still with one notices       *)
(* nothing.                                                                *)
Without(gone) ==
    [e \in Caller |-> IF call[e] # NotCalling /\ call[e].q \in gone
                        THEN [call[e] EXCEPT !.pruned = TRUE] ELSE call[e]]
Left(f, gone, none) == [r \in ToolRequest |-> IF r \in gone THEN none ELSE f[r]]

(* lock, for a new entry; refused when the ledger is still full.           *)
Enlist(c, q, args) ==
    LET gone == Oldest(Pruned)
    IN  /\ call[c] = NotCalling
        /\ accepted < MaxToolCalls
        /\ hashes[q] = NoArgument
        /\ completed' = SubSeq(completed, Pruned + 1, Len(completed))
        /\ aged' = 0
        /\ results' = Left(results, gone, NoResult)
        /\ IF Cardinality(Entries \ gone) < Capacity
             THEN /\ accepted' = accepted + 1
                  /\ hashes' = [Left(hashes, gone, NoArgument) EXCEPT ![q] = args]
                  /\ locks' = [Left(locks, gone, 0) EXCEPT ![q] = accepted + 1]
                  /\ call' = [Without(gone) EXCEPT ![c] = Calling(q, args, accepted + 1)]
             ELSE /\ hashes' = Left(hashes, gone, NoArgument)
                  /\ locks' = Left(locks, gone, 0)
                  /\ call' = Without(gone)
                  /\ UNCHANGED accepted

(* async with lock, then the bulkhead.                                     *)
TakeLock(c) ==
    /\ call[c].at = "lock"
    /\ \A e \in Caller : call[e].at \in {"slot", "run", "audit"} => call[e].lock # call[c].lock
    /\ Reaches(c, "slot")
    /\ UNCHANGED <<hashes, locks, results, completed, aged, accepted>>

Start(c) ==
    /\ call[c].at = "slot"
    /\ Cardinality({e \in Caller : call[e].at \in {"run", "audit"}}) < Slots
    /\ IF results[call[c].q] = NoResult
         THEN Reaches(c, "run")
         ELSE call' = [call EXCEPT ![c] = [at |-> "answered", q |-> @.q, args |-> @.args,
                        lock |-> @.lock, pruned |-> @.pruned, got |-> results[@.q]]]
    /\ UNCHANGED <<hashes, locks, results, completed, aged, accepted>>

Answered(c) ==
    /\ call[c].at = "answered"
    /\ Hangup(c)
    /\ UNCHANGED <<hashes, locks, results, completed, aged, accepted>>

(* complete and abort both put the request at the end, as of now.          *)
Unlisted(order, q) ==
    IF \E n \in DOMAIN order : order[n] = q
      THEN LET n == CHOOSE n \in DOMAIN order : order[n] = q
           IN  SubSeq(order, 1, n - 1) \o SubSeq(order, n + 1, Len(order))
      ELSE order
MovedToEnd(q) ==
    /\ completed' = Append(Unlisted(completed, q), q)
    /\ aged' = Cardinality({n \in 1..aged : completed[n] # q})

(* The provider answered, the read-back found it: the result is kept       *)
(* before the success is audited.                                          *)
Complete(c) ==
    /\ call[c].at = "run"
    /\ results' = [results EXCEPT ![call[c].q] = [for |-> call[c].args, pruned |-> call[c].pruned]]
    /\ MovedToEnd(call[c].q)
    /\ Reaches(c, "audit")
    /\ UNCHANGED <<hashes, locks, accepted>>

Deliver(c) ==
    /\ call[c].at = "audit"
    /\ Hangup(c)
    /\ UNCHANGED <<hashes, locks, results, completed, aged, accepted>>

(* Mutant of Fail: the entry goes with its result, though others wait at its lock. *)
FailRemoves(c) ==
    /\ call[c].at \in {"run", "audit"}
    /\ hashes' = [hashes EXCEPT ![call[c].q] = NoArgument]
    /\ locks' = [locks EXCEPT ![call[c].q] = 0]
    /\ results' = [results EXCEPT ![call[c].q] = NoResult]
    /\ completed' = Unlisted(completed, call[c].q)
    /\ aged' = Cardinality({n \in 1..aged : completed[n] # call[c].q})
    /\ Hangup(c)
    /\ UNCHANGED accepted

(* An error, a timeout or a cancellation, in the audit too: abort drops    *)
(* the result and keeps the arguments and the lock.                        *)
Fail(c) ==
    /\ call[c].at \in {"run", "audit"}
    /\ results' = [results EXCEPT ![call[c].q] = NoResult]
    /\ MovedToEnd(call[c].q)
    /\ Hangup(c)
    /\ UNCHANGED <<hashes, locks, accepted>>

(* Cancelled before the try that aborts.                                   *)
CancelWaiting(c) ==
    /\ call[c].at \in {"lock", "slot"}
    /\ Hangup(c)
    /\ UNCHANGED <<hashes, locks, results, completed, aged, accepted>>

AgeEntry ==
    /\ aged < Len(completed)
    /\ aged' = aged + 1
    /\ UNCHANGED <<hashes, locks, results, completed, call, accepted>>

ToolNext ==
    \/ AgeEntry
    \/ \E c \in Caller :
         \/ \E q \in ToolRequest :
              \/ Join(c, q)
              \/ \E args \in Argument : Enlist(c, q, args)
         \/ TakeLock(c) \/ Start(c) \/ Answered(c)
         \/ Complete(c) \/ Deliver(c) \/ Fail(c) \/ CancelWaiting(c)

ToolSpec == ToolInit /\ [][ToolNext]_toolVars
=============================================================================
