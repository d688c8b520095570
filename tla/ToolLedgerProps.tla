---------------------------- MODULE ToolLedgerProps ----------------------------
(* What the duplicates of a tool call are promised by the ledger. *)
EXTENDS ToolLedger

ToolTypeOK ==
    /\ Cardinality(Entries) <= Capacity
    /\ aged \in 0..Len(completed)
    /\ \A m, n \in DOMAIN completed : completed[m] = completed[n] => m = n
    /\ \A q \in ToolRequest : hashes[q] # NoArgument <=> locks[q] # 0
    /\ \A c \in Caller : call[c].at # "idle" => call[c].lock \in 1..accepted

Going(c) == call[c].at \in {"run", "audit"}
Current(c) == ~call[c].pruned

(* Two calls with one request id do not run together, one whose result is  *)
(* kept does not run again, and a kept result answers only calls with the  *)
(* arguments it was made for: except for a call whose entry was pruned     *)
(* under it, and what such a call has kept.  (ToolGateway.execute under    *)
(* the ledger's lock, abort's tombstones.)                                 *)
DuplicatesAreSuppressed ==
    /\ \A c, e \in Caller :
         c # e /\ Going(c) /\ Going(e) /\ Current(c) /\ Current(e) => call[c].q # call[e].q
    /\ \A c \in Caller :
         /\ call[c].at = "run" /\ Current(c) =>
              results[call[c].q] = NoResult \/ results[call[c].q].pruned
         /\ call[c].at = "answered" /\ Current(c) =>
              call[c].got.for = call[c].args \/ call[c].got.pruned

(* The same with nothing excepted.  The code does not keep this: the entry *)
(* of a failed request counts as completed while a retry of it runs        *)
(* (tool_platform/resilience.py:152-159), and is pruned under the retry.   *)
OneCallPerRequest ==
    \A c, e \in Caller : c # e /\ Going(c) /\ Going(e) => call[c].q # call[e].q

(* What is in the ledger will leave it.  The code does not keep this: a    *)
(* call cancelled while it waits for the bulkhead leaves an entry that     *)
(* never completes, and only completed ones are pruned                     *)
(* (tool_platform/gateway.py:189, resilience.py:123-128).                   *)
NoEntryIsStranded ==
    \A q \in Entries :
        \/ \E n \in DOMAIN completed : completed[n] = q
        \/ \E c \in Caller : call[c].at # "idle" /\ call[c].q = q /\ Current(c)
=============================================================================
