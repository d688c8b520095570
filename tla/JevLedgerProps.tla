---------------------------- MODULE JevLedgerProps ----------------------------
(* What the deployment may rely on when it sets a budget. *)
EXTENDS JevLedger

LedgerTypeOK ==
    /\ today \in 1..Days
    /\ \A d \in 1..Days : flock[d] \in Router \cup {NoRouter}
    /\ \A r \in Router : router[r].at \in {"locked", "flush"} => flock[router[r].day] = r
    /\ \A d \in 1..Days : \A m, n \in Attempts(d) :
         journal[d][m].id = journal[d][n].id => m = n \/ ~Readable(d)

BilledOn(d) == {n \in DOMAIN bill : bill[n].day = d}
WithinReservation(n) == IF bill[n].cost < bill[n].usd THEN bill[n].cost ELSE bill[n].usd

(* What the provider bills for a day's calls stays in the budget, but for  *)
(* what single calls cost beyond their reservation: whichever processes    *)
(* race for the last of it, and however many calls die, go unanswered or   *)
(* are never settled (orchestration/jev_ledger.py:11, "A reservation is    *)
(* *never* refunded").                                                     *)
SpendStaysInBudget ==
    \A d \in 1..Days : Total([n \in BilledOn(d) |-> WithinReservation(n)]) <= Budget

(* A journal becomes unreadable, which stops the router for the day, only  *)
(* when a write was torn.  The code does not keep this: the header that a  *)
(* refusal leaves in the buffer of an empty file is written after the lock *)
(* is released, perhaps behind another process's header                    *)
(* (orchestration/jev_ledger.py:277-298).                                  *)
JournalStaysReadable ==
    \A d \in 1..Days : Readable(d) \/ losses > 0
=============================================================================
