---------------------------- MODULE RunExecution ----------------------------
(***************************************************************************)
(* What RunQueue.execution_guard promises, with no locks, leases or rows:  *)
(* the sessions (worker tasks and HTTP decisions) that are inside the      *)
(* guard run the graphs of distinct runs, and no more than SlotLimit of    *)
(* them belong to one tenant.                                              *)
(***************************************************************************)
EXTENDS Naturals, FiniteSets

CONSTANTS
  Run,          \* agent_runs rows
  Session,      \* whoever may invoke a graph
  Tenant,
  TenantOf,     \* [Run -> Tenant]
  SlotLimit,    \* per_tenant_limit
  NoRun

VARIABLE executing    \* [Session -> Run \cup {NoRun}]: the run a session is inside the guard for

Busy(t) == {s \in Session : executing[s] # NoRun /\ TenantOf[executing[s]] = t}

Init == executing = [s \in Session |-> NoRun]

Enter(s, r) ==
  /\ executing[s] = NoRun
  /\ \A u \in Session : executing[u] # r
  /\ Cardinality(Busy(TenantOf[r])) < SlotLimit
  /\ executing' = [executing EXCEPT ![s] = r]

Leave(s) ==
  /\ executing[s] # NoRun
  /\ executing' = [executing EXCEPT ![s] = NoRun]

Next == \E s \in Session : Leave(s) \/ \E r \in Run : Enter(s, r)

Spec == Init /\ [][Next]_executing
=============================================================================
