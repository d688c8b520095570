---------------------------- MODULE MCRunWorker -----------------------------
(* Instances of RunWorker small enough for TLC. *)
EXTENDS RunWorkerProps, TLC

CONSTANTS r1, r2, w1, w2, a1, a2, t1

OneTenant == [r \in Run |-> t1]
Symmetry == Permutations(Run) \cup Permutations(Worker) \cup Permutations(Api)
=============================================================================
