----------------------------- MODULE MCServices -----------------------------
(* Small instances of the parts.  They share model values, so that one     *)
(* symmetry serves them all.                                               *)
EXTENDS Services, TLC

CONSTANTS a1, a2, b1, b2, b3, c1, c2, d1, d2, worker

EachASource == {{d} : d \in Document}
Symmetry ==
    Permutations({a1, a2}) \cup Permutations({b1, b2}) \cup
    Permutations({c1, c2}) \cup Permutations({d1, d2})
=============================================================================
