-------------------------- MODULE MCKnowledgeIndex --------------------------
(* One source with one document under one embedding identity. *)
EXTENDS KnowledgeIndexProps

CONSTANTS d1, t1, t2, g1

OneSource == {Document}
=============================================================================
