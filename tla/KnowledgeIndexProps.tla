------------------------- MODULE KnowledgeIndexProps -------------------------
(* What the corpus promises to operators and readers. *)
EXTENDS KnowledgeIndex

(* Rows have their fields, and every index row is of a build that was made *)
(* for its document; a superseded generation is empty once it is retired.  *)
KnowledgeTypeOK ==
    /\ supplied \in [Document -> Text]
    /\ identity \in Generation
    /\ Stored \subseteq Document
    /\ \A d \in Stored :
         stored[d] \in [text : Text, active : BOOLEAN, build : 1..builds,
                        status : {"pending_index", "indexed"}]
    /\ \A g \in Generation :
         index[g] \subseteq [doc : Document, build : 1..builds, active : BOOLEAN]
    /\ alias \in Generation \cup {NoGeneration}
    /\ events \in 0..MaxEvents

(* What a reader gets was, when its parents were fetched, a document in    *)
(* force in PostgreSQL in its present version, whatever the index said     *)
(* when it was searched and whoever was rewriting it.                      *)
ServedIsInForce ==
    [][reader.at = "expand" /\ reader'.at = "served" =>
         \A r \in reader'.passages :
            /\ r.doc \in Stored /\ stored[r.doc].active
            /\ \A q \in reader'.passages : q.doc = r.doc => q = r]_knowledgeVars

(* The alias leaves a generation only for one that has the present chunks  *)
(* of every document, so readers lose none by the flip (publish,           *)
(* request_regeneration), over crashes and repeated upgrades.              *)
PublishedIsWhole ==
    [][alias # NoGeneration /\ alias' # alias =>
         \A d \in Stored : \E r \in index[alias'] :
            r.doc = d /\ r.build = stored[d].build]_knowledgeVars

(* "pending documents that ARE present in the active generation are        *)
(* confirmed indexed (they were fully written)" (rag/service.py:148-149).  *)
(* The code does not keep this: reconcile compares document ids, and a     *)
(* replaced document keeps its id, so rows of its former build confirm it. *)
IndexedIsWritten ==
    \A d \in Stored :
        stored[d].status = "indexed" =>
            \E g \in Generation : \E r \in index[g] :
                r.doc = d /\ r.build = stored[d].build

(* A re-ingest keeps a retirement: "every later re-ingest re-derives the   *)
(* flag from this ACL anyway" (rag/repository.py:332-333).  The code does  *)
(* not keep this: replace() writes the source's ACL over the operator's.   *)
RetiredStaysRetired ==
    [][\A d \in Stored :
         d \in DOMAIN stored' /\ ~stored[d].active /\ stored'[d].active =>
            \E o \in Operator : operator'[o] = [doc |-> d, active |-> TRUE]]_knowledgeVars
=============================================================================
