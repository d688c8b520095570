--------------------------- MODULE KnowledgeIndex ---------------------------
(***************************************************************************)
(* The knowledge corpus of one tenant: PostgreSQL holds the authority      *)
(* (rag/repository.py), OpenSearch one projection per embedding generation *)
(* behind an alias (rag/opensearch.py), and rag/service.py keeps the two   *)
(* together without a transaction across them.                             *)
(*                                                                         *)
(* The ingester is a process run by scripts/ingest_phase4_rag.py:          *)
(* reconcile, then one ingest per source.  Operators, and runs that find   *)
(* an injection, retire documents meanwhile and operators reinstate them;  *)
(* readers search, then expand.  Every replacement of a document in        *)
(* PostgreSQL makes new chunk ids: its build.                              *)
(*                                                                         *)
(* One row stands for all chunks of a document in an index.  Index writes  *)
(* are visible at once (the code refreshes before it decides on them).     *)
(* One ingester at a time.  Left out: the job register, which only         *)
(* reports, and deletion (unpublish, authoritative=True, the pruning that  *)
(* follows them), which nothing in the service calls.                      *)
(***************************************************************************)
EXTENDS Naturals, FiniteSets

CONSTANTS
    Document,      \* source records
    Text,          \* what a source may say in a record
    Source,        \* sets of documents that are loaded and ingested together
    Generation,    \* embedding identities
    NoGeneration,  \* the alias does not exist yet
    Operator,      \* requests that retire or reinstate
    MaxEvents      \* bound on starts, changes, upgrades, requests and faults

ASSUME NoGenerationIsNone == NoGeneration \notin Generation
ASSUME SourcesHoldDocuments == Source \subseteq SUBSET Document
ASSUME EventsAreBounded == MaxEvents \in Nat

VARIABLES
    supplied,  \* document -> what its source says now
    identity,  \* the embedding identity a new process is configured with
    stored,    \* the PostgreSQL rows of the documents that have one
    builds,    \* replacements so far, which number the builds
    index,     \* generation -> rows of its concrete index
    alias,     \* the generation readers resolve
    ingester,  \* the ingestion process
    operator,  \* operator -> the request it is in
    reader,    \* hits a retrieval has and not yet expanded
    events

knowledgeVars == <<supplied, identity, stored, builds, index, alias,
                   ingester, operator, reader, events>>

Off == [at |-> "off"]
NoRequest == [doc |-> "none"]
Searching == [at |-> "query"]

Stored == DOMAIN stored
NewRow(d) == [doc |-> d, build |-> ingester.build[d], active |-> TRUE]
RowsOf(g, d) == {r \in index[g] : r.doc = d}

(* A state of the ingester's progress with one document of its batch.      *)
Reached(d, stage) == d \in DOMAIN ingester.batch /\ ingester.stage[d] = stage
Reach(d, stage) == ingester' = [ingester EXCEPT !.stage[d] = stage]

Event == events < MaxEvents /\ events' = events + 1

-----------------------------------------------------------------------------
NothingIngested ==
    /\ stored = <<>>
    /\ builds = 0
    /\ index = [g \in Generation |-> {}]
    /\ alias = NoGeneration
    /\ ingester = Off
    /\ operator = [o \in Operator |-> NoRequest]
    /\ reader = Searching
    /\ events = 0

KnowledgeInit ==
    /\ NothingIngested
    /\ supplied \in [Document -> Text]
    /\ identity \in Generation

(* A source changes a record; the deployment changes the embedding model.  *)
Change(d) ==
    /\ Event
    /\ \E t \in Text \ {supplied[d]} : supplied' = [supplied EXCEPT ![d] = t]
    /\ UNCHANGED <<identity, stored, builds, index, alias, ingester, operator, reader>>

Upgrade ==
    /\ Event
    /\ ingester = Off
    /\ identity' \in Generation \ {identity}
    /\ UNCHANGED <<supplied, stored, builds, index, alias, ingester, operator, reader>>

-----------------------------------------------------------------------------
(* The ingestion process *)

StartIngester(sources) ==
    /\ Event
    /\ ingester = Off
    /\ ingester' = [at |-> "reconcile", left |-> sources, requested |-> FALSE]
    /\ UNCHANGED <<supplied, identity, stored, builds, index, alias, operator, reader>>

(* Pending documents found in the active generation; none in a migration.  *)
Confirmed ==
    IF alias # identity THEN {}
    ELSE {d \in Stored : stored[d].status = "pending_index" /\ RowsOf(alias, d) # {}}

Reconcile ==
    /\ ingester.at = "reconcile"
    /\ stored' = [d \in Stored |-> IF d \in Confirmed
                                     THEN [stored[d] EXCEPT !.status = "indexed"]
                                     ELSE stored[d]]
    /\ ingester' = [ingester EXCEPT !.at = "source"]
    /\ UNCHANGED <<supplied, identity, builds, index, alias, operator, reader, events>>

(* Mutant of RegenerationDue: unchanged documents stay as they are. *)
RegenerationForgotten == FALSE

(* ingest: the first batch that meets another active generation            *)
RegenerationDue == ~ingester.requested /\ alias \notin {NoGeneration, identity}

(* source.load(), then request_regeneration when the identity has changed. *)
Load(s) ==
    /\ ingester.at = "source"
    /\ s \in ingester.left
    /\ ingester' = [at |-> "ingest", left |-> ingester.left \ {s},
                    requested |-> ingester.requested \/ RegenerationDue,
                    batch |-> [d \in s |-> supplied[d]],
                    stage |-> [d \in s |-> "todo"],
                    build |-> [d \in s |-> 0]]
    /\ stored' = IF RegenerationDue
                   THEN [d \in Stored |-> [stored[d] EXCEPT !.status = "pending_index"]]
                   ELSE stored
    /\ UNCHANGED <<supplied, identity, builds, index, alias, operator, reader, events>>

(* is_current *)
IsCurrent(d) ==
    /\ d \in Stored
    /\ stored[d].text = ingester.batch[d]
    /\ stored[d].status = "indexed"

Skip(d) ==
    /\ Reached(d, "todo")
    /\ IsCurrent(d)
    /\ Reach(d, "done")
    /\ UNCHANGED <<supplied, identity, stored, builds, index, alias, operator, reader, events>>

(* The row an upsert leaves: the access rules are those of the source.     *)
Upserted(d) ==
    [text |-> ingester.batch[d], active |-> TRUE, status |-> "pending_index",
     build |-> builds + 1]

(* repository.replace: the row, its chunks and their ids in one commit.    *)
Replace(d) ==
    /\ Reached(d, "todo")
    /\ ~IsCurrent(d)
    /\ stored' = [e \in Stored \cup {d} |-> IF e = d THEN Upserted(d) ELSE stored[e]]
    /\ builds' = builds + 1
    /\ ingester' = [ingester EXCEPT !.stage[d] = "replaced", !.build[d] = builds + 1]
    /\ UNCHANGED <<supplied, identity, index, alias, operator, reader, events>>

(* index.replace_document: the old rows go, the chunks are embedded, the   *)
(* new rows are written, with the access rules the document was loaded by. *)
Clear(d) ==
    /\ Reached(d, "replaced")
    /\ index' = [index EXCEPT ![identity] = @ \ RowsOf(identity, d)]
    /\ Reach(d, "cleared")
    /\ UNCHANGED <<supplied, identity, stored, builds, alias, operator, reader, events>>

WriteRows(d) ==
    /\ Reached(d, "cleared")
    /\ index' = [index EXCEPT ![identity] = @ \cup {NewRow(d)}]
    /\ Reach(d, "written")
    /\ UNCHANGED <<supplied, identity, stored, builds, alias, operator, reader, events>>

MarkIndexed(d) ==
    /\ Reached(d, "written")
    /\ stored' = [stored EXCEPT ![d].status = "indexed"]
    /\ Reach(d, "done")
    /\ UNCHANGED <<supplied, identity, builds, index, alias, operator, reader, events>>

(* Parsing, embedding or a store fails for one document.                   *)
DocumentFails(d) ==
    /\ Event
    /\ \E stage \in {"todo", "replaced", "cleared", "written"} : Reached(d, stage)
    /\ Reach(d, "failed")
    /\ UNCHANGED <<supplied, identity, stored, builds, index, alias, operator, reader>>

Finished == \A d \in DOMAIN ingester.batch : ingester.stage[d] \in {"done", "failed"}
Between == [at |-> "source", left |-> ingester.left, requested |-> ingester.requested]

(* The first error is raised again once every document was attempted: the  *)
(* script ends.                                                            *)
BatchFails ==
    /\ ingester.at = "ingest"
    /\ Finished
    /\ \E d \in DOMAIN ingester.batch : Reached(d, "failed")
    /\ ingester' = Off
    /\ UNCHANGED <<supplied, identity, stored, builds, index, alias, operator, reader, events>>

NothingPending == \A d \in Stored : stored[d].status = "indexed"

CountPending ==
    /\ ingester.at = "ingest"
    /\ Finished
    /\ \A d \in DOMAIN ingester.batch : Reached(d, "done")
    /\ ingester' = IF NothingPending THEN [ingester EXCEPT !.at = "publish"] ELSE Between
    /\ UNCHANGED <<supplied, identity, stored, builds, index, alias, operator, reader, events>>

(* publish: nothing to do, an index still empty, or the flip.              *)
Publish ==
    /\ ingester.at = "publish"
    /\ \/ /\ alias = identity \/ (alias # NoGeneration /\ index[identity] = {})
          /\ ingester' = Between
          /\ UNCHANGED alias
       \/ /\ alias # identity
          /\ alias = NoGeneration \/ index[identity] # {}
          /\ alias' = identity
          /\ ingester' = [ingester EXCEPT !.at = "retire"]
    /\ UNCHANGED <<supplied, identity, stored, builds, index, operator, reader, events>>

(* _retire_superseded *)
RetireSuperseded ==
    /\ ingester.at = "retire"
    /\ index' = [g \in Generation |-> IF g = identity THEN index[g] ELSE {}]
    /\ ingester' = Between
    /\ UNCHANGED <<supplied, identity, stored, builds, alias, operator, reader, events>>

EndIngester ==
    /\ ingester.at = "source"
    /\ ingester.left = {}
    /\ ingester' = Off
    /\ UNCHANGED <<supplied, identity, stored, builds, index, alias, operator, reader, events>>

Die ==
    /\ Event
    /\ ingester # Off
    /\ ingester' = Off
    /\ UNCHANGED <<supplied, identity, stored, builds, index, alias, operator, reader>>

-----------------------------------------------------------------------------
(* set_document_active: the authority first, then every generation.  The   *)
(* endpoint answers 404 when no row matched; the index was called anyway.  *)

Authority(o, d, active) ==
    /\ Event
    /\ operator[o] = NoRequest
    /\ operator' = [operator EXCEPT ![o] = [doc |-> d, active |-> active]]
    /\ stored' = IF d \in Stored THEN [stored EXCEPT ![d].active = active] ELSE stored
    /\ UNCHANGED <<supplied, identity, builds, index, alias, ingester, reader>>

Projection(o) ==
    /\ operator[o] # NoRequest
    /\ LET Patched(r) == IF r.doc = operator[o].doc
                           THEN [r EXCEPT !.active = operator[o].active] ELSE r
       IN  index' = [g \in Generation |-> {Patched(r) : r \in index[g]}]
    /\ operator' = [operator EXCEPT ![o] = NoRequest]
    /\ UNCHANGED <<supplied, identity, stored, builds, alias, ingester, reader, events>>

(* The process dies, or OpenSearch fails, after the authority's commit.    *)
ProjectionFails(o) ==
    /\ Event
    /\ operator[o] # NoRequest
    /\ operator' = [operator EXCEPT ![o] = NoRequest]
    /\ UNCHANGED <<supplied, identity, stored, builds, index, alias, ingester, reader>>

-----------------------------------------------------------------------------
(* Retrieval: the search with its pre-filter, then the parents.            *)

Search ==
    /\ reader.at = "query"
    /\ alias # NoGeneration
    /\ reader' = [at |-> "expand", hits |-> {r \in index[alias] : r.active}]
    /\ UNCHANGED <<supplied, identity, stored, builds, index, alias, ingester, operator, events>>

(* Mutant of Authorized: the index was right about the activation. *)
AuthorizedByIndex(hits) == {r \in hits : stored[r.doc].build = r.build}

(* authorized_parents: PostgreSQL decides again, on the chunks it has now. *)
Authorized(hits) ==
    {r \in hits : stored[r.doc].build = r.build /\ stored[r.doc].active}

Expand ==
    /\ reader.at = "expand"
    /\ reader' = [at |-> "served", passages |-> Authorized(reader.hits)]
    /\ UNCHANGED <<supplied, identity, stored, builds, index, alias, ingester, operator, events>>

Served ==
    /\ reader.at = "served"
    /\ reader' = Searching
    /\ UNCHANGED <<supplied, identity, stored, builds, index, alias, ingester, operator, events>>

-----------------------------------------------------------------------------
IngesterStep ==
    \/ Reconcile \/ BatchFails \/ CountPending \/ Publish \/ RetireSuperseded
    \/ EndIngester \/ Die
    \/ \E s \in Source : Load(s)
    \/ /\ ingester.at = "ingest"
       /\ \E d \in Document :
            \/ Skip(d) \/ Replace(d) \/ Clear(d) \/ WriteRows(d) \/ MarkIndexed(d)
            \/ DocumentFails(d)

KnowledgeNext ==
    \/ Upgrade \/ IngesterStep \/ Search \/ Expand \/ Served
    \/ \E d \in Document : Change(d)
    \/ \E sources \in SUBSET Source \ {{}} : StartIngester(sources)
    \/ \E o \in Operator :
         \/ \E d \in Document, active \in BOOLEAN : Authority(o, d, active)
         \/ Projection(o) \/ ProjectionFails(o)

KnowledgeSpec == KnowledgeInit /\ [][KnowledgeNext]_knowledgeVars
=============================================================================
