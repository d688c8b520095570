------------------------ MODULE MemoryLifecycleProofs ------------------------
(* Proofs about MemoryLifecycle, for any number of sessions, runs, tickets   *)
(* and contents.                                                            *)
EXTENDS MemoryLifecycleProps, FiniteSetTheorems, SequenceTheorems,
        WellFoundedInduction, TLAPS

-----------------------------------------------------------------------------
(* What must hold besides the properties for a step to keep them.          *)

(* What a row, a candidate and a session are, up to what they refer to.    *)
RowKind ==
    [subject : Subject, content : Content, run : Run, evidence : SUBSET Ticket,
     supports : SUBSET Nat, version : Nat, status : Status, reviewed : BOOLEAN]
Candidate ==
    [subject : Subject, content : Content, run : Run, evidence : SUBSET Ticket,
     supports : SUBSET Nat, status : Pending]

Persisting == [at : {"persist"}, candidate : Candidate]
Comparing == [at : {"compare"}, candidate : Candidate, rows : SUBSET Nat]
Inserting == [at : {"insert"}, candidate : Candidate, rows : SUBSET Nat,
              version : Nat, status : Pending]
Corroborating == [at : {"corroborate"}, run : Run]
Reviewing == [at : {"review", "decide"}, row : Nat, decision : {"activate", "reject"}]
Revoking == [at : {"revoke", "revoking", "revoked"}, evidence : Ticket]
Retrieving == [at : {"candidates"}, rows : SUBSET Nat]
Embedding == [at : {"embed", "served"}, ids : SUBSET Nat]
Serving == [at : {"serve"}, ids : SUBSET Nat, rows : SUBSET Nat]
Place ==
    {Idle} \cup Persisting \cup Comparing \cup Inserting \cup Corroborating \cup Reviewing
      \cup Revoking \cup Retrieving \cup Embedding \cup Serving

(* A procedure's supports are episodes, whose evidence it cites too.       *)
Rests(rows, supports, evidence) ==
    /\ supports \subseteq DOMAIN rows
    /\ \A e \in supports : rows[e].subject # Procedure /\ rows[e].evidence \subseteq evidence

RowsFit ==
    /\ memory \in Seq(RowKind)
    /\ \A m \in Rows :
         /\ Rests(memory, memory[m].supports, memory[m].evidence)
         /\ memory[m].version \in 1..Len(memory)
         /\ IsProcedure(m) /\ memory[m].status = "ACTIVE" => memory[m].reviewed
    /\ \A m, n \in Rows :
         memory[m].subject = memory[n].subject /\ memory[m].version = memory[n].version => m = n

(* A version that a session is about to insert as active follows one that   *)
(* has ended, or that the session expires, and repeats nothing revoked.    *)
FollowsEnded(rows, place) ==
    \A n \in Versions(rows, place.candidate.subject) :
        IsLatest(rows, n) =>
            \/ n \in place.rows
            \/ /\ rows[n].status \notin Pending
               /\ rows[n].status = "REVOKED" => rows[n].content # place.candidate.content

(* A candidate keeps what its supports were, and no procedure is written as *)
(* active; who inserts holds the lock under which it counted the versions. *)
CandidateFits(rows, c) ==
    /\ Rests(rows, c.supports, c.evidence)
    /\ c.subject = Procedure => c.status = "QUARANTINE"

PlaceFits(rows, place) ==
    /\ place.at \in {"persist", "compare", "insert"} => CandidateFits(rows, place.candidate)
    /\ place.at = "insert" =>
         /\ place.candidate.subject = Procedure => place.status = "QUARANTINE"
         /\ place.version = Cardinality(Versions(rows, place.candidate.subject)) + 1
         /\ place.status = "ACTIVE" => FollowsEnded(rows, place)
    /\ place.at \in {"embed", "serve", "served"} => place.ids \subseteq DOMAIN rows
    /\ place.at \in {"review", "decide"} => place.row \in DOMAIN rows

SessionsFit ==
    /\ session \in [Session -> Place]
    /\ \A s \in Session : PlaceFits(memory, session[s])

(* The locks: who writes alone, and whose rows are expired by whom.        *)
Writing == {"insert", "decide", "revoking"}
LocksFit ==
    /\ writer \in Session \cup {Nobody}
    /\ \A s \in Session :
         /\ (writer = s) <=> session[s].at \in Writing
         /\ \A m \in HeldRows(s) : /\ m \in due /\ memory[m].status = "ACTIVE"
                                   /\ m \notin LockedByOthers(s)

RestFits ==
    /\ due \subseteq Rows
    /\ outcome \in [Run -> Outcome]
    /\ begun \in 0..MaxRequests

MemoryInv == RowsFit /\ SessionsFit /\ LocksFit /\ RestFits /\ VersionsCount

-----------------------------------------------------------------------------
(* Numbers, sequences and places. *)

LEMMA LeastElement ==
  ASSUME NEW S, S \subseteq Nat, S # {}
  PROVE  \E m \in S : \A n \in S : m <= n
<1> DEFINE R == {pair \in Nat \X Nat : pair[1] < pair[2]}
<1>1. IsWellFoundedOn(R, Nat)
  BY NatLessThanWellFounded DEF OpToRel
<1>2. \A x, y \in S : y < x => <<y, x>> \in R
  OBVIOUS
<1> HIDE DEF R
<1>3. PICK x \in S : \A y \in S : ~ (<<y, x>> \in R)
  <2>1. \E x \in S : \A y \in S : ~ (<<y, x>> \in R)
    BY <1>1, WFMin
  <2> QED
    BY <2>1
<1>4. ASSUME NEW y \in S PROVE x <= y
  <2>1. x \in Nat /\ y \in Nat
    OBVIOUS
  <2>2. ~(y < x)
    BY <1>2, <1>3
  <2> QED
    BY <2>1, <2>2
<1> QED
  BY <1>4

LEMMA FunctionIsSeq ==
  ASSUME NEW S, NEW n \in Nat, NEW f \in [1..n -> S]
  PROVE  f \in Seq(S) /\ Len(f) = n /\ DOMAIN f = 1..n
<1>1. f \in Seq(S)
  OBVIOUS
<1> QED
  BY <1>1, LenProperties

LEMMA RowsAreNumbered ==
  ASSUME RowsFit
  PROVE  /\ Len(memory) \in Nat /\ Rows = 1..Len(memory)
         /\ memory \in [Rows -> RowKind]
  BY LenProperties DEF RowsFit, Rows

(* Where a session is says what it remembers. *)
LEMMA PlaceIs ==
  ASSUME NEW place \in Place
  PROVE  /\ place.at = "idle" => place = Idle
         /\ place.at = "persist" => place \in Persisting
         /\ place.at = "compare" => place \in Comparing
         /\ place.at = "insert" => place \in Inserting
         /\ place.at = "corroborate" => place \in Corroborating
         /\ place.at \in {"review", "decide"} => place \in Reviewing
         /\ place.at \in {"revoke", "revoking", "revoked"} => place \in Revoking
         /\ place.at = "candidates" => place \in Retrieving
         /\ place.at \in {"embed", "served"} => place \in Embedding
         /\ place.at = "serve" => place \in Serving
         /\ "rows" \in DOMAIN place <=> place.at \in {"compare", "insert", "candidates", "serve"}
         /\ place.at \in {"idle", "persist", "compare", "insert", "corroborate", "review",
                          "decide", "revoke", "revoking", "revoked", "candidates", "embed",
                          "served", "serve"}
<1> USE DEF Idle, Persisting, Comparing, Inserting, Corroborating, Reviewing, Revoking,
            Retrieving, Embedding, Serving
<1>1. CASE place = Idle
  BY <1>1
<1>2. CASE place \in Persisting
  BY <1>2
<1>3. CASE place \in Comparing
  BY <1>3
<1>4. CASE place \in Inserting
  BY <1>4
<1>5. CASE place \in Corroborating
  BY <1>5
<1>6. CASE place \in Reviewing
  BY <1>6
<1>7. CASE place \in Revoking
  BY <1>7
<1>8. CASE place \in Retrieving
  BY <1>8
<1>9. CASE place \in Embedding
  BY <1>9
<1>10. CASE place \in Serving
  BY <1>10
<1> QED
  BY <1>1, <1>2, <1>3, <1>4, <1>5, <1>6, <1>7, <1>8, <1>9, <1>10 DEF Place

-----------------------------------------------------------------------------
(* Rewriting rows: what a session may do to rows that are there.           *)

SameRow(new, old) ==
    /\ new.subject = old.subject /\ new.content = old.content /\ new.run = old.run
    /\ new.evidence = old.evidence /\ new.supports = old.supports /\ new.version = old.version

(* Ended rows, and rows that another session is about to expire, keep their *)
(* status; no procedure becomes active unreviewed.                         *)
Rewrites(s, next) ==
    /\ next \in [Rows -> RowKind]
    /\ \A m \in Rows :
         /\ SameRow(next[m], memory[m])
         /\ memory[m].status \notin Pending \/ m \in LockedByOthers(s) =>
              next[m].status = memory[m].status
         /\ IsProcedure(m) /\ next[m].status = "ACTIVE" => next[m].reviewed

LEMMA ViewIs ==
  ASSUME RowsFit, NEW s \in Session
  PROVE  /\ View(s) \in [Rows -> RowKind]
         /\ \A m \in Rows : /\ SameRow(View(s)[m], memory[m])
                            /\ View(s)[m].reviewed = memory[m].reviewed
                            /\ View(s)[m].status = IF m \in HeldRows(s) THEN "EXPIRED"
                                                   ELSE memory[m].status
<1>1. ASSUME NEW m \in Rows
      PROVE  /\ View(s)[m] \in RowKind
             /\ SameRow(View(s)[m], memory[m])
             /\ View(s)[m].reviewed = memory[m].reviewed
             /\ View(s)[m].status = IF m \in HeldRows(s) THEN "EXPIRED" ELSE memory[m].status
  <2>1. memory[m] \in RowKind
    BY RowsAreNumbered
  <2>2. View(s)[m] = IF m \in HeldRows(s) THEN [memory[m] EXCEPT !.status = "EXPIRED"]
                     ELSE memory[m]
    BY DEF View
  <2> QED
    BY <2>1, <2>2 DEF RowKind, SameRow, Status
<1>2. View(s) = [m \in Rows |-> View(s)[m]]
  BY DEF View
<1> QED
  BY <1>1, <1>2

LEMMA MarkIs ==
  ASSUME NEW D, NEW rows \in [D -> RowKind], NEW ids, NEW status \in Status
  PROVE  /\ Mark(rows, ids, status) \in [D -> RowKind]
         /\ \A m \in D :
              /\ SameRow(Mark(rows, ids, status)[m], rows[m])
              /\ Mark(rows, ids, status)[m].reviewed = rows[m].reviewed
              /\ Mark(rows, ids, status)[m].status = IF m \in ids THEN status
                                                     ELSE rows[m].status
<1>1. ASSUME NEW m \in D
      PROVE  LET new == Mark(rows, ids, status)[m]
             IN  /\ new \in RowKind /\ SameRow(new, rows[m]) /\ new.reviewed = rows[m].reviewed
                 /\ new.status = IF m \in ids THEN status ELSE rows[m].status
  <2>1. Mark(rows, ids, status)[m] = IF m \in ids THEN [rows[m] EXCEPT !.status = status]
                                     ELSE rows[m]
    BY DEF Mark
  <2> QED
    BY <2>1 DEF RowKind, SameRow
<1>2. Mark(rows, ids, status) = [m \in D |-> Mark(rows, ids, status)[m]]
  BY DEF Mark
<1> QED
  BY <1>1, <1>2

LEMMA ViewRewrites ==
  ASSUME RowsFit, LocksFit, NEW s \in Session
  PROVE  Rewrites(s, View(s))
<1>1. \A m \in HeldRows(s) : memory[m].status = "ACTIVE" /\ m \notin LockedByOthers(s)
  BY DEF LocksFit
<1>2. \A m \in Rows : IsProcedure(m) /\ memory[m].status = "ACTIVE" => memory[m].reviewed
  BY DEF RowsFit
<1> QED
  BY <1>1, <1>2, ViewIs DEF Rewrites, Pending

LEMMA MemoryRewrites ==
  ASSUME RowsFit, NEW s \in Session
  PROVE  Rewrites(s, memory)
  BY RowsAreNumbered DEF Rewrites, RowsFit, SameRow

LEMMA MarkRewrites ==
  ASSUME RowsFit, NEW s \in Session, NEW rows, Rewrites(s, rows),
         NEW ids, NEW status \in Status \ {"ACTIVE"},
         \A m \in ids \cap Rows : memory[m].status \in Pending /\ m \notin LockedByOthers(s)
  PROVE  Rewrites(s, Mark(rows, ids, status))
<1>1. rows \in [Rows -> RowKind]
  BY DEF Rewrites
<1>2. /\ Mark(rows, ids, status) \in [Rows -> RowKind]
      /\ \A m \in Rows :
           /\ SameRow(Mark(rows, ids, status)[m], rows[m])
           /\ Mark(rows, ids, status)[m].reviewed = rows[m].reviewed
           /\ Mark(rows, ids, status)[m].status = IF m \in ids THEN status ELSE rows[m].status
  BY <1>1, MarkIs
<1> QED
  BY <1>2 DEF Rewrites, SameRow

(* Rewritten rows fit as the old ones did. *)
LEMMA RewrittenRowsFit ==
  ASSUME RowsFit, NEW s \in Session, Rewrites(s, memory')
  PROVE  /\ RowsFit' /\ Rows' = Rows /\ Len(memory') = Len(memory)
         /\ \A m \in Rows : memory[m].status \notin Pending => memory'[m].status = memory[m].status
<1>1. /\ Len(memory) \in Nat /\ Rows = 1..Len(memory)
      /\ memory' \in [1..Len(memory) -> RowKind]
  BY RowsAreNumbered DEF Rewrites
<1>2. memory' \in Seq(RowKind) /\ Len(memory') = Len(memory) /\ DOMAIN memory' = 1..Len(memory)
  BY <1>1, FunctionIsSeq
<1>3. Rows' = Rows
  BY <1>1, <1>2 DEF Rows
<1>4. ASSUME NEW m \in Rows
      PROVE  /\ Rests(memory', memory'[m].supports, memory'[m].evidence)
             /\ memory'[m].version \in 1..Len(memory')
             /\ memory'[m].subject = Procedure /\ memory'[m].status = "ACTIVE" =>
                  memory'[m].reviewed
  <2>1. Rests(memory, memory[m].supports, memory[m].evidence)
    BY DEF RowsFit
  <2>2. \A e \in Rows : SameRow(memory'[e], memory[e])
    BY DEF Rewrites
  <2>3. Rests(memory', memory'[m].supports, memory'[m].evidence)
    BY <1>1, <1>2, <2>1, <2>2 DEF Rests, SameRow, Rows
  <2> QED
    BY <1>2, <2>2, <2>3 DEF Rewrites, RowsFit, IsProcedure, SameRow
<1>5. ASSUME NEW m \in Rows, NEW n \in Rows,
             memory'[m].subject = memory'[n].subject, memory'[m].version = memory'[n].version
      PROVE  m = n
  BY <1>5 DEF RowsFit, Rewrites, SameRow
<1> QED
  BY <1>2, <1>3, <1>4, <1>5 DEF RowsFit, Rewrites, IsProcedure

(* What is said of rows and versions survives a rewriting. *)
LEMMA RewrittenVersions ==
  ASSUME RowsFit, NEW s \in Session, NEW next, Rewrites(s, next), NEW a
  PROVE  /\ Versions(next, a) = Versions(memory, a)
         /\ \A m \in Versions(memory, a) : next[m].version = memory[m].version
<1>1. DOMAIN next = Rows
  BY DEF Rewrites
<1> QED
  BY <1>1 DEF Rewrites, Versions, SameRow, Rows

LEMMA RestsSurvives ==
  ASSUME RowsFit, NEW s \in Session, NEW next, Rewrites(s, next), NEW supports, NEW evidence,
         Rests(memory, supports, evidence)
  PROVE  Rests(next, supports, evidence)
<1>1. DOMAIN next = Rows
  BY DEF Rewrites
<1> QED
  BY <1>1 DEF Rewrites, Rests, SameRow, Rows

-----------------------------------------------------------------------------
(* Versions. *)

LEMMA VersionsAreFinite ==
  ASSUME RowsFit, NEW a
  PROVE  /\ Versions(memory, a) \subseteq Rows
         /\ IsFiniteSet(Versions(memory, a))
         /\ Cardinality(Versions(memory, a)) \in 0..Len(memory)
<1>1. Versions(memory, a) \subseteq Rows
  BY DEF Versions, Rows
<1>2. /\ Len(memory) \in Nat /\ Rows = 1..Len(memory)
      /\ IsFiniteSet(Rows) /\ Cardinality(Rows) = Len(memory)
  <2>1. Len(memory) \in Nat /\ Rows = 1..Len(memory)
    BY RowsAreNumbered
  <2>2. /\ IsFiniteSet(1..Len(memory))
        /\ Cardinality(1..Len(memory)) = IF 1 > Len(memory) THEN 0 ELSE Len(memory) - 1 + 1
    BY <2>1, FS_Interval
  <2> QED
    BY <2>1, <2>2
<1>3. /\ IsFiniteSet(Versions(memory, a))
      /\ Cardinality(Versions(memory, a)) <= Cardinality(Rows)
  BY <1>1, <1>2, FS_Subset
<1> QED
  BY <1>1, <1>2, <1>3, FS_CardinalityType

LEMMA RewrittenVersionsCount ==
  ASSUME RowsFit, VersionsCount, NEW s \in Session, Rewrites(s, memory')
  PROVE  VersionsCount'
<1> SUFFICES ASSUME NEW a \in Subject
             PROVE  {memory'[m].version : m \in Versions(memory', a)} =
                      1..Cardinality(Versions(memory', a))
  BY DEF VersionsCount
<1>1. /\ Versions(memory', a) = Versions(memory, a)
      /\ \A m \in Versions(memory, a) : memory'[m].version = memory[m].version
  BY RewrittenVersions
<1>2. {memory'[m].version : m \in Versions(memory, a)} =
        {memory[m].version : m \in Versions(memory, a)}
  BY <1>1
<1> QED
  BY <1>1, <1>2 DEF VersionsCount

(* A row that is numbered next is the one more that its subject has.       *)
LEMMA AppendedRowFits ==
  ASSUME RowsFit, VersionsCount, NEW s \in Session, NEW rows, Rewrites(s, rows),
         NEW row \in RowKind,
         Rests(memory, row.supports, row.evidence),
         row.subject = Procedure => row.status # "ACTIVE",
         row.version = Cardinality(Versions(memory, row.subject)) + 1,
         memory' = Append(rows, row)
  PROVE  /\ RowsFit' /\ VersionsCount'
         /\ Rows' = Rows \cup {Len(memory) + 1}
         /\ \A m \in Rows : SameRow(memory'[m], memory[m]) /\ memory'[m] = rows[m]
<1> DEFINE n == Len(memory)
<1>1. n \in Nat /\ Rows = 1..n /\ rows \in [1..n -> RowKind]
  BY RowsAreNumbered DEF Rewrites
<1>2. rows \in Seq(RowKind) /\ Len(rows) = n
  BY <1>1, FunctionIsSeq
<1>3. /\ memory' \in Seq(RowKind) /\ Len(memory') = n + 1
      /\ \A m \in 1..n : memory'[m] = rows[m]
      /\ memory'[n + 1] = row
  BY <1>2, AppendProperties
<1>4. Rows' = 1..(n + 1) /\ Rows' = Rows \cup {n + 1}
  BY <1>1, <1>3, LenProperties DEF Rows
<1>5. \A m \in Rows : SameRow(memory'[m], memory[m]) /\ memory'[m] = rows[m]
  BY <1>1, <1>3 DEF Rewrites
<1>6. row.version \in 1..(n + 1)
  BY <1>1, VersionsAreFinite
<1>7. ASSUME NEW supports, NEW evidence, Rests(memory, supports, evidence)
      PROVE  Rests(memory', supports, evidence)
  BY <1>4, <1>5, <1>7 DEF Rests, Rows, SameRow
<1>8. RowsFit'
  <2>1. ASSUME NEW m \in Rows
        PROVE  /\ Rests(memory', memory'[m].supports, memory'[m].evidence)
               /\ memory'[m].version \in 1..(n + 1)
               /\ memory'[m].subject = Procedure /\ memory'[m].status = "ACTIVE" =>
                    memory'[m].reviewed
    <3>1. /\ Rests(memory, memory[m].supports, memory[m].evidence)
          /\ memory[m].version \in 1..n
      BY DEF RowsFit
    <3>2. memory'[m].supports = memory[m].supports /\ memory'[m].evidence = memory[m].evidence
          /\ memory'[m].version = memory[m].version /\ memory'[m].subject = memory[m].subject
      BY <1>5 DEF SameRow
    <3>3. Rests(memory', memory'[m].supports, memory'[m].evidence)
      BY <1>7, <3>1, <3>2
    <3>4. memory'[m].version \in 1..(n + 1)
      BY <1>1, <3>1, <3>2
    <3> QED
      BY <1>5, <3>2, <3>3, <3>4 DEF Rewrites, IsProcedure
  <2>2. Rests(memory', row.supports, row.evidence)
    BY <1>7
  <2>3. ASSUME NEW m \in Rows, memory[m].subject = row.subject
        PROVE  memory[m].version # row.version
    <3>1. m \in Versions(memory, row.subject) /\ row.subject \in Subject
      BY <2>3 DEF Versions, Rows, RowKind
    <3>2. Cardinality(Versions(memory, row.subject)) \in Nat
      BY <1>1, VersionsAreFinite
    <3>3. memory[m].version \in 1..Cardinality(Versions(memory, row.subject))
      BY <3>1 DEF VersionsCount
    <3> QED
      BY <3>2, <3>3
  <2>4. ASSUME NEW a \in Rows', NEW b \in Rows',
               memory'[a].subject = memory'[b].subject, memory'[a].version = memory'[b].version
        PROVE  a = b
    <3>1. CASE a \in Rows /\ b \in Rows
      <4>1. memory[a].subject = memory[b].subject /\ memory[a].version = memory[b].version
        BY <1>5, <2>4, <3>1 DEF SameRow
      <4> QED
        BY <3>1, <4>1 DEF RowsFit
    <3>2. CASE a = n + 1 /\ b \in Rows
      BY <1>3, <1>5, <2>3, <2>4, <3>2 DEF SameRow
    <3>3. CASE a \in Rows /\ b = n + 1
      BY <1>3, <1>5, <2>3, <2>4, <3>3 DEF SameRow
    <3> QED
      BY <1>4, <3>1, <3>2, <3>3
  <2> QED
    BY <1>3, <1>4, <1>6, <2>1, <2>2, <2>4 DEF RowsFit, IsProcedure
<1>9. VersionsCount'
  <2> SUFFICES ASSUME NEW a \in Subject
               PROVE  {memory'[m].version : m \in Versions(memory', a)} =
                        1..Cardinality(Versions(memory', a))
    BY DEF VersionsCount
  <2> DEFINE old == Versions(memory, a)
             k == Cardinality(old)
  <2>1. old \subseteq Rows /\ IsFiniteSet(old) /\ k \in Nat
    BY <1>1, VersionsAreFinite
  <2>2. {memory[m].version : m \in old} = 1..k
    BY DEF VersionsCount
  <2>3. {memory'[m].version : m \in old} = 1..k
    <3>1. \A m \in old : memory'[m].version = memory[m].version
      BY <1>5, <2>1 DEF SameRow
    <3> QED
      BY <2>2, <3>1
  <2>4. CASE a # row.subject
    <3>1. Versions(memory', a) = old
      BY <1>3, <1>4, <1>5, <2>4 DEF Versions, SameRow, Rows
    <3> QED
      BY <2>3, <3>1
  <2>5. CASE a = row.subject
    <3>1. Versions(memory', a) = old \cup {n + 1} /\ n + 1 \notin old
      <4>1. n + 1 \notin Rows
        BY <1>1
      <4> QED
        BY <1>3, <1>4, <1>5, <2>1, <2>5, <4>1 DEF Versions, SameRow, Rows
    <3>2. {memory'[m].version : m \in old \cup {n + 1}} = 1..(k + 1)
      <4>1. memory'[n + 1].version = k + 1
        BY <1>3, <2>5
      <4>2. {memory'[m].version : m \in old \cup {n + 1}} =
              {memory'[m].version : m \in old} \cup {k + 1}
        BY <4>1
      <4>3. 1..k \cup {k + 1} = 1..(k + 1)
        BY <2>1
      <4> QED
        BY <2>3, <4>2, <4>3
    <3>3. Cardinality(old \cup {n + 1}) = k + 1
      <4> HIDE DEF old, n
      <4> QED
        BY <2>1, <3>1, FS_AddElement
    <3> QED
      BY <3>1, <3>2, <3>3
  <2> QED
    BY <2>4, <2>5
<1> QED
  BY <1>4, <1>5, <1>8, <1>9

(* The latest version's number is the number of versions. *)
LEMMA LatestCounts ==
  ASSUME RowsFit, VersionsCount, NEW s \in Session, NEW rows, Rewrites(s, rows),
         NEW a \in Subject, Versions(rows, a) # {}
  PROVE  /\ Latest(rows, Versions(rows, a)) \in Rows
         /\ rows[Latest(rows, Versions(rows, a))].version = Cardinality(Versions(memory, a))
<1> DEFINE ids == Versions(memory, a)
           k == Cardinality(ids)
<1>1. /\ Versions(rows, a) = ids
      /\ \A m \in ids : rows[m].version = memory[m].version
  BY RewrittenVersions
<1>2. ids \subseteq Rows /\ IsFiniteSet(ids) /\ k \in Nat
  <2>1. Len(memory) \in Nat
    BY RowsAreNumbered
  <2> QED
    BY <2>1, VersionsAreFinite
<1>3. k # 0
  <2> HIDE DEF ids
  <2> QED
    BY <1>1, <1>2, FS_EmptySet
<1>4. {memory[m].version : m \in ids} = 1..k
  BY DEF VersionsCount
<1>5. PICK m \in ids : memory[m].version = k
  <2>1. k \in {memory[m].version : m \in ids}
    BY <1>2, <1>3, <1>4
  <2> QED
    BY <2>1
<1>6. \A n \in ids : memory[n].version \in 1..k
  BY <1>4
<1>7. \A n \in ids : rows[n].version <= rows[m].version
  BY <1>1, <1>2, <1>5, <1>6
<1>8. /\ Latest(rows, ids) \in ids
      /\ \A n \in ids : rows[n].version <= rows[Latest(rows, ids)].version
  BY <1>7 DEF Latest
<1>9. /\ rows[Latest(rows, ids)].version \in 1..k
      /\ k <= rows[Latest(rows, ids)].version
  BY <1>1, <1>5, <1>6, <1>8
<1> QED
  BY <1>1, <1>2, <1>8, <1>9

(* The row that is looked up as the latest is the only one that is. *)
LEMMA LatestIsOne ==
  ASSUME RowsFit, VersionsCount, NEW s \in Session, NEW rows, Rewrites(s, rows),
         NEW a \in Subject, NEW n \in Versions(memory, a), IsLatest(memory, n)
  PROVE  n = Latest(rows, Versions(rows, a))
<1> DEFINE k == Cardinality(Versions(memory, a))
           last == Latest(rows, Versions(rows, a))
<1>1. Versions(rows, a) = Versions(memory, a)
  BY RewrittenVersions
<1>2. last \in Rows /\ rows[last].version = k
  BY <1>1, LatestCounts
<1>3. last \in Versions(memory, a)
  <2>1. \E m \in Versions(rows, a) : \A j \in Versions(rows, a) : rows[j].version <= rows[m].version
    <3>1. \A m \in Versions(memory, a) : rows[m].version = memory[m].version
      BY RewrittenVersions
    <3>2. memory[n].subject = a
      BY DEF Versions
    <3> QED
      BY <1>1, <3>1, <3>2 DEF IsLatest
  <2> QED
    BY <1>1, <2>1 DEF Latest
<1> HIDE DEF last
<1>4. memory[last].version = k /\ memory[last].subject = a /\ n \in Rows /\ memory[n].subject = a
  BY <1>2, <1>3 DEF Rewrites, SameRow, Versions, Rows
<1>5. memory[n].version \in 1..k
  BY DEF VersionsCount
<1>6. memory[last].version <= memory[n].version
  BY <1>3, <1>4 DEF IsLatest
<1>7. k \in Nat
  <2>1. Len(memory) \in Nat
    BY RowsAreNumbered
  <2> QED
    BY <2>1, VersionsAreFinite
<1>8. memory[n].version = memory[last].version
  BY <1>4, <1>5, <1>6, <1>7
<1> QED
  BY <1>2, <1>4, <1>8 DEF RowsFit, last

-----------------------------------------------------------------------------
(* One session moves; what the others remember and hold still fits.        *)

(* The rows a place keeps locked, and the ended rows a step leaves alone.  *)
PlaceRows(place) == IF "rows" \in DOMAIN place THEN place.rows ELSE {}
EndedKept ==
    \A m \in Rows : memory[m].status \notin Pending => memory'[m].status = memory[m].status

LEMMA OthersLock ==
  ASSUME NEW s \in Session, NEW m
  PROVE  m \in LockedByOthers(s) <=> \E t \in Session \ {s} : m \in HeldRows(t)
  BY DEF LockedByOthers

LEMMA OthersLockNext ==
  ASSUME NEW s \in Session, NEW m
  PROVE  (m \in LockedByOthers(s))' <=> \E t \in Session \ {s} : m \in HeldRows(t)'
  BY DEF LockedByOthers

LEMMA FollowingSurvives ==
  ASSUME RowsFit, NEW s \in Session, NEW next, Rewrites(s, next), NEW place,
         FollowsEnded(memory, place)
  PROVE  FollowsEnded(next, place)
<1> DEFINE a == place.candidate.subject
<1> SUFFICES ASSUME NEW n \in Versions(next, a), IsLatest(next, n)
             PROVE  \/ n \in place.rows
                    \/ /\ next[n].status \notin Pending
                       /\ next[n].status = "REVOKED" => next[n].content # place.candidate.content
  BY DEF FollowsEnded
<1>1. /\ Versions(next, a) = Versions(memory, a)
      /\ \A m \in Versions(memory, a) : next[m].version = memory[m].version
  BY RewrittenVersions
<1>2. n \in Rows /\ n \in Versions(memory, a) /\ memory[n].subject = a /\ next[n].subject = a
  BY <1>1 DEF Versions, Rows
<1>3. IsLatest(memory, n)
  BY <1>1, <1>2 DEF IsLatest
<1>4. \/ n \in place.rows
      \/ /\ memory[n].status \notin Pending
         /\ memory[n].status = "REVOKED" => memory[n].content # place.candidate.content
  BY <1>2, <1>3 DEF FollowsEnded
<1> QED
  BY <1>2, <1>4 DEF Rewrites, SameRow

LEMMA PlacesSurvive ==
  ASSUME RowsFit, NEW s \in Session, NEW next, Rewrites(s, next), NEW place \in Place,
         PlaceFits(memory, place)
  PROVE  PlaceFits(next, place)
<1>1. DOMAIN next = DOMAIN memory
  BY DEF Rewrites, Rows
<1>2. place.at \in {"persist", "compare", "insert"} => CandidateFits(next, place.candidate)
  BY RestsSurvives DEF PlaceFits, CandidateFits
<1>3. Versions(next, place.candidate.subject) = Versions(memory, place.candidate.subject)
  BY RewrittenVersions
<1>4. FollowsEnded(memory, place) => FollowsEnded(next, place)
  BY FollowingSurvives
<1> QED
  BY <1>1, <1>2, <1>3, <1>4 DEF PlaceFits

LEMMA SessionsMove ==
  ASSUME RowsFit, SessionsFit, NEW s \in Session, NEW place \in Place, Goto(s, place),
         Rewrites(s, memory'), PlaceFits(memory, place)
  PROVE  SessionsFit'
<1>1. session' \in [Session -> Place]
  BY DEF SessionsFit, Goto
<1>2. ASSUME NEW t \in Session PROVE PlaceFits(memory, session'[t])
  BY DEF SessionsFit, Goto
<1>3. \A t \in Session : session'[t] \in Place
  BY <1>1
<1>4. \A t \in Session : PlaceFits(memory', session'[t])
  BY <1>2, <1>3, PlacesSurvive
<1> QED
  BY <1>1, <1>4 DEF SessionsFit

LEMMA LocksMove ==
  ASSUME SessionsFit, LocksFit, NEW s \in Session, NEW place \in Place, Goto(s, place),
         due' = due,
         \A m \in LockedByOthers(s) : memory'[m].status = memory[m].status,
         \A m \in PlaceRows(place) :
            m \in due /\ memory'[m].status = "ACTIVE" /\ m \notin LockedByOthers(s),
         place.at \in Writing => writer \in {s, Nobody},
         writer' = IF place.at \in Writing THEN s
                   ELSE IF writer = s THEN Nobody ELSE writer
  PROVE  LocksFit'
<1>1. session'[s] = place /\ \A t \in Session \ {s} : session'[t] = session[t]
  BY DEF SessionsFit, Goto
<1>2. /\ HeldRows(s)' = PlaceRows(place)
      /\ \A t \in Session \ {s} : HeldRows(t)' = HeldRows(t)
  BY <1>1 DEF HeldRows, PlaceRows
<1>3. writer' \in Session \cup {Nobody}
  BY DEF LocksFit
<1>4. ASSUME NEW t \in Session
      PROVE  (writer' = t) <=> session'[t].at \in Writing
  <2>1. CASE t = s
    BY <1>1, <2>1, NobodyIsNoSession DEF LocksFit
  <2>2. CASE t # s
    <3>1. (writer = t) <=> session[t].at \in Writing
      BY DEF LocksFit
    <3>2. writer' = t <=> writer = t
      BY <2>2, NobodyIsNoSession
    <3> QED
      BY <1>1, <2>2, <3>1, <3>2
  <2> QED
    BY <2>1, <2>2
<1>5. ASSUME NEW t \in Session, NEW m \in HeldRows(t)'
      PROVE  m \in due' /\ memory'[m].status = "ACTIVE" /\ (m \notin LockedByOthers(t))'
  <2>1. CASE t = s
    <3>1. m \notin LockedByOthers(s)
      BY <1>2, <1>5, <2>1
    <3>2. ~ (m \in LockedByOthers(s))'
      <4>1. \A u \in Session \ {s} : m \notin HeldRows(u)
        BY <3>1, OthersLock
      <4> QED
        BY <1>2, <4>1, OthersLockNext
    <3> QED
      BY <1>2, <1>5, <2>1, <3>2
  <2>2. CASE t # s
    <3>1. m \in HeldRows(t)
      BY <1>2, <1>5, <2>2
    <3>2. m \in due /\ memory[m].status = "ACTIVE" /\ m \notin LockedByOthers(t)
      BY <3>1 DEF LocksFit
    <3>3. m \in LockedByOthers(s)
      BY <2>2, <3>1, OthersLock
    <3>4. \A u \in Session \ {t} : m \notin HeldRows(u)
      BY <3>2, OthersLock
    <3>5. \A u \in Session \ {t} : ~ (m \in HeldRows(u)')
      <4>1. m \notin PlaceRows(place)
        BY <3>3
      <4> QED
        BY <1>2, <3>4, <4>1
    <3>6. ~ (m \in LockedByOthers(t))'
      BY <3>5, OthersLockNext
    <3> QED
      BY <3>2, <3>3, <3>6
  <2> QED
    BY <2>1, <2>2
<1> QED
  BY <1>3, <1>4, <1>5 DEF LocksFit

(* A session that rewrites rows and goes somewhere fitting keeps it all.   *)
LEMMA RewritingStep ==
  ASSUME MemoryInv, NEW s \in Session, NEW place \in Place, Goto(s, place),
         Rewrites(s, memory'), PlaceFits(memory, place),
         due' = due, outcome' = outcome, begun' \in 0..MaxRequests,
         \A m \in PlaceRows(place) :
            m \in due /\ memory'[m].status = "ACTIVE" /\ m \notin LockedByOthers(s),
         place.at \in Writing => writer \in {s, Nobody},
         writer' = IF place.at \in Writing THEN s
                   ELSE IF writer = s THEN Nobody ELSE writer
  PROVE  MemoryInv' /\ EndedKept
<1> USE DEF MemoryInv
<1>1. RowsFit' /\ Rows' = Rows /\ EndedKept
  BY RewrittenRowsFit DEF EndedKept
<1>2. SessionsFit'
  BY SessionsMove
<1>3. \A m \in LockedByOthers(s) : memory'[m].status = memory[m].status
  <2>1. ASSUME NEW m \in LockedByOthers(s) PROVE m \in Rows
    <3>1. PICK t \in Session : m \in HeldRows(t)
      BY <2>1, OthersLock
    <3> QED
      BY <3>1 DEF LocksFit, RestFits
  <2> QED
    BY <2>1 DEF Rewrites
<1>4. LocksFit'
  BY <1>3, LocksMove
<1>5. RestFits'
  BY <1>1 DEF RestFits
<1>6. VersionsCount'
  BY RewrittenVersionsCount
<1> QED
  BY <1>1, <1>2, <1>4, <1>5, <1>6

-----------------------------------------------------------------------------
(* The steps, one by one. *)

(* A session that is not at a writing step does not hold the write lock.   *)
LEMMA NotWriting ==
  ASSUME LocksFit, NEW s \in Session, session[s].at \notin Writing
  PROVE  writer # s
  BY DEF LocksFit

(* The rows a session expires are there, lapsed, and nobody else's.        *)
LEMMA LapsedRows ==
  ASSUME RowsFit, NEW s \in Session
  PROVE  /\ Lapsed(s) \subseteq Rows /\ Lapsed(s) \subseteq Nat
         /\ \A m \in Lapsed(s) :
              m \in due /\ memory[m].status = "ACTIVE" /\ m \notin LockedByOthers(s)
  BY RowsAreNumbered DEF Lapsed

(* A step that touches no row and takes no lock. *)
LEMMA QuietStep ==
  ASSUME MemoryInv, NEW s \in Session, NEW place \in Place, Goto(s, place),
         memory' = memory, due' = due, outcome' = outcome, writer' = writer,
         begun' \in 0..MaxRequests, PlaceFits(memory, place),
         session[s].at \notin Writing, place.at \notin Writing,
         PlaceRows(place) \subseteq Lapsed(s)
  PROVE  MemoryInv' /\ EndedKept
<1>1. RowsFit /\ LocksFit
  BY DEF MemoryInv
<1>2. Rewrites(s, memory')
  BY <1>1, MemoryRewrites
<1>3. writer # s
  BY <1>1, NotWriting
<1>4. \A m \in PlaceRows(place) :
         m \in due /\ memory'[m].status = "ACTIVE" /\ m \notin LockedByOthers(s)
  BY <1>1, LapsedRows
<1> QED
  BY <1>2, <1>3, <1>4, RewritingStep

(* A session's transaction ends; it remembers nothing that could not fit.  *)
LEMMA CommitStep ==
  ASSUME MemoryInv, NEW s \in Session, NEW place \in Place, Goto(s, place),
         NEW rows, Rewrites(s, rows), Commit(s, rows),
         due' = due, outcome' = outcome, begun' = begun,
         PlaceFits(memory, place), place.at \notin Writing, PlaceRows(place) = {}
  PROVE  MemoryInv' /\ EndedKept
<1>1. memory' = rows /\ writer' = IF writer = s THEN Nobody ELSE writer
  BY DEF Commit
<1>2. Rewrites(s, memory')
  BY <1>1
<1>3. begun' \in 0..MaxRequests
  BY DEF MemoryInv, RestFits
<1> QED
  BY <1>1, <1>2, <1>3, RewritingStep

LEMMA IdleFits ==
  ASSUME NEW rows
  PROVE  /\ Idle \in Place /\ PlaceFits(rows, Idle) /\ PlaceRows(Idle) = {}
         /\ Idle.at = "idle" /\ Idle.at \notin Writing
  BY DEF Idle, Place, PlaceFits, PlaceRows, Writing

LEMMA BegunIsBounded ==
  ASSUME MemoryInv, NEW s \in Session, Begin(s)
  PROVE  begun' \in 0..MaxRequests /\ session[s].at = "idle" /\ session[s].at \notin Writing
  BY BoundIsNatural DEF MemoryInv, RestFits, Begin, At, Writing

LEMMA LapseKeeps ==
  ASSUME MemoryInv, NEW m \in Rows, Lapse(m)
  PROVE  MemoryInv' /\ EndedKept
<1> USE DEF Lapse
<1>1. memory' = memory /\ session' = session /\ Rows' = Rows /\ due \subseteq due' /\ due' \subseteq Rows'
  BY DEF MemoryInv, RestFits, Rows
<1>2. RowsFit' /\ SessionsFit' /\ VersionsCount'
  BY <1>1 DEF MemoryInv, RowsFit, SessionsFit, VersionsCount, IsProcedure
<1>3. LocksFit'
  <2>1. \A s \in Session : HeldRows(s)' = HeldRows(s)
    BY <1>1 DEF HeldRows
  <2>2. \A s \in Session : LockedByOthers(s)' = LockedByOthers(s)
    BY <1>1 DEF LockedByOthers, HeldRows
  <2> QED
    BY <1>1, <2>1, <2>2 DEF MemoryInv, LocksFit
<1> QED
  BY <1>1, <1>2, <1>3 DEF MemoryInv, RestFits, EndedKept

LEMMA PostRunKeeps ==
  ASSUME MemoryInv, NEW s \in Session, NEW x \in Run, PostRun(s, x)
  PROVE  MemoryInv' /\ EndedKept
<1> DEFINE candidate ==
             [subject |-> outcome[x].ticket, content |-> outcome[x].content,
              run |-> x, evidence |-> {outcome[x].ticket}, supports |-> {},
              status |-> IF outcome[x].confident THEN "ACTIVE" ELSE "QUARANTINE"]
           place == [at |-> "persist", candidate |-> candidate]
<1>1. outcome[x].ticket \in Ticket /\ outcome[x].content \in Content
  BY DEF MemoryInv, RestFits, Outcome
<1>2. candidate \in Candidate /\ candidate.subject # Procedure /\ candidate.supports = {}
  BY <1>1, SubjectsDiffer DEF Candidate, Subject, Pending
<1>3. place \in Place /\ place.at = "persist" /\ PlaceRows(place) = {}
      /\ place.candidate = candidate
  <2> HIDE DEF candidate
  <2> QED
    BY <1>2 DEF Place, Persisting, PlaceRows
<1>4. PlaceFits(memory, place)
  <2>1. CandidateFits(memory, candidate)
    BY <1>2 DEF CandidateFits, Rests
  <2> HIDE DEF candidate, place
  <2> QED
    BY <1>3, <2>1 DEF PlaceFits
<1>5. Goto(s, place)
  BY DEF PostRun, Write
<1>6. /\ memory' = memory /\ due' = due /\ outcome' = outcome /\ writer' = writer
      /\ begun' \in 0..MaxRequests /\ session[s].at \notin Writing
  BY BegunIsBounded DEF PostRun
<1> HIDE DEF candidate, place
<1> QED
  BY <1>3, <1>4, <1>5, <1>6, QuietStep DEF Writing

LEMMA ExpireFirstKeeps ==
  ASSUME MemoryInv, NEW s \in Session, ExpireFirst(s)
  PROVE  MemoryInv' /\ EndedKept
<1> DEFINE c == session[s].candidate
           place == [at |-> "compare", candidate |-> c, rows |-> Lapsed(s)]
<1>1. session[s] \in Persisting /\ session[s].at = "persist" /\ CandidateFits(memory, c)
  BY PlaceIs DEF MemoryInv, SessionsFit, PlaceFits, ExpireFirst, At
<1>2. c \in Candidate
  BY <1>1 DEF Persisting
<1>3. Lapsed(s) \subseteq Nat
  BY LapsedRows DEF MemoryInv
<1>4. place \in Place /\ place.at = "compare" /\ place.candidate = c /\ PlaceRows(place) = Lapsed(s)
  <2> HIDE DEF c
  <2> QED
    BY <1>2, <1>3 DEF Place, Comparing, PlaceRows
<1>5. Goto(s, place) /\ memory' = memory /\ due' = due /\ outcome' = outcome
      /\ writer' = writer /\ begun' = begun
  BY DEF ExpireFirst
<1> HIDE DEF c, place
<1>6. PlaceFits(memory, place)
  BY <1>1, <1>4 DEF PlaceFits
<1>7. begun' \in 0..MaxRequests
  BY <1>5 DEF MemoryInv, RestFits
<1> QED
  BY <1>1, <1>4, <1>5, <1>6, <1>7, QuietStep DEF Writing

(* Where the writer's record sends a session. *)
LEMMA ReturnGoes ==
  ASSUME NEW s \in Session, NEW row, Return(s, row), session[s].candidate.run \in Run
  PROVE  \E place \in Place :
            /\ Goto(s, place)
            /\ place = Idle \/ place \in Corroborating
            /\ place.at \in {"idle", "corroborate"}
            /\ \A rows : PlaceFits(rows, place)
            /\ place.at \notin Writing
            /\ PlaceRows(place) = {}
<1> DEFINE onward == [at |-> "corroborate", run |-> session[s].candidate.run]
<1>1. onward \in Corroborating /\ onward.at = "corroborate" /\ PlaceRows(onward) = {}
  BY DEF Corroborating, PlaceRows
<1>2. Goto(s, onward) \/ Goto(s, Idle)
  BY DEF Return
<1> HIDE DEF onward
<1>3. \A rows : PlaceFits(rows, onward)
  BY <1>1 DEF PlaceFits
<1>4. onward \in Place /\ onward.at \notin Writing
  BY <1>1 DEF Place, Writing
<1>5. CASE Goto(s, onward)
  BY <1>1, <1>3, <1>4, <1>5
<1>6. CASE Goto(s, Idle)
  BY <1>6, IdleFits
<1> QED
  BY <1>2, <1>5, <1>6

LEMMA ReturningStep ==
  ASSUME MemoryInv, NEW s \in Session, NEW row, Return(s, row),
         session[s].candidate.run \in Run,
         NEW rows, Rewrites(s, rows), Commit(s, rows),
         due' = due, outcome' = outcome, begun' = begun
  PROVE  MemoryInv' /\ EndedKept
<1>1. PICK place \in Place :
         /\ Goto(s, place) /\ PlaceFits(memory, place)
         /\ place.at \notin Writing /\ PlaceRows(place) = {}
  <2>1. \E place \in Place :
            /\ Goto(s, place)
            /\ \A r : PlaceFits(r, place)
            /\ place.at \notin Writing
            /\ PlaceRows(place) = {}
    BY ReturnGoes
  <2> QED
    BY <2>1
<1> QED
  BY <1>1, CommitStep

(* A fresh version is numbered after the last; a procedure awaits review.  *)
LEMMA InsertionFits ==
  ASSUME MemoryInv, NEW s \in Session, NEW c \in Candidate, CandidateFits(memory, c),
         NEW rows, Rewrites(s, rows), NEW older, older = Versions(rows, c.subject),
         NEW last, last = rows[Latest(rows, older)], NEW held \in SUBSET Nat,
         \A m \in Rows : rows[m].status = IF m \in held THEN "EXPIRED" ELSE memory[m].status,
         NEW place,
         place = [at |-> "insert", candidate |-> c, rows |-> held,
                  version |-> IF older = {} THEN 1 ELSE last.version + 1,
                  status |-> IF older = {} THEN c.status ELSE Decided(last, c)]
  PROVE  /\ place \in Place /\ PlaceFits(memory, place) /\ PlaceRows(place) = held
         /\ place.at = "insert"
<1> DEFINE k == Cardinality(Versions(memory, c.subject))
<1>1. c.subject \in Subject /\ c.status \in Pending
  BY DEF Candidate
<1>2. RowsFit /\ VersionsCount
  BY DEF MemoryInv
<1>3. older = Versions(memory, c.subject)
  BY <1>2, RewrittenVersions
<1>4. k \in Nat
  <2>1. Len(memory) \in Nat
    BY <1>2, RowsAreNumbered
  <2> QED
    BY <1>2, <2>1, VersionsAreFinite
<1>5. place.version = k + 1
  <2>1. CASE older = {}
    <3>1. k = 0
      BY <1>3, <2>1, FS_EmptySet
    <3> QED
      BY <2>1, <3>1
  <2>2. CASE older # {}
    <3>1. last.version = k
      BY <1>1, <1>2, <2>2, LatestCounts
    <3> QED
      BY <2>2, <3>1
  <2> QED
    BY <2>1, <2>2
<1>6. /\ place.status \in Pending
      /\ c.subject = Procedure => place.status = "QUARANTINE"
  BY <1>1 DEF CandidateFits, Decided, Pending
<1>7. /\ place.at = "insert" /\ place.candidate = c /\ place.rows = held
      /\ PlaceRows(place) = held
  BY DEF PlaceRows
<1>8. place \in Inserting
  <2> HIDE DEF k
  <2>1. place.version \in Nat
    BY <1>4, <1>5
  <2>2. /\ (IF older = {} THEN 1 ELSE last.version + 1) \in Nat
        /\ (IF older = {} THEN c.status ELSE Decided(last, c)) \in Pending
    BY <1>6, <2>1
  <2> QED
    BY <2>2 DEF Inserting
<1>9. ASSUME place.status = "ACTIVE" PROVE FollowsEnded(memory, place)
  <2> SUFFICES ASSUME NEW n \in Versions(memory, c.subject), IsLatest(memory, n), n \notin held
               PROVE  /\ memory[n].status \notin Pending
                      /\ memory[n].status = "REVOKED" => memory[n].content # c.content
    BY <1>7 DEF FollowsEnded
  <2>1. n = Latest(rows, older)
    BY <1>1, <1>2, LatestIsOne
  <2>2. n \in Rows /\ last = rows[n] /\ older # {}
    BY <1>3, <2>1 DEF Versions, Rows
  <2>3. last.status = memory[n].status /\ last.content = memory[n].content
    BY <2>2 DEF Rewrites, SameRow
  <2>4. Decided(last, c) = "ACTIVE"
    BY <1>9, <2>2
  <2> QED
    BY <2>3, <2>4 DEF Decided
<1>10. PlaceFits(memory, place)
  BY <1>5, <1>6, <1>7, <1>9 DEF PlaceFits
<1> QED
  BY <1>7, <1>8, <1>10 DEF Place

LEMMA CompareKeeps ==
  ASSUME MemoryInv, NEW s \in Session, Compare(s)
  PROVE  MemoryInv' /\ EndedKept
<1> DEFINE rows == View(s)
           c == session[s].candidate
           known == SameKey(rows, c)
           older == Versions(rows, c.subject)
           last == rows[Latest(rows, older)]
           place == [at |-> "insert", candidate |-> c, rows |-> HeldRows(s),
                     version |-> IF older = {} THEN 1 ELSE last.version + 1,
                     status |-> IF older = {} THEN c.status ELSE Decided(last, c)]
<1>1. session[s] \in Comparing /\ session[s].at = "compare" /\ CandidateFits(memory, c)
  BY PlaceIs DEF MemoryInv, SessionsFit, PlaceFits, Compare, At
<1>2. c \in Candidate /\ HeldRows(s) \subseteq Nat /\ session[s].candidate.run \in Run
  BY <1>1 DEF Comparing, Candidate, HeldRows
<1>3. /\ Rewrites(s, rows)
      /\ \A m \in Rows : rows[m].status = IF m \in HeldRows(s) THEN "EXPIRED" ELSE memory[m].status
  BY ViewRewrites, ViewIs DEF MemoryInv
<1>4. due' = due /\ outcome' = outcome /\ begun' = begun /\ writer = Nobody
  BY DEF Compare, LockIsFree
<1>5. \/ \E row : Return(s, row) /\ Commit(s, rows)
      \/ Goto(s, place) /\ writer' = s /\ memory' = memory
  BY DEF Compare
<1>6. ASSUME NEW row, Return(s, row), Commit(s, rows)
      PROVE  MemoryInv' /\ EndedKept
  BY <1>2, <1>3, <1>4, <1>6, ReturningStep
<1>7. ASSUME Goto(s, place), writer' = s, memory' = memory
      PROVE  MemoryInv' /\ EndedKept
  <2>1. /\ place \in Place /\ PlaceFits(memory, place) /\ PlaceRows(place) = HeldRows(s)
        /\ place.at = "insert"
    <3> HIDE DEF rows, c
    <3>1. HeldRows(s) \in SUBSET Nat
      BY <1>2
    <3> QED
      BY <1>1, <1>2, <1>3, <3>1, InsertionFits
  <2> HIDE DEF place, rows, c
  <2>2. \A m \in PlaceRows(place) :
           m \in due /\ memory'[m].status = "ACTIVE" /\ m \notin LockedByOthers(s)
    BY <1>7, <2>1 DEF MemoryInv, LocksFit
  <2>3. Rewrites(s, memory')
    BY <1>7, MemoryRewrites DEF MemoryInv
  <2>4. begun' \in 0..MaxRequests
    BY <1>4 DEF MemoryInv, RestFits
  <2>5. place.at \in Writing
    BY <2>1 DEF Writing
  <2> QED
    BY <1>4, <1>7, <2>1, <2>2, <2>3, <2>4, <2>5, RewritingStep
<1> QED
  BY <1>5, <1>6, <1>7

(* The row goes in under the lock that its version was counted under.      *)
LEMMA InsertKeeps ==
  ASSUME MemoryInv, NEW s \in Session, Insert(s)
  PROVE  MemoryInv' /\ EndedKept
<1> DEFINE c == session[s].candidate
           row == [subject |-> c.subject, content |-> c.content, run |-> c.run,
                   evidence |-> c.evidence, supports |-> c.supports,
                   version |-> session[s].version, status |-> session[s].status,
                   reviewed |-> FALSE]
<1>1. session[s] \in Inserting /\ session[s].at = "insert" /\ PlaceFits(memory, session[s])
  BY PlaceIs DEF MemoryInv, SessionsFit, Insert, At
<1>2. c \in Candidate /\ session[s].version \in Nat /\ session[s].status \in Pending
  BY <1>1 DEF Inserting
<1>3. row \in RowKind /\ c.run \in Run
  BY <1>2 DEF RowKind, Candidate, Pending, Status
<1>4. /\ Rests(memory, c.supports, c.evidence)
      /\ c.subject = Procedure => session[s].status = "QUARANTINE"
      /\ session[s].version = Cardinality(Versions(memory, c.subject)) + 1
  BY <1>1 DEF PlaceFits, CandidateFits
<1>5. memory' = Append(View(s), row) /\ writer' = Nobody /\ writer = s
  BY <1>1 DEF Insert, Commit, MemoryInv, LocksFit, Writing
<1>6. Rewrites(s, View(s))
  BY ViewRewrites DEF MemoryInv
<1>7. /\ RowsFit' /\ VersionsCount'
      /\ Rows' = Rows \cup {Len(memory) + 1}
      /\ \A m \in Rows : SameRow(memory'[m], memory[m]) /\ memory'[m] = View(s)[m]
  <2>1. /\ Rests(memory, row.supports, row.evidence)
        /\ row.subject = Procedure => row.status # "ACTIVE"
        /\ row.version = Cardinality(Versions(memory, row.subject)) + 1
    BY <1>4
  <2> HIDE DEF row
  <2> QED
    BY <1>3, <1>5, <1>6, <2>1, AppendedRowFits DEF MemoryInv
<1>8. /\ Return(s, row) /\ due' = due /\ outcome' = outcome /\ begun' = begun
  BY DEF Insert
<1> HIDE DEF row
<1>9. PICK place \in Place :
         /\ Goto(s, place) /\ \A rows : PlaceFits(rows, place)
         /\ place.at \notin Writing /\ PlaceRows(place) = {}
  BY <1>3, <1>8, ReturnGoes
<1>10. SessionsFit'
  <2>1. session' \in [Session -> Place] /\ session'[s] = place
    BY <1>9 DEF MemoryInv, SessionsFit, Goto
  <2>2. ASSUME NEW t \in Session, t # s
        PROVE  PlaceFits(memory', session[t])
    <3>1. PlaceFits(memory, session[t])
      BY DEF MemoryInv, SessionsFit
    <3>2. session[t].at # "insert"
      BY <1>5, <2>2 DEF MemoryInv, LocksFit, Writing
    <3>3. \A supports, evidence :
             Rests(memory, supports, evidence) => Rests(memory', supports, evidence)
      BY <1>7 DEF Rests, SameRow, Rows
    <3>4. DOMAIN memory \subseteq DOMAIN memory'
      BY <1>7 DEF Rows
    <3> QED
      BY <3>1, <3>2, <3>3, <3>4 DEF PlaceFits, CandidateFits
  <2>3. \A t \in Session : t # s => session'[t] = session[t]
    BY <1>9 DEF MemoryInv, SessionsFit, Goto
  <2> QED
    BY <1>9, <2>1, <2>2, <2>3 DEF SessionsFit
<1>11. \A m \in Rows : memory[m].status \notin Pending \/ m \in LockedByOthers(s) =>
                          memory'[m].status = memory[m].status
  BY <1>6, <1>7 DEF Rewrites
<1>12. LocksFit'
  <2>1. LockedByOthers(s) \subseteq Rows
    <3>1. ASSUME NEW m \in LockedByOthers(s) PROVE m \in Rows
      <4>1. PICK t \in Session : m \in HeldRows(t)
        BY <3>1, OthersLock
      <4> QED
        BY <4>1 DEF MemoryInv, LocksFit, RestFits
    <3> QED
      BY <3>1
  <2> QED
    BY <1>5, <1>8, <1>9, <1>11, <2>1, LocksMove DEF MemoryInv
<1>13. RestFits'
  BY <1>7, <1>8 DEF MemoryInv, RestFits
<1> QED
  BY <1>7, <1>10, <1>11, <1>12, <1>13 DEF MemoryInv, EndedKept

(* Two episodes of two tickets: the procedure cites what they cite.        *)
LEMMA CorroborateKeeps ==
  ASSUME MemoryInv, NEW s \in Session, Corroborate(s)
  PROVE  MemoryInv' /\ EndedKept
<1> DEFINE rows == Mark(memory, Lapsed(s), "EXPIRED")
           episodes == {m \in Rows : ~IsProcedure(m) /\ Corroborable(rows, m)}
           first == CHOOSE m \in episodes : \A n \in episodes : m <= n
           others == {m \in episodes : rows[m].subject # rows[first].subject}
           second == CHOOSE m \in others : \A n \in others : m <= n
           x == session[s].run
           candidate == [subject |-> Procedure, content |-> outcome[x].content,
                         run |-> x, status |-> "QUARANTINE",
                         supports |-> {first, second},
                         evidence |-> rows[first].evidence \cup rows[second].evidence]
           place == [at |-> "persist", candidate |-> candidate]
<1>1. session[s] \in Corroborating /\ session[s].at = "corroborate" /\ x \in Run
  <2>1. session[s] \in Corroborating /\ session[s].at = "corroborate"
    BY PlaceIs, Zenon DEF MemoryInv, SessionsFit, Corroborate, At
  <2> QED
    BY <2>1 DEF Corroborating
<1>2. RowsFit /\ LocksFit
  BY DEF MemoryInv
<1>3. Rewrites(s, rows)
  <2>1. \A m \in Lapsed(s) \cap Rows : memory[m].status \in Pending /\ m \notin LockedByOthers(s)
    BY <1>2, LapsedRows DEF Pending
  <2>2. Rewrites(s, memory) /\ "EXPIRED" \in Status \ {"ACTIVE"}
    BY <1>2, MemoryRewrites DEF Status
  <2> QED
    BY <1>2, <2>1, <2>2, MarkRewrites
<1>4. Commit(s, rows) /\ due' = due /\ outcome' = outcome /\ begun' = begun
  <2>1. writer # s
    BY <1>1, <1>2, NotWriting DEF Writing
  <2> QED
    BY <2>1, Zenon DEF Corroborate, Commit
<1>5. \/ episodes # {} /\ others # {} /\ Goto(s, place)
      \/ Goto(s, Idle)
  BY Zenon DEF Corroborate, Write
<1>6. CASE Goto(s, Idle)
  <2> HIDE DEF rows
  <2> QED
    BY <1>3, <1>4, <1>6, IdleFits, CommitStep
<1>7. CASE episodes # {} /\ others # {} /\ Goto(s, place)
  <2>1. episodes \subseteq Rows /\ episodes \subseteq Nat /\ others \subseteq episodes
    BY <1>2, RowsAreNumbered
  <2>2. first \in episodes
    <3> HIDE DEF episodes
    <3>1. \E m \in episodes : \A n \in episodes : m <= n
      BY <1>7, <2>1, LeastElement
    <3> QED
      BY <3>1
  <2>3. second \in episodes
    <3> HIDE DEF episodes, others
    <3>1. others \subseteq Nat
      BY <2>1
    <3>2. \E m \in others : \A n \in others : m <= n
      BY <1>7, <3>1, LeastElement
    <3>3. second \in others
      BY <3>2
    <3> QED
      BY <2>1, <3>3
  <2>4. /\ first \in Rows /\ second \in Rows /\ first \in Nat /\ second \in Nat
        /\ memory[first].subject # Procedure /\ memory[second].subject # Procedure
    <3> HIDE DEF first, second
    <3> QED
      BY <2>1, <2>2, <2>3 DEF IsProcedure
  <2> HIDE DEF first, second, rows
  <2>5. /\ rows[first].evidence = memory[first].evidence /\ memory[first].evidence \subseteq Ticket
        /\ rows[second].evidence = memory[second].evidence /\ memory[second].evidence \subseteq Ticket
    <3>1. memory[first] \in RowKind /\ memory[second] \in RowKind
      BY <1>2, <2>4, RowsAreNumbered
    <3> QED
      BY <1>3, <2>4, <3>1 DEF Rewrites, SameRow, RowKind
  <2>6. outcome[x].content \in Content
    BY <1>1 DEF MemoryInv, RestFits, Outcome
  <2> HIDE DEF x
  <2>7. candidate \in Candidate
    BY <1>1, <2>4, <2>5, <2>6 DEF Candidate, Subject, Pending
  <2>8. CandidateFits(memory, candidate)
    BY <2>4, <2>5 DEF CandidateFits, Rests, Rows
  <2> HIDE DEF candidate
  <2>9. place \in Place /\ place.at = "persist" /\ place.candidate = candidate /\ PlaceRows(place) = {}
    BY <2>7 DEF Place, Persisting, PlaceRows
  <2> HIDE DEF place
  <2>10. PlaceFits(memory, place) /\ place.at \notin Writing
    BY <2>8, <2>9 DEF PlaceFits, Writing
  <2> QED
    BY <1>3, <1>4, <1>7, <2>9, <2>10, CommitStep
<1> QED
  BY <1>5, <1>6, <1>7, Zenon

LEMMA TakeWriteLockKeeps ==
  ASSUME MemoryInv, NEW s \in Session, TakeWriteLock(s)
  PROVE  MemoryInv' /\ EndedKept
<1> DEFINE place ==
      [session[s] EXCEPT !.at = IF session[s].at = "review" THEN "decide" ELSE "revoking"]
<1>1. /\ Goto(s, place) /\ writer = Nobody /\ writer' = s
      /\ memory' = memory /\ due' = due /\ outcome' = outcome /\ begun' = begun
  BY DEF TakeWriteLock, LockIsFree, At
<1>2. session[s] \in Place /\ PlaceFits(memory, session[s]) /\ session[s].at \in {"review", "revoke"}
  BY DEF MemoryInv, SessionsFit, TakeWriteLock
<1>3. \/ session[s].at = "review" /\ session[s] \in Reviewing
      \/ session[s].at = "revoke" /\ session[s] \in Revoking
  BY <1>2, PlaceIs
<1>4. \/ /\ place \in Reviewing /\ place.at = "decide" /\ place.row = session[s].row
         /\ session[s].at = "review"
      \/ place \in Revoking /\ place.at = "revoking"
  BY <1>3 DEF Reviewing, Revoking
<1>5. PlaceRows(place) = {}
  BY <1>3 DEF PlaceRows, Reviewing, Revoking
<1> HIDE DEF place
<1>6. place \in Place /\ place.at \in Writing
  BY <1>4 DEF Place, Writing
<1>7. PlaceFits(memory, place)
  <2>1. session[s].at = "review" => session[s].row \in DOMAIN memory
    BY <1>2 DEF PlaceFits
  <2> QED
    BY <1>4, <2>1 DEF PlaceFits
<1>8. Rewrites(s, memory') /\ begun' \in 0..MaxRequests
  BY <1>1, MemoryRewrites DEF MemoryInv, RestFits
<1> QED
  BY <1>1, <1>5, <1>6, <1>7, <1>8, RewritingStep

LEMMA StartReviewKeeps ==
  ASSUME MemoryInv, NEW s \in Session, NEW m \in Rows, NEW d \in {"activate", "reject"},
         StartReview(s, m, d)
  PROVE  MemoryInv' /\ EndedKept
<1> DEFINE place == [at |-> "review", row |-> m, decision |-> d]
<1>1. /\ Goto(s, place) /\ memory' = memory /\ due' = due /\ outcome' = outcome
      /\ writer' = writer /\ begun' \in 0..MaxRequests /\ session[s].at \notin Writing
  BY BegunIsBounded DEF StartReview
<1>2. m \in Nat
  BY RowsAreNumbered DEF MemoryInv
<1>3. place \in Place /\ PlaceFits(memory, place) /\ place.at \notin Writing /\ PlaceRows(place) = {}
  BY <1>2 DEF Place, Reviewing, PlaceFits, Writing, PlaceRows, Rows
<1> HIDE DEF place
<1> QED
  BY <1>1, <1>3, QuietStep

LEMMA StartRevokeKeeps ==
  ASSUME MemoryInv, NEW s \in Session, NEW t \in Ticket, StartRevoke(s, t)
  PROVE  MemoryInv' /\ EndedKept
<1> DEFINE place == [at |-> "revoke", evidence |-> t]
<1>1. /\ Goto(s, place) /\ memory' = memory /\ due' = due /\ outcome' = outcome
      /\ writer' = writer /\ begun' \in 0..MaxRequests /\ session[s].at \notin Writing
  BY BegunIsBounded DEF StartRevoke
<1>2. place \in Place /\ PlaceFits(memory, place) /\ place.at \notin Writing /\ PlaceRows(place) = {}
  BY DEF Place, Revoking, PlaceFits, Writing, PlaceRows
<1> HIDE DEF place
<1> QED
  BY <1>1, <1>2, QuietStep

LEMMA RetrieveKeeps ==
  ASSUME MemoryInv, NEW s \in Session, Retrieve(s)
  PROVE  MemoryInv' /\ EndedKept
<1> DEFINE place == [at |-> "candidates", rows |-> Lapsed(s)]
<1>1. /\ Goto(s, place) /\ memory' = memory /\ due' = due /\ outcome' = outcome
      /\ writer' = writer /\ begun' \in 0..MaxRequests /\ session[s].at \notin Writing
  BY BegunIsBounded DEF Retrieve
<1>2. Lapsed(s) \subseteq Nat
  BY LapsedRows DEF MemoryInv
<1>3. /\ place \in Place /\ PlaceFits(memory, place) /\ place.at \notin Writing
      /\ PlaceRows(place) = Lapsed(s)
  BY <1>2 DEF Place, Retrieving, PlaceFits, Writing, PlaceRows
<1> HIDE DEF place
<1> QED
  BY <1>1, <1>3, QuietStep

LEMMA RevalidateKeeps ==
  ASSUME MemoryInv, NEW s \in Session, Revalidate(s)
  PROVE  MemoryInv' /\ EndedKept
<1> DEFINE ids == session[s].ids
           place == [at |-> "serve", ids |-> ids, rows |-> Lapsed(s)]
<1>1. /\ Goto(s, place) /\ memory' = memory /\ due' = due /\ outcome' = outcome
      /\ writer' = writer /\ begun' \in 0..MaxRequests /\ session[s].at = "embed"
  BY DEF Revalidate, At, MemoryInv, RestFits
<1>2. Lapsed(s) \subseteq Nat
  BY LapsedRows DEF MemoryInv
<1>3. ids \subseteq Rows /\ ids \subseteq Nat
  BY <1>1, RowsAreNumbered DEF MemoryInv, SessionsFit, PlaceFits, Rows
<1> HIDE DEF ids
<1>4. /\ place \in Place /\ PlaceFits(memory, place) /\ place.at \notin Writing
      /\ PlaceRows(place) = Lapsed(s)
  BY <1>2, <1>3 DEF Place, Serving, PlaceFits, Writing, PlaceRows, Rows
<1> HIDE DEF place
<1> QED
  BY <1>1, <1>4, QuietStep DEF Writing

LEMMA AnswerKeeps ==
  ASSUME MemoryInv, NEW s \in Session, Answer(s)
  PROVE  MemoryInv' /\ EndedKept
  BY IdleFits, QuietStep DEF Answer, Writing, MemoryInv, RestFits

(* A lost transaction leaves the rows as they are, and lets the lock go.   *)
LEMMA AbortKeeps ==
  ASSUME MemoryInv, NEW s \in Session, Abort(s)
  PROVE  MemoryInv' /\ EndedKept
<1>1. Rewrites(s, memory)
  BY MemoryRewrites DEF MemoryInv
<1> QED
  BY <1>1, IdleFits, CommitStep DEF Abort

(* A reviewer's word is written on the row, which the reviewer has locked. *)
LEMMA DecisionRewrites ==
  ASSUME RowsFit, NEW s \in Session, NEW rows, Rewrites(s, rows), NEW m \in Rows,
         m \notin LockedByOthers(s), memory[m].status \in Pending, NEW status \in Status
  PROVE  Rewrites(s, [rows EXCEPT ![m].status = status, ![m].reviewed = TRUE])
<1> DEFINE next == [rows EXCEPT ![m].status = status, ![m].reviewed = TRUE]
<1>1. rows \in [Rows -> RowKind]
  BY DEF Rewrites
<1>2. /\ rows[m] \in RowKind
      /\ next[m] = [rows[m] EXCEPT !.status = status, !.reviewed = TRUE]
  BY <1>1
<1>3. /\ next[m] \in RowKind /\ SameRow(next[m], rows[m])
      /\ next[m].status = status /\ next[m].reviewed = TRUE
  <2> HIDE DEF next
  <2>1. [rows[m] EXCEPT !.status = status, !.reviewed = TRUE] \in RowKind
    BY <1>2 DEF RowKind
  <2> QED
    BY <1>2, <2>1 DEF RowKind, SameRow
<1>4. \A n \in Rows \ {m} : next[n] = rows[n]
  BY <1>1
<1>5. next \in [Rows -> RowKind]
  BY <1>1, <1>3
<1> HIDE DEF next
<1>6. ASSUME NEW n \in Rows
      PROVE  /\ SameRow(next[n], memory[n])
             /\ memory[n].status \notin Pending \/ n \in LockedByOthers(s) =>
                  next[n].status = memory[n].status
             /\ IsProcedure(n) /\ next[n].status = "ACTIVE" => next[n].reviewed
  <2>1. CASE n = m
    BY <1>3, <2>1 DEF Rewrites, SameRow
  <2>2. CASE n # m
    BY <1>4, <2>2 DEF Rewrites
  <2> QED
    BY <2>1, <2>2
<1>7. Rewrites(s, next)
  BY <1>5, <1>6 DEF Rewrites
<1> QED
  BY <1>7 DEF next

LEMMA RejectKeeps ==
  ASSUME MemoryInv, NEW s \in Session, Reject(s)
  PROVE  MemoryInv' /\ EndedKept
<1> DEFINE m == session[s].row
<1>1. m \in Rows /\ m \notin LockedByOthers(s) /\ memory[m].status \in Pending
  BY DEF Reject, StillAwaited, Pending, At, MemoryInv, SessionsFit, PlaceFits, Rows
<1>2. Rewrites(s, memory) /\ "REVOKED" \in Status
  BY MemoryRewrites DEF MemoryInv, Status
<1>3. /\ Commit(s, [memory EXCEPT ![m].status = "REVOKED", ![m].reviewed = TRUE])
      /\ Goto(s, Idle) /\ due' = due /\ outcome' = outcome /\ begun' = begun
  BY DEF Reject
<1> HIDE DEF m
<1>4. Rewrites(s, [memory EXCEPT ![m].status = "REVOKED", ![m].reviewed = TRUE])
  BY <1>1, <1>2, DecisionRewrites DEF MemoryInv
<1> QED
  BY <1>3, <1>4, IdleFits, CommitStep

LEMMA ActivateKeeps ==
  ASSUME MemoryInv, NEW s \in Session, Activate(s)
  PROVE  MemoryInv' /\ EndedKept
<1> DEFINE m == session[s].row
           replaced == Mark(memory, Replaced(m), "SUPERSEDED")
           rows == [replaced EXCEPT ![m].status = "ACTIVE", ![m].reviewed = TRUE]
<1>1. /\ m \in Rows /\ memory[m].status \in Pending
      /\ ({m} \cup Replaced(m)) \cap LockedByOthers(s) = {}
  BY DEF Activate, StillAwaited, Pending, At, MemoryInv, SessionsFit, PlaceFits, Rows
<1>2. Rewrites(s, memory) /\ "SUPERSEDED" \in Status \ {"ACTIVE"} /\ "ACTIVE" \in Status
  BY MemoryRewrites DEF MemoryInv, Status
<1>3. Commit(s, rows) /\ Goto(s, Idle) /\ due' = due /\ outcome' = outcome /\ begun' = begun
  BY DEF Activate
<1>4. Rewrites(s, replaced)
  <2>1. \A n \in Replaced(m) \cap Rows :
           memory[n].status \in Pending /\ n \notin LockedByOthers(s)
    BY <1>1 DEF Replaced, Pending
  <2> QED
    BY <1>2, <2>1, MarkRewrites DEF MemoryInv
<1> HIDE DEF m, replaced
<1>5. Rewrites(s, rows)
  BY <1>1, <1>2, <1>4, DecisionRewrites DEF MemoryInv
<1> HIDE DEF rows
<1> QED
  BY <1>3, <1>5, IdleFits, CommitStep

LEMMA ReviewFailsKeeps ==
  ASSUME MemoryInv, NEW s \in Session, ReviewFails(s)
  PROVE  MemoryInv' /\ EndedKept
<1>1. Rewrites(s, memory)
  BY MemoryRewrites DEF MemoryInv
<1> QED
  BY <1>1, IdleFits, CommitStep DEF ReviewFails

(* Every pending row was looked at, none of them locked by another.        *)
LEMMA RevokeMarks ==
  ASSUME MemoryInv, NEW s \in Session, Revoke(s)
  PROVE  LET pending == {m \in Rows : memory[m].status \in Pending}
             ids == Closure(memory, pending, session[s].evidence)
         IN  /\ memory' = Mark(memory, ids, "REVOKED")
             /\ Rewrites(s, Mark(memory, ids, "REVOKED"))
<1> DEFINE pending == {m \in Rows : memory[m].status \in Pending}
           ids == Closure(memory, pending, session[s].evidence)
<1>1. pending \cap LockedByOthers(s) = {} /\ memory' = Mark(memory, ids, "REVOKED")
  BY DEF Revoke, Commit
<1>2. ids \subseteq pending
  BY DEF Closure
<1>3. \A m \in ids \cap Rows : memory[m].status \in Pending /\ m \notin LockedByOthers(s)
  BY <1>1, <1>2
<1>4. Rewrites(s, memory) /\ "REVOKED" \in Status \ {"ACTIVE"}
  BY MemoryRewrites DEF MemoryInv, Status
<1>5. Rewrites(s, Mark(memory, ids, "REVOKED"))
  <2> HIDE DEF ids
  <2> QED
    BY <1>3, <1>4, MarkRewrites DEF MemoryInv
<1> QED
  BY <1>1, <1>5

LEMMA RevokeKeeps ==
  ASSUME MemoryInv, NEW s \in Session, Revoke(s)
  PROVE  MemoryInv' /\ EndedKept
<1> DEFINE place == [at |-> "revoked", evidence |-> session[s].evidence]
<1>1. Rewrites(s, memory')
  BY RevokeMarks
<1>2. Commit(s, memory') /\ Goto(s, place) /\ due' = due /\ outcome' = outcome /\ begun' = begun
  BY DEF Revoke, Commit
<1>3. session[s].evidence \in Ticket
  BY PlaceIs DEF Revoke, At, MemoryInv, SessionsFit, Revoking
<1>4. place \in Place /\ PlaceFits(memory, place) /\ place.at \notin Writing /\ PlaceRows(place) = {}
  BY <1>3 DEF Place, Revoking, PlaceFits, Writing, PlaceRows
<1> HIDE DEF place
<1> QED
  BY <1>1, <1>2, <1>4, CommitStep

(* A reader revokes procedures that lost their ground, and no locked row.  *)
LEMMA FallenRewrites ==
  ASSUME MemoryInv, NEW s \in Session, NEW ids, ids \subseteq Rows,
         Unsupported(View(s), ids) \cap LockedByOthers(s) = {}
  PROVE  Rewrites(s, Mark(View(s), Unsupported(View(s), ids), "REVOKED"))
<1> DEFINE fallen == Unsupported(View(s), ids)
<1>1. RowsFit /\ LocksFit
  BY DEF MemoryInv
<1>2. Rewrites(s, View(s)) /\ "REVOKED" \in Status \ {"ACTIVE"}
  BY <1>1, ViewRewrites DEF Status
<1>3. ASSUME NEW m \in fallen \cap Rows
      PROVE  memory[m].status \in Pending /\ m \notin LockedByOthers(s)
  <2>1. View(s)[m].status = "ACTIVE"
    BY DEF Unsupported
  <2>2. memory[m].status = "ACTIVE"
    BY <1>1, <2>1, ViewIs
  <2> QED
    BY <2>2 DEF Pending
<1> HIDE DEF fallen
<1>4. Rewrites(s, Mark(View(s), fallen, "REVOKED"))
  BY <1>1, <1>2, <1>3, MarkRewrites
<1> QED
  BY <1>4 DEF fallen

LEMMA CandidatesKeeps ==
  ASSUME MemoryInv, NEW s \in Session, Candidates(s)
  PROVE  MemoryInv' /\ EndedKept
<1> DEFINE ids == {m \in Rows : Visible(View(s), m)}
           fallen == Unsupported(View(s), ids)
           rows == Mark(View(s), fallen, "REVOKED")
           place == [at |-> "embed", ids |-> ids \ fallen]
<1>1. /\ fallen \cap LockedByOthers(s) = {} /\ Commit(s, rows) /\ Goto(s, place)
      /\ due' = due /\ outcome' = outcome /\ begun' = begun
  BY DEF Candidates
<1>2. Rewrites(s, rows)
  BY <1>1, FallenRewrites
<1>3. ids \ fallen \subseteq Rows /\ ids \ fallen \subseteq Nat
  BY RowsAreNumbered DEF MemoryInv
<1> HIDE DEF ids, fallen, rows
<1>4. place \in Place /\ PlaceFits(memory, place) /\ place.at \notin Writing /\ PlaceRows(place) = {}
  BY <1>3 DEF Place, Embedding, PlaceFits, Writing, PlaceRows, Rows
<1> HIDE DEF place
<1> QED
  BY <1>1, <1>2, <1>4, CommitStep

LEMMA ServeKeeps ==
  ASSUME MemoryInv, NEW s \in Session, Serve(s)
  PROVE  MemoryInv' /\ EndedKept
<1> DEFINE ids == session[s].ids
           fallen == Unsupported(View(s), ids)
           rows == Mark(View(s), fallen, "REVOKED")
           left == {m \in ids : Visible(rows, m)}
<1>1. /\ fallen \cap LockedByOthers(s) = {} /\ Commit(s, rows)
      /\ \E chosen \in OnePerLineage(rows, left) : Goto(s, [at |-> "served", ids |-> chosen])
      /\ due' = due /\ outcome' = outcome /\ begun' = begun
  BY DEF Serve
<1>2. ids \subseteq Rows /\ ids \subseteq Nat
  BY RowsAreNumbered DEF Serve, At, MemoryInv, SessionsFit, PlaceFits, Rows
<1> HIDE DEF ids
<1>3. Rewrites(s, rows)
  BY <1>1, <1>2, FallenRewrites
<1>4. PICK chosen \in OnePerLineage(rows, left) : Goto(s, [at |-> "served", ids |-> chosen])
  BY <1>1
<1> DEFINE place == [at |-> "served", ids |-> chosen]
<1>5. chosen \subseteq Rows /\ chosen \subseteq Nat
  BY <1>2 DEF OnePerLineage
<1> HIDE DEF rows, fallen
<1>6. place \in Place /\ PlaceFits(memory, place) /\ place.at \notin Writing /\ PlaceRows(place) = {}
  BY <1>5 DEF Place, Embedding, PlaceFits, Writing, PlaceRows, Rows
<1> QED
  BY <1>1, <1>3, <1>4, <1>6, CommitStep

-----------------------------------------------------------------------------
(* All steps together. *)

LEMMA NothingIsCounted ==
  ASSUME Rows = {}
  PROVE  VersionsCount
<1> SUFFICES ASSUME NEW a \in Subject
             PROVE  {memory[m].version : m \in Versions(memory, a)} =
                      1..Cardinality(Versions(memory, a))
  BY DEF VersionsCount
<1>1. Versions(memory, a) = {}
  BY DEF Versions, Rows
<1>2. Cardinality(Versions(memory, a)) = 0
  BY <1>1, FS_EmptySet
<1> QED
  BY <1>1, <1>2

LEMMA MemoryStarts ==
  ASSUME MemoryInit
  PROVE  MemoryInv
<1> USE DEF MemoryInit, NothingRemembered
<1>1. memory = <<>> /\ memory \in Seq(RowKind) /\ Rows = {} /\ Len(memory) = 0
  BY DEF Rows
<1>2. RowsFit
  BY <1>1 DEF RowsFit
<1>3. SessionsFit
  BY IdleFits DEF SessionsFit
<1>4. LocksFit
  <2>1. \A s \in Session : session[s].at \notin Writing /\ HeldRows(s) = {}
    BY IdleFits DEF HeldRows, PlaceRows
  <2> QED
    BY <2>1, NobodyIsNoSession DEF LocksFit
<1>5. RestFits
  BY <1>1, BoundIsNatural DEF RestFits
<1>6. VersionsCount
  BY <1>1, NothingIsCounted
<1> QED
  BY <1>2, <1>3, <1>4, <1>5, <1>6 DEF MemoryInv

LEMMA MemoryStepKeeps ==
  ASSUME MemoryInv, MemoryNext
  PROVE  MemoryInv' /\ EndedKept
<1>1. ASSUME NEW m \in Rows, Lapse(m) PROVE MemoryInv' /\ EndedKept
  BY <1>1, LapseKeeps
<1>2. ASSUME NEW s \in Session, Step(s) PROVE MemoryInv' /\ EndedKept
  BY <1>2, ExpireFirstKeeps, CompareKeeps, InsertKeeps, CorroborateKeeps, TakeWriteLockKeeps,
     RejectKeeps, ActivateKeeps, ReviewFailsKeeps, RevokeKeeps, CandidatesKeeps,
     RevalidateKeeps, ServeKeeps, AnswerKeeps DEF Step
<1>3. ASSUME NEW s \in Session, NEW x \in Run, PostRun(s, x) PROVE MemoryInv' /\ EndedKept
  BY <1>3, PostRunKeeps
<1>4. ASSUME NEW s \in Session, NEW m \in Rows, NEW d \in {"activate", "reject"},
             StartReview(s, m, d)
      PROVE  MemoryInv' /\ EndedKept
  BY <1>4, StartReviewKeeps
<1>5. ASSUME NEW s \in Session, NEW t \in Ticket, StartRevoke(s, t)
      PROVE  MemoryInv' /\ EndedKept
  BY <1>5, StartRevokeKeeps
<1>6. ASSUME NEW s \in Session, Retrieve(s) PROVE MemoryInv' /\ EndedKept
  BY <1>6, RetrieveKeeps
<1>7. ASSUME NEW s \in Session, Abort(s) PROVE MemoryInv' /\ EndedKept
  BY <1>7, AbortKeeps
<1> QED
  BY <1>1, <1>2, <1>3, <1>4, <1>5, <1>6, <1>7 DEF MemoryNext

LEMMA MemoryStutters ==
  ASSUME MemoryInv, UNCHANGED memoryVars
  PROVE  MemoryInv'
<1> USE DEF memoryVars
<1>1. RowsFit' /\ SessionsFit' /\ RestFits' /\ VersionsCount'
  BY DEF MemoryInv, RowsFit, SessionsFit, RestFits, VersionsCount, IsProcedure, Rows
<1>2. \A s \in Session : HeldRows(s)' = HeldRows(s) /\ LockedByOthers(s)' = LockedByOthers(s)
  BY DEF HeldRows, LockedByOthers
<1>3. LocksFit'
  BY <1>2 DEF MemoryInv, LocksFit
<1> QED
  BY <1>1, <1>3 DEF MemoryInv

(* The invariant the theorems below rest on holds in every reachable state. *)
LEMMA MemoryInvAlways == MemorySpec => []MemoryInv
<1>1. MemoryInit => MemoryInv
  BY MemoryStarts
<1>2. MemoryInv /\ [MemoryNext]_memoryVars => MemoryInv'
  BY MemoryStepKeeps, MemoryStutters
<1> QED
  BY <1>1, <1>2, PTL DEF MemorySpec

-----------------------------------------------------------------------------
(* Rows have their fields, versions and supports that exist; the write     *)
(* lock and the row locks have one holder each (MemoryTypeOK).             *)
THEOREM MemoryTypeCorrect == MemorySpec => []MemoryTypeOK
<1>1. MemoryInv => MemoryTypeOK
  <2> SUFFICES ASSUME MemoryInv PROVE MemoryTypeOK
    OBVIOUS
  <2>1. RowsFit
    BY DEF MemoryInv
  <2>2. /\ Len(memory) \in Nat /\ Rows = 1..Len(memory)
        /\ memory \in [1..Len(memory) -> RowKind]
    BY <2>1, RowsAreNumbered
  <2>3. ASSUME NEW m \in Rows PROVE memory[m] \in Row
    <3>1. memory[m] \in RowKind /\ memory[m].supports \subseteq Rows
          /\ memory[m].version \in 1..Len(memory)
      BY <2>1, <2>2 DEF RowsFit, Rests, Rows
    <3> QED
      BY <3>1 DEF RowKind, Row
  <2>4. memory \in [1..Len(memory) -> Row]
    BY <2>2, <2>3
  <2>5. memory \in Seq(Row)
    BY <2>2, <2>4, FunctionIsSeq
  <2> QED
    BY <2>5 DEF MemoryTypeOK, MemoryInv, LocksFit, RestFits, Writing
<1> QED
  BY <1>1, MemoryInvAlways, PTL

(* Each subject's versions are 1, 2, ... k, whoever writes at once.        *)
THEOREM VersionsAreNumbered == MemorySpec => []VersionsCount
<1>1. MemoryInv => VersionsCount
  BY DEF MemoryInv
<1> QED
  BY <1>1, MemoryInvAlways, PTL

(* A row that has ended keeps its end (LEGAL_TRANSITIONS).                 *)
THEOREM EndsAreFinal == MemorySpec => EndedStaysEnded
<1>1. MemoryInv /\ [MemoryNext]_memoryVars =>
        [\A m \in Rows : memory[m].status \notin Pending =>
            memory'[m].status = memory[m].status]_memoryVars
  BY MemoryStepKeeps DEF EndedKept
<1> QED
  BY <1>1, MemoryInvAlways, PTL DEF MemorySpec, EndedStaysEnded

(* Only a revocation ends at "revoked", and only a retrieval at "served".  *)
LEMMA OnlyTheirStepsArrive ==
  ASSUME MemoryInv, MemoryNext, NEW s \in Session
  PROVE  /\ At(s, "revoking") /\ session'[s].at = "revoked" => Revoke(s)
         /\ ~At(s, "served") /\ session'[s].at = "served" => Serve(s)
<1> USE DEF Goto
<1>1. session \in [Session -> Place]
  BY DEF MemoryInv, SessionsFit
<1>2. Idle.at = "idle"
  BY DEF Idle
<1>3. ASSUME NEW m \in Rows, Lapse(m) PROVE session' = session
  BY <1>3 DEF Lapse
<1>4. ASSUME NEW t \in Session,
             \/ Step(t) \/ Retrieve(t) \/ Abort(t)
             \/ \E x \in Run : PostRun(t, x)
             \/ \E m \in Rows, d \in {"activate", "reject"} : StartReview(t, m, d)
             \/ \E a \in Ticket : StartRevoke(t, a)
      PROVE  /\ \A u \in Session \ {t} : session'[u] = session[u]
             /\ session'[t].at = "revoked" => Revoke(t)
             /\ session'[t].at = "served" => Serve(t)
  <2>1. CASE ExpireFirst(t) \/ Retrieve(t) \/ Candidates(t) \/ Revalidate(t)
    BY <1>1, <2>1 DEF ExpireFirst, Retrieve, Candidates, Revalidate
  <2>2. CASE Reject(t) \/ Activate(t) \/ ReviewFails(t) \/ Answer(t) \/ Abort(t)
    BY <1>1, <1>2, <2>2 DEF Reject, Activate, ReviewFails, Answer, Abort
  <2>3. CASE Compare(t) \/ Insert(t)
    <3>1. session' = [session EXCEPT ![t] = session'[t]]
          /\ session'[t].at \in {"idle", "corroborate", "insert"}
      BY <1>1, <1>2, <2>3 DEF Compare, Insert, Return
    <3> QED
      BY <1>1, <3>1
  <2>4. CASE Corroborate(t)
    <3>1. (\E c : Write(t, c)) \/ Goto(t, Idle)
      BY <2>4, Zenon DEF Corroborate
    <3>2. CASE \E c : Write(t, c)
      BY <1>1, <3>2 DEF Write
    <3>3. CASE Goto(t, Idle)
      BY <1>1, <1>2, <3>3
    <3> QED
      BY <3>1, <3>2, <3>3
  <2>5. CASE TakeWriteLock(t)
    <3>1. session[t] \in Reviewing \/ session[t] \in Revoking
      BY <1>1, <2>5, PlaceIs DEF TakeWriteLock
    <3>2. session'[t].at \in {"decide", "revoking"}
      BY <1>1, <2>5, <3>1 DEF TakeWriteLock, Reviewing, Revoking
    <3> QED
      BY <1>1, <2>5, <3>2 DEF TakeWriteLock
  <2>6. CASE Revoke(t)
    BY <1>1, <2>6 DEF Revoke
  <2>7. CASE Serve(t)
    <3>1. \E chosen : session' = [session EXCEPT ![t] = [at |-> "served", ids |-> chosen]]
      BY <2>7 DEF Serve
    <3> QED
      BY <1>1, <2>7, <3>1
  <2>8. CASE \E x \in Run : PostRun(t, x)
    BY <1>1, <2>8 DEF PostRun, Write
  <2>9. CASE \/ \E m \in Rows, d \in {"activate", "reject"} : StartReview(t, m, d)
             \/ \E a \in Ticket : StartRevoke(t, a)
    BY <1>1, <2>9 DEF StartReview, StartRevoke
  <2> QED
    BY <1>4, <2>1, <2>2, <2>3, <2>4, <2>5, <2>6, <2>7, <2>8, <2>9 DEF Step
<1> QED
  BY <1>3, <1>4 DEF MemoryNext, At

(* What a revocation leaves pending cites the evidence nowhere.            *)
LEMMA RevokeReaches ==
  ASSUME MemoryInv, NEW s \in Session, Revoke(s), NEW m \in Rows', memory'[m].status \in Pending
  PROVE  /\ session[s].evidence \notin memory'[m].evidence
         /\ \A e \in memory'[m].supports : session[s].evidence \notin memory'[e].evidence
<1> DEFINE pending == {n \in Rows : memory[n].status \in Pending}
           ids == Closure(memory, pending, session[s].evidence)
<1>1. RowsFit /\ memory' = Mark(memory, ids, "REVOKED") /\ Rewrites(s, memory')
  BY RevokeMarks DEF MemoryInv
<1>2. m \in Rows /\ memory \in [Rows -> RowKind] /\ "REVOKED" \in Status
  BY <1>1, RewrittenRowsFit, RowsAreNumbered DEF Status
<1>3. memory'[m].status = IF m \in ids THEN "REVOKED" ELSE memory[m].status
  <2> HIDE DEF ids
  <2> QED
    BY <1>1, <1>2, MarkIs
<1>4. m \notin ids /\ m \in pending
  <2> HIDE DEF ids
  <2> QED
    BY <1>2, <1>3 DEF Pending
<1>5. session[s].evidence \notin memory[m].evidence
  BY <1>4 DEF Closure
<1>6. Rests(memory', memory'[m].supports, memory'[m].evidence)
  BY <1>1, <1>2, RewrittenRowsFit DEF RowsFit
<1>7. memory'[m].evidence = memory[m].evidence
  BY <1>1, <1>2 DEF Rewrites, SameRow
<1> QED
  BY <1>5, <1>6, <1>7 DEF Rests

(* A step that makes nothing active and revokes no episode. *)
Mild ==
    /\ Rows' = Rows
    /\ \A m \in Rows :
         /\ SameRow(memory'[m], memory[m])
         /\ memory'[m].status = "ACTIVE" => memory[m].status = "ACTIVE"
         /\ memory'[m].status = "REVOKED" => memory[m].status = "REVOKED" \/ IsProcedure(m)

(* Rows that a session expires and procedures that a reader finds fallen.  *)
LEMMA MarkedIsMild ==
  ASSUME RowsFit, NEW s \in Session, NEW rows, rows = memory \/ rows = View(s),
         NEW ids, NEW status \in Status \ {"ACTIVE"},
         status = "REVOKED" => \A m \in ids \cap Rows : IsProcedure(m),
         memory' = Mark(rows, ids, status)
  PROVE  Mild
<1>1. /\ rows \in [Rows -> RowKind]
      /\ \A m \in Rows : /\ SameRow(rows[m], memory[m])
                         /\ rows[m].status \in {memory[m].status, "EXPIRED"}
  BY RowsAreNumbered, ViewIs DEF SameRow
<1>2. /\ memory' \in [Rows -> RowKind]
      /\ \A m \in Rows : /\ SameRow(memory'[m], rows[m])
                         /\ memory'[m].status = IF m \in ids THEN status ELSE rows[m].status
  BY <1>1, MarkIs
<1>3. Rows' = Rows
  BY <1>2 DEF Rows
<1> QED
  BY <1>1, <1>2, <1>3 DEF Mild, SameRow

LEMMA ViewIsMild ==
  ASSUME RowsFit, NEW s \in Session, memory' = memory \/ memory' = View(s)
  PROVE  Mild
<1>1. CASE memory' = memory
  BY <1>1 DEF Mild, SameRow, Rows
<1>2. CASE memory' = View(s)
  <2>1. Rows' = Rows
    BY <1>2, ViewIs DEF Rows
  <2> QED
    BY <1>2, <2>1, ViewIs DEF Mild
<1> QED
  BY <1>1, <1>2

(* All steps are mild but an insertion, a review and a revocation.         *)
LEMMA MostAreMild ==
  ASSUME MemoryInv, MemoryNext
  PROVE  Mild \/ \E s \in Session : Insert(s) \/ Reject(s) \/ Activate(s) \/ Revoke(s)
<1>1. RowsFit
  BY DEF MemoryInv
<1>2. ASSUME NEW m \in Rows, Lapse(m) PROVE memory' = memory
  BY <1>2 DEF Lapse
<1>3. ASSUME NEW s \in Session,
             \/ ExpireFirst(s) \/ TakeWriteLock(s) \/ Revalidate(s) \/ Answer(s)
             \/ Retrieve(s) \/ Abort(s) \/ ReviewFails(s) \/ Compare(s)
             \/ \E x \in Run : PostRun(s, x)
             \/ \E m \in Rows, d \in {"activate", "reject"} : StartReview(s, m, d)
             \/ \E t \in Ticket : StartRevoke(s, t)
      PROVE  memory' = memory \/ memory' = View(s)
  BY <1>3 DEF ExpireFirst, TakeWriteLock, Revalidate, Answer, Retrieve, Abort, ReviewFails,
              Compare, PostRun, StartReview, StartRevoke, Commit
<1>4. ASSUME NEW s \in Session, Corroborate(s) PROVE Mild
  <2>1. memory' = Mark(memory, Lapsed(s), "EXPIRED")
    BY <1>4, Zenon DEF Corroborate
  <2> QED
    BY <1>1, <2>1, MarkedIsMild DEF Status
<1>5. ASSUME NEW s \in Session, Candidates(s) \/ Serve(s) PROVE Mild
  <2>1. PICK ids : memory' = Mark(View(s), Unsupported(View(s), ids), "REVOKED")
    BY <1>5 DEF Candidates, Serve, Commit
  <2>2. \A m \in Unsupported(View(s), ids) \cap Rows : IsProcedure(m)
    BY <1>1, ViewIs DEF Unsupported, IsProcedure, SameRow
  <2> QED
    BY <1>1, <2>1, <2>2, MarkedIsMild DEF Status
<1>6. ASSUME NEW s \in Session, memory' = memory \/ memory' = View(s) PROVE Mild
  BY <1>1, <1>6, ViewIsMild
<1>7. ASSUME memory' = memory PROVE Mild
  BY <1>7 DEF Mild, SameRow, Rows
<1> QED
  BY <1>2, <1>3, <1>4, <1>5, <1>6, <1>7 DEF MemoryNext, Step

(* What each of them does to the support of a procedure.                   *)
LEMMA SupportIsThere ==
  ASSUME RowsFit, NEW m \in Rows, NEW e \in memory[m].supports
  PROVE  e \in Rows /\ ~IsProcedure(e) /\ memory[e].evidence \subseteq memory[m].evidence
  BY DEF RowsFit, Rests, IsProcedure, Rows

LEMMA MildKeepsSupport ==
  ASSUME RowsFit, Mild, NEW m \in Rows', NEW e \in memory'[m].supports
  PROVE  KeepsSupport(m, e)
<1>1. m \in Rows /\ e \in memory[m].supports
  BY DEF Mild, SameRow
<1>2. e \in Rows /\ ~IsProcedure(e)
  BY <1>1, SupportIsThere
<1> QED
  BY <1>1, <1>2 DEF Mild, KeepsSupport

LEMMA InsertAppends ==
  ASSUME MemoryInv, NEW s \in Session, Insert(s)
  PROVE  /\ Rows' = Rows \cup {Len(memory) + 1} /\ Len(memory) + 1 \notin Rows
         /\ \A m \in Rows : memory'[m] = View(s)[m]
         /\ memory'[Len(memory) + 1].subject = session[s].candidate.subject
         /\ memory'[Len(memory) + 1].content = session[s].candidate.content
         /\ memory'[Len(memory) + 1].status = session[s].status
         /\ session[s] \in Inserting /\ PlaceFits(memory, session[s]) /\ session[s].at = "insert"
<1> DEFINE c == session[s].candidate
           row == [subject |-> c.subject, content |-> c.content, run |-> c.run,
                   evidence |-> c.evidence, supports |-> c.supports,
                   version |-> session[s].version, status |-> session[s].status,
                   reviewed |-> FALSE]
<1>1. session[s] \in Inserting /\ session[s].at = "insert" /\ PlaceFits(memory, session[s])
  BY PlaceIs DEF MemoryInv, SessionsFit, Insert, At
<1>2. memory' = Append(View(s), row)
  BY DEF Insert, Commit
<1>3. Len(memory) \in Nat /\ Rows = 1..Len(memory)
  BY RowsAreNumbered DEF MemoryInv
<1>4. View(s) \in Seq(RowKind) /\ Len(View(s)) = Len(memory)
  BY <1>3, ViewIs, FunctionIsSeq DEF MemoryInv
<1>5. row.subject = c.subject /\ row.content = c.content /\ row.status = session[s].status
  OBVIOUS
<1>6. row \in RowKind
  BY <1>1 DEF Inserting, RowKind, Candidate, Pending, Status
<1> HIDE DEF row
<1>7. /\ memory' \in Seq(RowKind) /\ Len(memory') = Len(memory) + 1
      /\ \A m \in 1..Len(memory) : memory'[m] = View(s)[m]
      /\ memory'[Len(memory) + 1] = row
  BY <1>2, <1>4, <1>6, AppendProperties
<1>8. Rows' = 1..(Len(memory) + 1)
  BY <1>7, LenProperties DEF Rows
<1> QED
  BY <1>1, <1>3, <1>5, <1>7, <1>8

LEMMA InsertKeepsSupport ==
  ASSUME MemoryInv, NEW s \in Session, Insert(s), NEW m \in Rows', NEW e \in memory'[m].supports
  PROVE  KeepsSupport(m, e)
<1>1. RowsFit
  BY DEF MemoryInv
<1>2. CASE m \in Rows
  <2>1. memory'[m] = View(s)[m]
    BY <1>2, InsertAppends
  <2>2. e \in memory[m].supports
    BY <1>1, <1>2, <2>1, ViewIs DEF SameRow
  <2>3. e \in Rows
    BY <1>1, <1>2, <2>2, SupportIsThere
  <2>4. memory'[e] = View(s)[e]
    BY <2>3, InsertAppends
  <2> QED
    BY <1>1, <1>2, <2>1, <2>3, <2>4, ViewIs DEF KeepsSupport
<1>3. CASE m \notin Rows
  <2>1. /\ memory'[m].subject = session[s].candidate.subject
        /\ memory'[m].status = session[s].status
        /\ PlaceFits(memory, session[s]) /\ session[s].at = "insert"
    BY <1>3, InsertAppends
  <2>2. memory'[m].subject = Procedure => memory'[m].status = "QUARANTINE"
    BY <2>1 DEF PlaceFits
  <2> QED
    BY <2>2 DEF KeepsSupport
<1> QED
  BY <1>2, <1>3

LEMMA DecisionIs ==
  ASSUME NEW rows \in [Rows -> RowKind], NEW m \in Rows, NEW status \in Status,
         memory' = [rows EXCEPT ![m].status = status, ![m].reviewed = TRUE]
  PROVE  /\ Rows' = Rows
         /\ memory'[m].supports = rows[m].supports /\ memory'[m].subject = rows[m].subject
         /\ memory'[m].status = status
         /\ \A n \in Rows \ {m} : memory'[n] = rows[n]
<1>1. DOMAIN memory' = Rows /\ \A n \in Rows \ {m} : memory'[n] = rows[n]
  OBVIOUS
<1>2. memory'[m] = [rows[m] EXCEPT !.status = status, !.reviewed = TRUE] /\ rows[m] \in RowKind
  OBVIOUS
<1> QED
  BY <1>1, <1>2 DEF RowKind, Rows

LEMMA RejectKeepsSupport ==
  ASSUME MemoryInv, NEW s \in Session, Reject(s), NEW m \in Rows', NEW e \in memory'[m].supports
  PROVE  KeepsSupport(m, e)
<1> DEFINE r == session[s].row
<1>1. r \in Rows /\ memory' = [memory EXCEPT ![r].status = "REVOKED", ![r].reviewed = TRUE]
  BY DEF Reject, Commit, At, MemoryInv, SessionsFit, PlaceFits, Rows
<1>2. ReviewerDecides(s, r)
  <2>1. session'[s] = Idle
    BY DEF Reject, Goto, MemoryInv, SessionsFit
  <2> QED
    BY <2>1, IdleFits DEF Reject, ReviewerDecides, Writing
<1> HIDE DEF r
<1>3. /\ Rows' = Rows /\ memory'[r].supports = memory[r].supports
      /\ memory'[r].status = "REVOKED" /\ \A n \in Rows \ {r} : memory'[n] = memory[n]
  BY <1>1, DecisionIs, RowsAreNumbered DEF MemoryInv, Status
<1>4. e \in Rows
  BY <1>3, SupportIsThere DEF MemoryInv
<1> QED
  BY <1>2, <1>3, <1>4 DEF KeepsSupport

LEMMA ActivateKeepsSupport ==
  ASSUME MemoryInv, NEW s \in Session, Activate(s), NEW m \in Rows', NEW e \in memory'[m].supports
  PROVE  KeepsSupport(m, e)
<1> DEFINE r == session[s].row
           rows == Mark(memory, Replaced(r), "SUPERSEDED")
<1>1. /\ r \in Rows /\ MayActivate(r)
      /\ memory' = [rows EXCEPT ![r].status = "ACTIVE", ![r].reviewed = TRUE]
  BY DEF Activate, Commit, At, MemoryInv, SessionsFit, PlaceFits, Rows
<1>2. /\ rows \in [Rows -> RowKind]
      /\ \A n \in Rows : /\ SameRow(rows[n], memory[n])
                         /\ rows[n].status \in {memory[n].status, "SUPERSEDED"}
  BY RowsAreNumbered, MarkIs DEF MemoryInv, Status
<1> HIDE DEF r, rows
<1>3. /\ Rows' = Rows /\ memory'[r].supports = rows[r].supports
      /\ memory'[r].subject = rows[r].subject
      /\ memory'[r].status = "ACTIVE" /\ \A n \in Rows \ {r} : memory'[n] = rows[n]
  BY <1>1, <1>2, DecisionIs DEF Status
<1>4. m \in Rows /\ e \in memory[m].supports /\ memory'[m].subject = memory[m].subject
  BY <1>1, <1>2, <1>3 DEF SameRow
<1>5. e \in Rows
  BY <1>4, SupportIsThere DEF MemoryInv
<1>6. ASSUME m = r, memory'[m].subject = Procedure PROVE memory[e].status \in Pending
  <2>1. Supported(memory, m)
    BY <1>1, <1>4, <1>6 DEF MayActivate, IsProcedure
  <2>2. e \in {n \in memory[m].supports : Corroborable(memory, n)}
    BY <1>4, <2>1 DEF Supported
  <2> QED
    BY <2>2 DEF Corroborable
<1>7. memory'[e].status = "REVOKED" => memory[e].status = "REVOKED"
  BY <1>2, <1>3, <1>5
<1> QED
  BY <1>2, <1>3, <1>4, <1>5, <1>6, <1>7 DEF KeepsSupport, Pending

(* The closure takes a procedure with the episode it rests on, whose       *)
(* evidence it cites.                                                      *)
LEMMA RevokeKeepsSupport ==
  ASSUME MemoryInv, NEW s \in Session, Revoke(s), NEW m \in Rows', NEW e \in memory'[m].supports
  PROVE  KeepsSupport(m, e)
<1> DEFINE t == session[s].evidence
           pending == {n \in Rows : memory[n].status \in Pending}
           ids == Closure(memory, pending, t)
<1>1. RowsFit /\ memory' = Mark(memory, ids, "REVOKED")
  BY RevokeMarks DEF MemoryInv
<1>2. memory \in [Rows -> RowKind] /\ "REVOKED" \in Status
  BY <1>1, RowsAreNumbered DEF Status
<1>3. /\ Rows' = Rows
      /\ \A n \in Rows : /\ SameRow(memory'[n], memory[n])
                         /\ memory'[n].status = IF n \in ids THEN "REVOKED" ELSE memory[n].status
  <2> HIDE DEF ids
  <2> QED
    BY <1>1, <1>2, MarkIs DEF Rows
<1>4. m \in Rows /\ e \in memory[m].supports
  BY <1>3 DEF SameRow
<1>5. e \in Rows /\ memory[e].evidence \subseteq memory[m].evidence
  BY <1>1, <1>4, SupportIsThere
<1>6. ASSUME e \in ids PROVE t \in memory[e].evidence
  <2>1. CASE t \in memory[e].evidence
    BY <2>1
  <2>2. CASE \E n \in memory[e].supports : t \in memory[n].evidence
    BY <1>1, <1>5, <2>2, SupportIsThere
  <2> QED
    BY <1>6, <2>1, <2>2 DEF Closure
<1>7. ASSUME e \in ids, memory[m].status = "ACTIVE" PROVE m \in ids
  BY <1>4, <1>5, <1>6, <1>7 DEF Closure, Pending
<1> HIDE DEF ids, t
<1> QED
  BY <1>3, <1>4, <1>5, <1>7 DEF KeepsSupport

LEMMA SupportIsKept ==
  ASSUME MemoryInv, MemoryNext, NEW m \in Rows', NEW e \in memory'[m].supports
  PROVE  KeepsSupport(m, e)
<1>1. RowsFit
  BY DEF MemoryInv
<1> QED
  BY <1>1, MostAreMild, MildKeepsSupport, InsertKeepsSupport, RejectKeepsSupport,
     ActivateKeepsSupport, RevokeKeepsSupport

(* Only an insertion adds a row, and what it adds as active follows a row  *)
(* that the session saw ended, under the lock it still holds.              *)
LEMMA InsertSaysNothingRevoked ==
  ASSUME MemoryInv, NEW s \in Session, Insert(s), NEW m \in Rows'
  PROVE  SaysNothingRevoked(m)
<1> DEFINE c == session[s].candidate
<1> SUFFICES ASSUME m \notin Rows, memory'[m].status = "ACTIVE",
                    NEW n \in Versions(memory, memory'[m].subject), IsLatest(memory, n),
                    memory'[n].status = "REVOKED"
             PROVE  memory'[n].content # memory'[m].content
  BY DEF SaysNothingRevoked
<1>1. /\ memory'[m].subject = c.subject /\ memory'[m].content = c.content
      /\ session[s].status = "ACTIVE" /\ session[s].at = "insert"
      /\ session[s] \in Inserting /\ PlaceFits(memory, session[s])
  BY InsertAppends
<1>2. n \in Rows /\ memory'[n] = View(s)[n]
  BY InsertAppends DEF Versions, Rows
<1>3. \/ n \in session[s].rows
      \/ memory[n].status = "REVOKED" => memory[n].content # c.content
  BY <1>1 DEF PlaceFits, FollowsEnded
<1>4. HeldRows(s) = session[s].rows
  BY <1>1 DEF HeldRows, Inserting
<1>5. /\ View(s)[n].content = memory[n].content
      /\ View(s)[n].status = IF n \in HeldRows(s) THEN "EXPIRED" ELSE memory[n].status
  BY <1>2, ViewIs DEF MemoryInv, SameRow
<1> QED
  BY <1>1, <1>2, <1>3, <1>4, <1>5

LEMMA NothingRevokedIsSaid ==
  ASSUME MemoryInv, MemoryNext, NEW m \in Rows'
  PROVE  SaysNothingRevoked(m)
<1>1. ASSUME Rows' = Rows PROVE SaysNothingRevoked(m)
  BY <1>1 DEF SaysNothingRevoked
<1>2. ASSUME NEW s \in Session, Reject(s) PROVE Rows' = Rows
  BY <1>2 DEF Reject, Commit, Rows
<1>3. ASSUME NEW s \in Session, Activate(s) PROVE Rows' = Rows
  BY <1>3 DEF Activate, Commit, Mark, Rows
<1>4. ASSUME NEW s \in Session, Revoke(s) PROVE Rows' = Rows
  BY <1>4 DEF Revoke, Commit, Mark, Rows
<1> QED
  BY <1>1, <1>2, <1>3, <1>4, MostAreMild, InsertSaysNothingRevoked DEF Mild

(* A revocation reaches every row that is there, and no session that read  *)
(* before it brings the fact back: a procedure is not activated on what    *)
(* fell, and the same words about the subject wait for a review.           *)
THEOREM RevocationsReach == MemorySpec => RevocationReachesAll
<1>1. ASSUME MemoryInv, MemoryNext
      PROVE  /\ \A s \in Session : CommitReaches(s)
             /\ \A m \in Rows' : \A e \in memory'[m].supports : KeepsSupport(m, e)
             /\ \A m \in Rows' : SaysNothingRevoked(m)
  <2>1. ASSUME NEW s \in Session PROVE CommitReaches(s)
    BY <1>1, OnlyTheirStepsArrive, RevokeReaches DEF CommitReaches
  <2> QED
    BY <1>1, <2>1, SupportIsKept, NothingRevokedIsSaid
<1>2. MemoryInv /\ [MemoryNext]_memoryVars =>
        [/\ \A s \in Session : CommitReaches(s)
         /\ \A m \in Rows' : \A e \in memory'[m].supports : KeepsSupport(m, e)
         /\ \A m \in Rows' : SaysNothingRevoked(m)]_memoryVars
  BY <1>1
<1> QED
  BY <1>2, MemoryInvAlways, PTL DEF MemorySpec, RevocationReachesAll

(* Episodes are not touched by what befalls procedures, so a procedure     *)
(* that stood on them in the reader's view stands in what it commits.      *)
LEMMA ServedStands ==
  ASSUME MemoryInv, NEW s \in Session, Serve(s), NEW m \in session'[s].ids
  PROVE  /\ Visible(memory', m)
         /\ IsProcedure(m) => memory'[m].reviewed /\ Supported(memory', m)
<1> DEFINE ids == session[s].ids
           view == View(s)
           fallen == Unsupported(view, ids)
           left == {n \in ids : Visible(Mark(view, fallen, "REVOKED"), n)}
<1>1. /\ fallen \cap LockedByOthers(s) = {} /\ memory' = Mark(view, fallen, "REVOKED")
      /\ \E chosen \in OnePerLineage(memory', left) : Goto(s, [at |-> "served", ids |-> chosen])
  BY DEF Serve, Commit
<1>2. ids \subseteq Rows
  BY DEF Serve, At, MemoryInv, SessionsFit, PlaceFits, Rows
<1>3. m \in left
  <2>1. \A chosen \in OnePerLineage(memory', left) : chosen \subseteq left
    BY DEF OnePerLineage
  <2> HIDE DEF left
  <2> QED
    BY <1>1, <2>1 DEF Goto, MemoryInv, SessionsFit
<1>4. m \in ids /\ m \in Rows /\ Visible(memory', m)
  BY <1>1, <1>2, <1>3 DEF Visible
<1>5. /\ view \in [Rows -> RowKind] /\ "REVOKED" \in Status
      /\ \A n \in Rows : SameRow(view[n], memory[n])
  BY ViewIs DEF MemoryInv, Status
<1> HIDE DEF ids, view
<1>6. Rewrites(s, memory')
  BY <1>1, <1>2, FallenRewrites DEF ids, view
<1> HIDE DEF fallen
<1>7. /\ memory' \in [Rows -> RowKind]
      /\ \A n \in Rows : /\ SameRow(memory'[n], view[n])
                         /\ memory'[n].status = IF n \in fallen THEN "REVOKED" ELSE view[n].status
  BY <1>1, <1>5, MarkIs
<1>8. ASSUME IsProcedure(m)
      PROVE  memory'[m].reviewed /\ Supported(memory', m)
  <2>1. memory'[m].status = "ACTIVE" /\ memory'[m].reviewed
    BY <1>4, <1>6, <1>8 DEF Visible, Rewrites
  <2>2. m \notin fallen /\ view[m].status = "ACTIVE" /\ view[m].subject = Procedure
    BY <1>4, <1>5, <1>7, <1>8, <2>1 DEF SameRow, IsProcedure
  <2>3. Supported(view, m)
    BY <1>4, <2>2 DEF fallen, Unsupported
  <2>4. view[m].supports = memory[m].supports /\ memory'[m].supports = view[m].supports
    BY <1>4, <1>5, <1>7 DEF SameRow
  <2>5. ASSUME NEW e \in view[m].supports
        PROVE  /\ Corroborable(memory', e) <=> Corroborable(view, e)
               /\ memory'[e].run = view[e].run /\ memory'[e].subject = view[e].subject
    <3>1. e \in Rows /\ memory[e].subject # Procedure
      BY <1>4, <2>4 DEF MemoryInv, RowsFit, Rests, Rows
    <3>2. view[e].subject # Procedure
      BY <1>5, <3>1 DEF SameRow
    <3>3. e \notin fallen
      BY <3>2 DEF fallen, Unsupported
    <3> QED
      BY <1>7, <3>1, <3>3 DEF Corroborable, SameRow
  <2> DEFINE before == {e \in view[m].supports : Corroborable(view, e)}
             after == {e \in memory'[m].supports : Corroborable(memory', e)}
  <2>6. after = before
    BY <2>4, <2>5
  <2>7. /\ {memory'[e].run : e \in after} = {view[e].run : e \in before}
        /\ {memory'[e].subject : e \in after} = {view[e].subject : e \in before}
    BY <2>5, <2>6
  <2>8. /\ before = view[m].supports
        /\ Cardinality({view[e].run : e \in before}) >= 2
        /\ Cardinality({view[e].subject : e \in before}) >= 2
    BY <2>3 DEF Supported
  <2>9. /\ after = memory'[m].supports
        /\ Cardinality({memory'[e].run : e \in after}) >= 2
        /\ Cardinality({memory'[e].subject : e \in after}) >= 2
    <3> HIDE DEF before, after
    <3> QED
      BY <2>4, <2>6, <2>7, <2>8
  <2> QED
    BY <2>1, <2>9 DEF Supported
<1> QED
  BY <1>4, <1>8

(* What retrieval hands over stands at that moment; a procedure has its    *)
(* review and all the episodes it rests on, however long ago it was ranked. *)
THEOREM ServingsStand == MemorySpec => ServedStillStands
<1>1. MemoryInv /\ [MemoryNext]_memoryVars =>
        [\A s \in Session :
          ~At(s, "served") /\ session'[s].at = "served" =>
              \A m \in session'[s].ids :
                  /\ Visible(memory', m)
                  /\ IsProcedure(m) => memory'[m].reviewed /\ Supported(memory', m)]_memoryVars
  BY OnlyTheirStepsArrive, ServedStands
<1> QED
  BY <1>1, MemoryInvAlways, PTL DEF MemorySpec, ServedStillStands
=============================================================================
