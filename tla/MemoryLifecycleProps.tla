------------------------ MODULE MemoryLifecycleProps ------------------------
(* What the memory store promises over concurrent writers and readers.     *)
EXTENDS MemoryLifecycle

Row == [subject : Subject, content : Content, run : Run,
        evidence : SUBSET Ticket, supports : SUBSET Rows, version : 1..Len(memory),
        status : Status, reviewed : BOOLEAN]

(* Rows have their fields; a lock holder is at a step that holds the lock, *)
(* and the rows a session expires are ACTIVE rows past their date that no  *)
(* other session expires.                                                  *)
MemoryTypeOK ==
    /\ memory \in Seq(Row)
    /\ due \subseteq Rows
    /\ outcome \in [Run -> Outcome]
    /\ begun \in 0..MaxRequests
    /\ writer \in Session \cup {Nobody}
    /\ \A s \in Session :
         /\ (writer = s) <=> session[s].at \in {"insert", "decide", "revoking"}
         /\ \A m \in HeldRows(s) : /\ m \in due /\ memory[m].status = "ACTIVE"
                                   /\ m \notin LockedByOthers(s)

(* Versions of one subject are numbered without a gap or a repetition, for *)
(* the unique constraint does not see tenant-wide rows (scope_id is NULL). *)
VersionsCount ==
    \A a \in Subject :
        {memory[m].version : m \in Versions(memory, a)} = 1..Cardinality(Versions(memory, a))

(* SUPERSEDED, REVOKED and EXPIRED are final, whichever of reviewer,       *)
(* revoker, writer and readers meet on the row (LEGAL_TRANSITIONS).        *)
EndedStaysEnded ==
    [][\A m \in Rows : memory[m].status \notin Pending => memory'[m].status = memory[m].status]_memoryVars

(* The commit of a revocation leaves no row pending that cites the evidence *)
(* or rests on one that does.                                              *)
CommitReaches(s) ==
    At(s, "revoking") /\ session'[s].at = "revoked" =>
        \A m \in Rows' :
            memory'[m].status \in Pending =>
                /\ session[s].evidence \notin memory'[m].evidence
                /\ \A e \in memory'[m].supports :
                      session[s].evidence \notin memory'[e].evidence

(* s is the reviewer who decides on row e in this step. *)
ReviewerDecides(s, e) ==
    At(s, "decide") /\ session[s].row = e /\ session'[s].at # "decide"

(* No step makes a procedure that rests on episode e active while e is     *)
(* revoked, or revokes e under an active one, but the reviewer's of e.     *)
KeepsSupport(m, e) ==
    /\ memory'[m].subject = Procedure /\ memory'[m].status = "ACTIVE"
    /\ memory'[e].status = "REVOKED"
    =>  \/ m \in Rows /\ memory[m].status = "ACTIVE" /\ memory[e].status = "REVOKED"
        \/ \E s \in Session : ReviewerDecides(s, e)

(* Row n is the latest version of its subject. *)
IsLatest(rows, n) ==
    \A k \in Versions(rows, rows[n].subject) : rows[k].version <= rows[n].version

(* Row m, if it was written in this step as active, does not say again what *)
(* was revoked last about its subject.                                     *)
SaysNothingRevoked(m) ==
    m \notin Rows /\ memory'[m].status = "ACTIVE" =>
        \A n \in Versions(memory, memory'[m].subject) :
            IsLatest(memory, n) /\ memory'[n].status = "REVOKED" =>
                memory'[n].content # memory'[m].content

(* A revocation reaches what is there when it commits, and what a session  *)
(* that read before it does after it: a procedure proposed on episodes     *)
(* that fell in the meantime is never activated, and a revoked fact that a *)
(* run writes again "must NOT resurrect ... silently" but waits for a       *)
(* reviewer (memory/repository.py:137-138).  The code keeps no list of     *)
(* revoked evidence: an episode that cites it and says something else, or  *)
(* comes after a version that has expired, may be active unreviewed.       *)
RevocationReachesAll ==
    [][/\ \A s \in Session : CommitReaches(s)
       /\ \A m \in Rows' : \A e \in memory'[m].supports : KeepsSupport(m, e)
       /\ \A m \in Rows' : SaysNothingRevoked(m)]_memoryVars

(* What retrieval hands to the model still stands when it is handed over,  *)
(* however long the embedding call took; a procedure also needs every      *)
(* episode it rests on.                                                    *)
ServedStillStands ==
    [][\A s \in Session :
          ~At(s, "served") /\ session'[s].at = "served" =>
              \A m \in session'[s].ids :
                  /\ Visible(memory', m)
                  /\ IsProcedure(m) => memory'[m].reviewed /\ Supported(memory', m)]_memoryVars

(* "never a second live version on the same subject without review"        *)
(* (memory/repository.py:135-136).  The code does not keep this: a version *)
(* compares itself with the last one only, which a reviewer may have       *)
(* revoked while an older one is still served.                             *)
OneLiveVersion ==
    \A m, n \in Rows :
        /\ Visible(memory, m) /\ Visible(memory, n)
        /\ memory[m].subject = memory[n].subject
        => m = n
=============================================================================
