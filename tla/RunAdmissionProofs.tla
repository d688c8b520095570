-------------------------- MODULE RunAdmissionProofs --------------------------
(* Proofs about RunAdmission, for any number of clients, keys and deliveries *)
(* and any limit of the queue.                                              *)
EXTENDS RunAdmissionProps, FiniteSetTheorems, SequenceTheorems, TLAPS

-----------------------------------------------------------------------------
(* What must hold besides the properties for a step to keep them.          *)

Places == {"key", "lookup", "admit", "count", "insert"}
RunRow == [key : Named \cup {NoKey}, goal : Goal \cup {"webhook"},
        status : {"pending", "running", "waiting", "ended"}, waited : BOOLEAN]

(* A transaction carries the submission it is for, and asks for a lock or a *)
(* receipt only when that has a key.                                        *)
ClientFits ==
    /\ client \in [Client -> {Away} \cup [at : Places, request : Submission]]
    /\ \A c \in Client : client[c].at \in {"key", "lookup"} => Request(c).key # NoKey

(* The runs in the queue that no human has held up. *)
Unwaited == {r \in Runnable : ~runs[r].waited}

(* Who counts holds the tenant's lock until the row is in, so what was     *)
(* counted still holds when it is.                                         *)
QueueFits ==
    /\ \A c \in Client :
         /\ client[c].at \in {"count", "insert"} => admission = c
         /\ client[c].at = "insert" => Cardinality(Unwaited) < QueueLimit
    /\ \A r \in RunIds : runs[r].status = "waiting" => runs[r].waited

(* Who has found no receipt holds the key's lock, so there is none until it *)
(* writes one; runs and receipts name each other.                           *)
KeysFit ==
    /\ \A c \in Client : client[c].at \in Places \ {"key"} /\ Request(c).key # NoKey =>
         /\ keyLock[Request(c).key] = c
         /\ client[c].at # "lookup" => receipt[Request(c).key] = 0
    /\ \A r \in RunIds : runs[r].key # NoKey => receipt[runs[r].key] = r
    /\ \A k \in Named : receipt[k] # 0 => runs[receipt[k]].key = k
    /\ \A a \in answered : /\ runs[a.run].key = a.request.key
                           /\ runs[a.run].goal = a.request.goal

AdmissionInv == AdmissionTypeOK /\ ClientFits /\ AdmissionHolds /\ QueueFits /\ KeysFit

-----------------------------------------------------------------------------
(* The two ways in which the rows change. *)

LEMMA RunsAreRows ==
  ASSUME AdmissionTypeOK
  PROVE  /\ Len(runs) \in Nat /\ RunIds = 1..Len(runs)
         /\ \A r \in RunIds : runs[r] \in RunRow
         /\ runs \in Seq(RunRow)
<1>1. runs \in Seq(RunRow)
  BY DEF AdmissionTypeOK, RunRow
<1> QED
  BY <1>1, LenProperties DEF RunIds

(* The rows as they are after an insert. *)
LEMMA RunsAfterInsert ==
  ASSUME AdmissionTypeOK, ClientFits, NEW c \in Client, InsertRun(c)
  PROVE  /\ client[c] \in [at : Places, request : Submission] /\ client[c].at = "insert"
         /\ Request(c) \in Submission
         /\ runs' \in Seq(RunRow) /\ Len(runs') = Len(runs) + 1
         /\ RunIds' = RunIds \cup {Len(runs) + 1} /\ Len(runs) + 1 \notin RunIds
         /\ \A r \in RunIds : runs'[r] = runs[r]
         /\ runs'[Len(runs) + 1].key = Request(c).key
         /\ runs'[Len(runs) + 1].goal = Request(c).goal
         /\ runs'[Len(runs) + 1].status = "pending" /\ ~runs'[Len(runs) + 1].waited
<1>1. client[c] \in [at : Places, request : Submission] /\ client[c].at = "insert"
  BY DEF InsertRun, ClientFits, Away
<1>2. Request(c) \in Submission
  BY <1>1 DEF Request
<1> DEFINE row == [key |-> Request(c).key, goal |-> Request(c).goal,
                   status |-> "pending", waited |-> FALSE]
<1>3. row \in RunRow
  BY <1>2 DEF RunRow, Submission, Named
<1>4. runs' = Append(runs, row)
  BY DEF InsertRun
<1>5. /\ runs' \in Seq(RunRow) /\ Len(runs') = Len(runs) + 1
      /\ \A r \in 1..Len(runs) : runs'[r] = runs[r]
      /\ runs'[Len(runs) + 1] = row
  <2> HIDE DEF row
  <2> QED
    BY <1>3, <1>4, RunsAreRows, AppendProperties
<1>6. RunIds' = 1..(Len(runs) + 1)
  BY <1>5, LenProperties DEF RunIds
<1> QED
  BY <1>1, <1>2, <1>5, <1>6, RunsAreRows

(* The rows as they are after one has moved on. *)
LEMMA RunsAfterProceed ==
  ASSUME AdmissionTypeOK, NEW r \in RunIds, Proceed(r)
  PROVE  /\ runs' \in Seq(RunRow) /\ Len(runs') = Len(runs) /\ RunIds' = RunIds
         /\ \A s \in RunIds : /\ runs'[s].key = runs[s].key /\ runs'[s].goal = runs[s].goal
                              /\ s # r => runs'[s] = runs[s]
         /\ runs[r].status \in {"pending", "running", "waiting"}
         /\ runs[r].status = "pending" => runs'[r].status = "running"
         /\ runs'[r].status # "pending"
         /\ runs'[r].waited = (runs[r].waited \/ runs'[r].status = "waiting")
<1>1. runs[r] \in RunRow
  BY RunsAreRows
<1>2. PICK next \in {"running", "waiting", "ended"} :
        /\ runs' = [runs EXCEPT ![r].status = next, ![r].waited = @ \/ next = "waiting"]
        /\ runs[r].status \in {"pending", "running", "waiting"}
        /\ runs[r].status = "pending" => next = "running"
  BY <1>1 DEF Proceed, RunRow
<1> DEFINE row == [runs[r] EXCEPT !.status = next, !.waited = @ \/ next = "waiting"]
<1>3. row \in RunRow /\ row.key = runs[r].key /\ row.goal = runs[r].goal
  BY <1>1 DEF RunRow
<1>4. row.status = next
  BY <1>1 DEF RunRow
<1>5. row.waited = (runs[r].waited \/ next = "waiting")
  BY <1>1 DEF RunRow
<1>6. runs' = [runs EXCEPT ![r] = row]
  BY <1>2
<1> HIDE DEF row
<1>7. /\ runs' \in Seq(RunRow) /\ Len(runs') = Len(runs)
      /\ \A s \in 1..Len(runs) : runs'[s] = IF s = r THEN row ELSE runs[s]
  BY <1>3, <1>6, RunsAreRows, ExceptSeq
<1>8. RunIds' = RunIds
  BY <1>7, LenProperties, RunsAreRows DEF RunIds
<1> QED
  BY <1>2, <1>3, <1>4, <1>5, <1>7, <1>8, RunsAreRows

(* A transaction that ends leaves the locks of the others alone. *)
LEMMA LocksAfterRelease ==
  ASSUME AdmissionTypeOK, ClientFits, NEW c \in Client, Release(c)
  PROVE  /\ keyLock' \in [Named -> Client \cup {Unlocked}]
         /\ admission' \in Client \cup {Unlocked}
         /\ client'[c] = Away
         /\ \A d \in Client \ {c} :
              /\ client'[d] = client[d] /\ Request(d)' = Request(d)
              /\ admission = d => admission' = d
              /\ \A k \in Named : keyLock[k] = d => keyLock'[k] = d
  BY DEF AdmissionTypeOK, ClientFits, Release, Request, Away

-----------------------------------------------------------------------------
(* Types. *)

LEMMA ClientStep == AdmissionTypeOK /\ ClientFits /\ [AdmissionNext]_admissionVars => ClientFits'
<1> SUFFICES ASSUME AdmissionTypeOK, ClientFits, [AdmissionNext]_admissionVars PROVE ClientFits'
  OBVIOUS
<1> USE DEF ClientFits, Request, Away, Places
<1>1. CASE UNCHANGED admissionVars
  BY <1>1 DEF admissionVars
<1>2. ASSUME NEW c \in Client, NEW q \in Submission, Submit(c, q) PROVE ClientFits'
  <2>1. client' = [client EXCEPT ![c] =
                     [at |-> IF q.key = NoKey THEN "admit" ELSE "key", request |-> q]]
    BY <1>2 DEF Submit
  <2> QED
    BY <2>1
<1>3. ASSUME NEW c \in Client, LockKey(c) \/ LockAdmission(c) \/ Lookup(c) \/ Count(c),
             NEW place \in Places \ {"key"}, client[c].at # "away", Enter(c, place),
             place = "lookup" => client[c].at = "key"
      PROVE  ClientFits'
  BY <1>3 DEF Enter
<1>4. ASSUME NEW c \in Client, Release(c) PROVE ClientFits'
  BY <1>4 DEF Release
<1>5. ASSUME NEW c \in Client,
             LockKey(c) \/ Lookup(c) \/ LockAdmission(c) \/ Count(c) \/ InsertRun(c) \/ RollBack(c)
      PROVE  ClientFits'
  BY <1>3, <1>4, <1>5 DEF LockKey, Lookup, LockAdmission, Count, InsertRun, RollBack
<1>6. ASSUME NEW r \in RunIds, Proceed(r) PROVE ClientFits'
  BY <1>6 DEF Proceed
<1> QED
  BY <1>1, <1>2, <1>5, <1>6 DEF AdmissionNext

LEMMA TypeStep ==
  AdmissionTypeOK /\ ClientFits /\ [AdmissionNext]_admissionVars => AdmissionTypeOK'
<1> SUFFICES ASSUME AdmissionTypeOK, ClientFits, [AdmissionNext]_admissionVars
             PROVE  AdmissionTypeOK'
  OBVIOUS
<1>1. CASE UNCHANGED admissionVars
  BY <1>1 DEF admissionVars, AdmissionTypeOK, RunIds
<1>2. ASSUME NEW c \in Client, NEW q \in Submission, Submit(c, q) PROVE AdmissionTypeOK'
  BY <1>2, SubmissionsAreBounded DEF Submit, AdmissionTypeOK, RunIds
<1>3. ASSUME NEW c \in Client, LockKey(c) PROVE AdmissionTypeOK'
  BY <1>3 DEF LockKey, AdmissionTypeOK, RunIds
<1>4. ASSUME NEW c \in Client, LockAdmission(c) PROVE AdmissionTypeOK'
  BY <1>4 DEF LockAdmission, AdmissionTypeOK, RunIds
<1>5. ASSUME NEW c \in Client, Lookup(c) PROVE AdmissionTypeOK'
  <2>1. CASE UNCHANGED <<keyLock, admission, answered>>
    BY <1>5, <2>1 DEF Lookup, AdmissionTypeOK, RunIds
  <2>2. CASE Release(c)
    <3>1. Request(c) \in Submission /\ Request(c).key \in Named
      BY <1>5 DEF Lookup, ClientFits, Request, Away, Submission, Named
    <3>2. receipt[Request(c).key] # 0 => receipt[Request(c).key] \in RunIds
      BY <3>1, RunsAreRows DEF AdmissionTypeOK
    <3>3. answered' \subseteq [request : Submission, run : RunIds]
      BY <1>5, <2>2, <3>1, <3>2 DEF Lookup, Tell, AdmissionTypeOK
    <3> QED
      BY <1>5, <2>2, <3>3, LocksAfterRelease DEF Lookup, AdmissionTypeOK, RunIds
  <2> QED
    BY <1>5, <2>1, <2>2 DEF Lookup
<1>6. ASSUME NEW c \in Client, Count(c) PROVE AdmissionTypeOK'
  BY <1>6, LocksAfterRelease DEF Count, AdmissionTypeOK, RunIds
<1>7. ASSUME NEW c \in Client, InsertRun(c) PROVE AdmissionTypeOK'
  <2>1. answered' \subseteq [request : Submission, run : RunIds']
    <3>1. answered' = answered \cup {[request |-> Request(c), run |-> Len(runs) + 1]}
      BY <1>7 DEF InsertRun, Tell
    <3>2. answered \subseteq [request : Submission, run : RunIds]
      BY DEF AdmissionTypeOK
    <3>3. /\ Request(c) \in Submission
          /\ RunIds' = RunIds \cup {Len(runs) + 1}
      BY <1>7, RunsAfterInsert
    <3> QED
      BY <3>1, <3>2, <3>3
  <2>2. receipt' \in [Named -> 0..Len(runs')]
    <3>1. receipt \in [Named -> 0..(Len(runs) + 1)] /\ Len(runs) + 1 \in 0..(Len(runs) + 1)
      BY RunsAreRows DEF AdmissionTypeOK
    <3> QED
      BY <1>7, <3>1, RunsAfterInsert DEF InsertRun
  <2>3. runs' \in Seq(RunRow) /\ submissions' = submissions /\ Release(c)
    BY <1>7, RunsAfterInsert DEF InsertRun
  <2> QED
    BY <2>1, <2>2, <2>3, LocksAfterRelease DEF AdmissionTypeOK, RunRow
<1>8. ASSUME NEW c \in Client, RollBack(c) PROVE AdmissionTypeOK'
  BY <1>8, LocksAfterRelease DEF RollBack, AdmissionTypeOK, RunIds
<1>9. ASSUME NEW r \in RunIds, Proceed(r) PROVE AdmissionTypeOK'
  BY <1>9, RunsAfterProceed DEF Proceed, AdmissionTypeOK, RunRow
<1> QED
  BY <1>1, <1>2, <1>3, <1>4, <1>5, <1>6, <1>7, <1>8, <1>9 DEF AdmissionNext

-----------------------------------------------------------------------------
(* The queue. *)

LEMMA QueueIsFinite ==
  ASSUME AdmissionTypeOK
  PROVE  /\ IsFiniteSet(Runnable) /\ IsFiniteSet(Unwaited)
         /\ Cardinality(Runnable) \in Nat /\ Cardinality(Unwaited) \in Nat
         /\ Cardinality(Unwaited) <= Cardinality(Runnable)
<1>1. IsFiniteSet(RunIds)
  BY RunsAreRows, FS_Interval
<1>2. IsFiniteSet(Runnable)
  BY <1>1, FS_Subset DEF Runnable
<1> QED
  BY <1>2, FS_Subset, FS_CardinalityType DEF Unwaited

(* Rows that stay as they were leave the queue as it was. *)
LEMMA SameQueue ==
  ASSUME runs' = runs
  PROVE  Unwaited' = Unwaited /\ RunIds' = RunIds
  BY DEF Unwaited, Runnable, RunIds

LEMMA QueueStep ==
  AdmissionTypeOK /\ ClientFits /\ AdmissionHolds /\ QueueFits /\ [AdmissionNext]_admissionVars
    => AdmissionHolds' /\ QueueFits'
<1> SUFFICES ASSUME AdmissionTypeOK, ClientFits, AdmissionHolds, QueueFits,
                    [AdmissionNext]_admissionVars
             PROVE  AdmissionHolds' /\ QueueFits'
  OBVIOUS
<1> USE QueueLimitIsPositive
<1>1. (AdmissionHolds <=> Cardinality(Unwaited) <= QueueLimit)
      /\ (AdmissionHolds' <=> Cardinality(Unwaited') <= QueueLimit)
  BY DEF AdmissionHolds, Unwaited
<1>2. CASE UNCHANGED admissionVars
  BY <1>1, <1>2, SameQueue DEF admissionVars, QueueFits
<1>3. ASSUME NEW c \in Client, NEW q \in Submission, Submit(c, q)
      PROVE  AdmissionHolds' /\ QueueFits'
  <2>1. /\ client'[c].at \in {"admit", "key"}
        /\ \A d \in Client \ {c} : client'[d] = client[d]
    BY <1>3 DEF Submit, ClientFits
  <2> QED
    BY <1>1, <1>3, <2>1, SameQueue DEF Submit, QueueFits
<1>4. ASSUME NEW c \in Client, LockKey(c) PROVE AdmissionHolds' /\ QueueFits'
  <2>1. client'[c].at = "lookup" /\ \A d \in Client \ {c} : client'[d] = client[d]
    BY <1>4 DEF LockKey, Enter, ClientFits, Away
  <2> QED
    BY <1>1, <1>4, <2>1, SameQueue DEF LockKey, QueueFits
<1>5. ASSUME NEW c \in Client, LockAdmission(c) PROVE AdmissionHolds' /\ QueueFits'
  <2>1. client'[c].at = "count" /\ \A d \in Client \ {c} : client'[d] = client[d]
    BY <1>5 DEF LockAdmission, Enter, ClientFits, Away
  <2> QED
    BY <1>1, <1>5, <2>1, SameQueue, UnlockedIsNoClient DEF LockAdmission, QueueFits
<1>6. ASSUME NEW c \in Client, Release(c), runs' = runs PROVE AdmissionHolds' /\ QueueFits'
  BY <1>1, <1>6, SameQueue, LocksAfterRelease DEF QueueFits, Away
<1>7. ASSUME NEW c \in Client, Lookup(c) PROVE AdmissionHolds' /\ QueueFits'
  <2>1. CASE Release(c)
    BY <1>6, <1>7, <2>1 DEF Lookup
  <2>2. CASE Enter(c, "admit") /\ UNCHANGED <<keyLock, admission, answered>>
    <3>1. client'[c].at = "admit" /\ \A d \in Client \ {c} : client'[d] = client[d]
      BY <2>2 DEF Enter, ClientFits, Away
    <3> QED
      BY <1>1, <1>7, <2>2, <3>1, SameQueue DEF Lookup, QueueFits
  <2> QED
    BY <1>7, <2>1, <2>2 DEF Lookup
<1>8. ASSUME NEW c \in Client, Count(c) PROVE AdmissionHolds' /\ QueueFits'
  <2>1. CASE Cardinality(Runnable) < QueueLimit
    <3>1. client'[c].at = "insert" /\ \A d \in Client \ {c} : client'[d] = client[d]
      BY <1>8, <2>1 DEF Count, Enter, ClientFits, Away
    <3>2. Cardinality(Unwaited) < QueueLimit
      BY <2>1, QueueIsFinite
    <3> QED
      BY <1>1, <1>8, <2>1, <3>1, <3>2, SameQueue DEF Count, QueueFits
  <2> QED
    BY <1>6, <1>8, <2>1 DEF Count
<1>9. ASSUME NEW c \in Client, InsertRun(c) PROVE AdmissionHolds' /\ QueueFits'
  <2> DEFINE run == Len(runs) + 1
  <2>1. Unwaited' = Unwaited \cup {run}
    <3>1. /\ RunIds' = RunIds \cup {run} /\ run \notin RunIds
          /\ \A r \in RunIds : runs'[r] = runs[r]
          /\ runs'[run].status = "pending" /\ ~runs'[run].waited
      BY <1>9, RunsAfterInsert
    <3> HIDE DEF run
    <3> QED
      BY <3>1 DEF Unwaited, Runnable
  <2>2. IsFiniteSet(Unwaited') /\ Cardinality(Unwaited') <= Cardinality(Unwaited) + 1
    <3>1. /\ IsFiniteSet(Unwaited \cup {run})
          /\ Cardinality(Unwaited \cup {run}) =
               IF run \in Unwaited THEN Cardinality(Unwaited) ELSE Cardinality(Unwaited) + 1
      BY QueueIsFinite, FS_AddElement, Zenon
    <3> QED
      BY <2>1, <3>1, QueueIsFinite
  <2>3. Cardinality(Unwaited) < QueueLimit /\ admission = c
    BY <1>9 DEF InsertRun, QueueFits
  <2>4. Cardinality(Unwaited') <= QueueLimit
    <3>1. Cardinality(Unwaited') \in Nat
      BY <2>2, FS_CardinalityType
    <3> QED
      BY <2>2, <2>3, <3>1, QueueIsFinite
  <2>5. \A d \in Client : client'[d].at \notin {"count", "insert"}
    <3>1. Release(c)
      BY <1>9 DEF InsertRun
    <3> QED
      BY <2>3, <3>1, LocksAfterRelease DEF QueueFits, Away
  <2>6. \A r \in RunIds' : runs'[r].status = "waiting" => runs'[r].waited
    <3>1. /\ RunIds' = RunIds \cup {run}
          /\ \A r \in RunIds : runs'[r] = runs[r]
          /\ runs'[run].status = "pending"
      BY <1>9, RunsAfterInsert
    <3> HIDE DEF run
    <3> QED
      BY <3>1 DEF QueueFits
  <2> QED
    BY <1>1, <2>4, <2>5, <2>6 DEF QueueFits
<1>10. ASSUME NEW r \in RunIds, Proceed(r) PROVE AdmissionHolds' /\ QueueFits'
  <2>1. Unwaited' \subseteq Unwaited
    <3> SUFFICES ASSUME NEW s \in Unwaited' PROVE s \in Unwaited
      OBVIOUS
    <3>1. s \in RunIds /\ runs'[s].status \in {"pending", "running"} /\ ~runs'[s].waited
      BY <1>10, RunsAfterProceed DEF Unwaited, Runnable
    <3>2. CASE s # r
      BY <1>10, <3>1, <3>2, RunsAfterProceed DEF Unwaited, Runnable
    <3>3. CASE s = r
      <4>1. runs[r].status \in {"pending", "running", "waiting"}
        BY <1>10, RunsAfterProceed
      <4>2. ~runs[r].waited
        BY <1>10, <3>1, <3>3, RunsAfterProceed
      <4>3. runs[r].status # "waiting"
        BY <4>2 DEF QueueFits
      <4> QED
        BY <3>3, <4>1, <4>2, <4>3 DEF Unwaited, Runnable
    <3> QED
      BY <3>2, <3>3
  <2>2. Cardinality(Unwaited') \in Nat /\ Cardinality(Unwaited') <= Cardinality(Unwaited)
    BY <2>1, QueueIsFinite, FS_Subset, FS_CardinalityType
  <2>3. \A s \in RunIds' : runs'[s].status = "waiting" => runs'[s].waited
    <3>1. runs'[r].status = "waiting" => runs'[r].waited
      BY <1>10, RunsAfterProceed
    <3> QED
      BY <1>10, <3>1, RunsAfterProceed DEF QueueFits
  <2>4. UNCHANGED <<client, admission>>
    BY <1>10 DEF Proceed
  <2>5. \A c \in Client : client'[c].at = "insert" => Cardinality(Unwaited') < QueueLimit
    BY <2>2, <2>4, QueueIsFinite DEF QueueFits
  <2>6. Cardinality(Unwaited') <= QueueLimit
    BY <1>1, <2>2, QueueIsFinite
  <2> QED
    BY <1>1, <2>3, <2>4, <2>5, <2>6 DEF QueueFits
<1>11. ASSUME NEW c \in Client, RollBack(c) PROVE AdmissionHolds' /\ QueueFits'
  BY <1>6, <1>11 DEF RollBack
<1> QED
  BY <1>2, <1>3, <1>4, <1>5, <1>7, <1>8, <1>9, <1>10, <1>11 DEF AdmissionNext

-----------------------------------------------------------------------------
(* Keys and receipts. *)

LEMMA KeysStep ==
  AdmissionTypeOK /\ ClientFits /\ KeysFit /\ [AdmissionNext]_admissionVars => KeysFit'
<1> SUFFICES ASSUME AdmissionTypeOK, ClientFits, KeysFit, [AdmissionNext]_admissionVars
             PROVE  KeysFit'
  OBVIOUS
<1> DEFINE Locks(c) == client[c].at \in Places \ {"key"} /\ Request(c).key # NoKey =>
                         /\ keyLock[Request(c).key] = c
                         /\ client[c].at # "lookup" => receipt[Request(c).key] = 0
           Rows == /\ \A r \in RunIds : runs[r].key # NoKey => receipt[runs[r].key] = r
                   /\ \A k \in Named : receipt[k] # 0 => runs[receipt[k]].key = k
           Told == \A a \in answered : /\ runs[a.run].key = a.request.key
                                       /\ runs[a.run].goal = a.request.goal
<1> USE DEF Places
<1>1. /\ KeysFit <=> (\A c \in Client : Locks(c)) /\ Rows /\ Told
      /\ KeysFit' <=> (\A c \in Client : Locks(c)') /\ Rows' /\ Told'
  BY DEF KeysFit
<1>2. \A c \in Client : client[c] # Away => Request(c).key \in Named \cup {NoKey}
  BY DEF ClientFits, Request, Submission, Named
<1>3. ASSUME UNCHANGED <<runs, receipt>> PROVE Rows'
  BY <1>1, <1>3 DEF RunIds
<1>4. ASSUME UNCHANGED <<runs, answered>> PROVE Told'
  BY <1>1, <1>4
<1>5. ASSUME NEW c \in Client, Release(c), receipt' = receipt PROVE \A d \in Client : Locks(d)'
  <2> SUFFICES ASSUME NEW d \in Client, client'[d].at \in Places \ {"key"},
                      Request(d)'.key # NoKey
               PROVE  /\ keyLock'[Request(d)'.key] = d
                      /\ client'[d].at # "lookup" => receipt'[Request(d)'.key] = 0
    OBVIOUS
  <2>1. d # c
    BY <1>5, LocksAfterRelease DEF Away
  <2>2. /\ client'[d] = client[d] /\ Request(d)' = Request(d)
        /\ \A k \in Named : keyLock[k] = d => keyLock'[k] = d
    BY <1>5, <2>1, LocksAfterRelease
  <2> QED
    BY <1>1, <1>2, <1>5, <2>2 DEF Away
<1>6. CASE UNCHANGED admissionVars
  BY <1>1, <1>3, <1>4, <1>6 DEF admissionVars, Request
<1>7. ASSUME NEW c \in Client, NEW q \in Submission, Submit(c, q) PROVE KeysFit'
  <2>1. /\ client'[c] = [at |-> IF q.key = NoKey THEN "admit" ELSE "key", request |-> q]
        /\ \A d \in Client \ {c} : client'[d] = client[d]
    BY <1>7 DEF Submit, ClientFits
  <2>2. \A d \in Client : Locks(d)'
    BY <1>1, <1>7, <2>1 DEF Submit, Request
  <2> QED
    BY <1>1, <1>3, <1>4, <1>7, <2>2 DEF Submit
<1>8. ASSUME NEW c \in Client, LockKey(c) PROVE KeysFit'
  <2>1. /\ client'[c].at = "lookup" /\ client'[c].request = client[c].request
        /\ \A d \in Client \ {c} : client'[d] = client[d]
    BY <1>8 DEF LockKey, Enter, ClientFits, Away
  <2>2. Request(c).key \in Named
    BY <1>2, <1>8 DEF LockKey, ClientFits, Away
  <2>3. /\ keyLock'[Request(c).key] = c
        /\ \A k \in Named : keyLock[k] # Unlocked => keyLock'[k] = keyLock[k]
    BY <1>8, <2>2 DEF LockKey, AdmissionTypeOK
  <2>4. \A d \in Client : Locks(d)'
    BY <1>1, <1>2, <1>8, <2>1, <2>3, UnlockedIsNoClient DEF LockKey, Request, Away
  <2> QED
    BY <1>1, <1>3, <1>4, <1>8, <2>4 DEF LockKey
<1>9. ASSUME NEW c \in Client, Lookup(c) PROVE KeysFit'
  <2>1. Request(c).key \in Named /\ client[c].at = "lookup"
    BY <1>2, <1>9 DEF Lookup, ClientFits, Away
  <2>2. Rows'
    BY <1>3, <1>9 DEF Lookup
  <2>3. CASE Release(c)
    <3>1. Told'
      BY <1>1, <1>9, <2>1, <2>3 DEF Lookup, SameRequest, Tell
    <3> QED
      BY <1>1, <1>5, <1>9, <2>2, <2>3, <3>1 DEF Lookup
  <2>4. CASE receipt[Request(c).key] = 0 /\ Enter(c, "admit")
             /\ UNCHANGED <<keyLock, admission, answered>>
    <3>1. /\ client'[c].at = "admit" /\ client'[c].request = client[c].request
          /\ \A d \in Client \ {c} : client'[d] = client[d]
      BY <2>4 DEF Enter, ClientFits, Away
    <3>2. \A d \in Client : Locks(d)'
      BY <1>1, <1>9, <2>1, <2>4, <3>1 DEF Lookup, Request
    <3> QED
      BY <1>1, <1>4, <1>9, <2>2, <2>4, <3>2 DEF Lookup
  <2> QED
    BY <1>9, <2>3, <2>4 DEF Lookup
<1>10. ASSUME NEW c \in Client, client[c].at \in {"admit", "count"}, NEW place \in {"count", "insert"},
              Enter(c, place), UNCHANGED <<runs, receipt, keyLock, answered>>
       PROVE  KeysFit'
  <2>1. /\ client'[c].at = place /\ client'[c].request = client[c].request
        /\ \A d \in Client \ {c} : client'[d] = client[d]
    BY <1>10 DEF Enter, ClientFits, Away
  <2>2. \A d \in Client : Locks(d)'
    BY <1>1, <1>10, <2>1 DEF Request
  <2> QED
    BY <1>1, <1>3, <1>4, <1>10, <2>2
<1>11. ASSUME NEW c \in Client, LockAdmission(c) PROVE KeysFit'
  BY <1>10, <1>11 DEF LockAdmission
<1>12. ASSUME NEW c \in Client, Count(c) PROVE KeysFit'
  <2>1. CASE Release(c)
    BY <1>1, <1>3, <1>4, <1>5, <1>12, <2>1 DEF Count
  <2> QED
    BY <1>10, <1>12, <2>1 DEF Count
<1>13. ASSUME NEW c \in Client, InsertRun(c) PROVE KeysFit'
  <2> DEFINE k == Request(c).key
             run == Len(runs) + 1
  <2>1. /\ client[c].at = "insert" /\ k \in Named \cup {NoKey}
        /\ k # NoKey => keyLock[k] = c /\ receipt[k] = 0
    BY <1>1, <1>2, <1>13 DEF InsertRun, Away
  <2>2. /\ runs'[run].key = k /\ runs'[run].goal = Request(c).goal
        /\ RunIds' = RunIds \cup {run} /\ run \notin RunIds
        /\ \A r \in RunIds : runs'[r] = runs[r]
        /\ 0 \notin RunIds /\ run # 0
    <3>1. 0 \notin RunIds /\ run # 0
      BY RunsAreRows
    <3> QED
      BY <1>13, <3>1, RunsAfterInsert
  <2>3. /\ k # NoKey => receipt'[k] = run
        /\ \A other \in Named : other # k => receipt'[other] = receipt[other]
    BY <1>13, <2>1, NoKeyIsNotGiven DEF InsertRun, AdmissionTypeOK, Named
  <2>4. Release(c)
    BY <1>13 DEF InsertRun
  <2>5. \A r \in RunIds : runs[r].key \in Named \cup {NoKey}
    BY RunsAreRows DEF RunRow
  <2>6. \A other \in Named : receipt[other] # 0 => receipt[other] \in RunIds
    BY RunsAreRows DEF AdmissionTypeOK
  <2>7. Rows'
    <3>1. ASSUME NEW r \in RunIds', runs'[r].key # NoKey PROVE receipt'[runs'[r].key] = r
      <4>1. CASE r = run
        BY <2>2, <2>3, <3>1, <4>1
      <4>2. CASE r \in RunIds
        <5>1. runs'[r].key = runs[r].key /\ runs[r].key \in Named /\ receipt[runs[r].key] = r
          BY <1>1, <2>2, <2>5, <3>1, <4>2
        <5>2. runs[r].key # k
          BY <2>1, <2>2, <3>1, <4>2, <5>1
        <5> QED
          BY <2>3, <5>1, <5>2
      <4> QED
        BY <2>2, <4>1, <4>2
    <3>2. ASSUME NEW other \in Named, receipt'[other] # 0
          PROVE  runs'[receipt'[other]].key = other
      <4>1. CASE other = k
        BY <2>2, <2>3, <3>2, <4>1, NoKeyIsNotGiven DEF Named
      <4>2. CASE other # k
        BY <1>1, <2>2, <2>3, <2>6, <3>2, <4>2
      <4> QED
        BY <4>1, <4>2
    <3> QED
      BY <3>1, <3>2
  <2>8. Told'
    <3>1. answered' = answered \cup {[request |-> Request(c), run |-> run]}
      BY <1>13 DEF InsertRun, Tell
    <3>2. \A a \in answered : a.run \in RunIds
      BY DEF AdmissionTypeOK
    <3>3. ASSUME NEW a \in answered'
          PROVE  runs'[a.run].key = a.request.key /\ runs'[a.run].goal = a.request.goal
      <4>1. CASE a \in answered
        BY <1>1, <2>2, <3>2, <4>1
      <4>2. CASE a = [request |-> Request(c), run |-> run]
        BY <2>2, <4>2
      <4> QED
        BY <3>1, <3>3, <4>1, <4>2
    <3> QED
      BY <3>3
  <2>9. ASSUME NEW d \in Client, client'[d].at \in Places \ {"key"}, Request(d)'.key # NoKey
        PROVE  /\ keyLock'[Request(d)'.key] = d
               /\ client'[d].at # "lookup" => receipt'[Request(d)'.key] = 0
    <3>1. d # c
      BY <2>4, <2>9, LocksAfterRelease DEF Away
    <3>2. /\ client'[d] = client[d] /\ Request(d)' = Request(d)
          /\ \A key \in Named : keyLock[key] = d => keyLock'[key] = d
      BY <2>4, <3>1, LocksAfterRelease
    <3>3. /\ Request(d).key \in Named /\ keyLock[Request(d).key] = d
          /\ client[d].at # "lookup" => receipt[Request(d).key] = 0
      BY <1>1, <1>2, <2>9, <3>2 DEF Away
    <3>4. Request(d).key # k
      BY <2>1, <2>9, <3>1, <3>2, <3>3
    <3> QED
      BY <2>3, <3>2, <3>3, <3>4
  <2> QED
    BY <1>1, <2>7, <2>8, <2>9
<1>14. ASSUME NEW c \in Client, RollBack(c) PROVE KeysFit'
  BY <1>1, <1>3, <1>4, <1>5, <1>14 DEF RollBack
<1>15. ASSUME NEW r \in RunIds, Proceed(r) PROVE KeysFit'
  <2>1. /\ UNCHANGED <<receipt, keyLock, client, answered>> /\ RunIds' = RunIds
        /\ \A s \in RunIds : runs'[s].key = runs[s].key /\ runs'[s].goal = runs[s].goal
    BY <1>15, RunsAfterProceed DEF Proceed
  <2>2. \A k \in Named : receipt[k] # 0 => receipt[k] \in RunIds
    BY RunsAreRows DEF AdmissionTypeOK
  <2>3. \A a \in answered : a.run \in RunIds
    BY DEF AdmissionTypeOK
  <2> QED
    BY <1>1, <2>1, <2>2, <2>3 DEF Request
<1> QED
  BY <1>6, <1>7, <1>8, <1>9, <1>11, <1>12, <1>13, <1>14, <1>15 DEF AdmissionNext

-----------------------------------------------------------------------------
(* The theorems. *)

LEMMA AdmissionStarts == AdmissionInit => AdmissionInv
<1> SUFFICES ASSUME AdmissionInit PROVE AdmissionInv
  OBVIOUS
<1>1. runs = <<>> /\ RunIds = {} /\ Len(runs) = 0
  BY EmptySeq DEF AdmissionInit, RunIds
<1>2. AdmissionTypeOK
  BY <1>1, EmptySeq, SubmissionsAreBounded DEF AdmissionInit, AdmissionTypeOK
<1>3. ClientFits /\ KeysFit
  BY <1>1 DEF AdmissionInit, ClientFits, KeysFit, Away, Places
<1>4. Cardinality({r \in Runnable : ~runs[r].waited}) = 0
  <2>1. {r \in Runnable : ~runs[r].waited} = {}
    BY <1>1 DEF Runnable
  <2> QED
    BY <2>1, FS_EmptySet
<1>5. AdmissionHolds /\ QueueFits
  BY <1>1, <1>4, QueueLimitIsPositive DEF AdmissionInit, AdmissionHolds, QueueFits, Away
<1> QED
  BY <1>2, <1>3, <1>5 DEF AdmissionInv

LEMMA AdmissionSteps == AdmissionInv /\ [AdmissionNext]_admissionVars => AdmissionInv'
  BY ClientStep, TypeStep, QueueStep, KeysStep DEF AdmissionInv

LEMMA AdmissionInvAlways == AdmissionSpec => []AdmissionInv
  BY AdmissionStarts, AdmissionSteps, PTL DEF AdmissionSpec

(* The types of the submission's rows, receipts and locks, whatever the clients do. *)
THEOREM AdmissionTypeCorrect == AdmissionSpec => []AdmissionTypeOK
<1>1. AdmissionInv => AdmissionTypeOK
  BY DEF AdmissionInv
<1> QED
  BY <1>1, AdmissionInvAlways, PTL

(* Racing submissions never overfill the tenant's queue: who counts keeps   *)
(* the admission lock until the row is committed.                           *)
THEOREM QueueIsNeverOverfilled == AdmissionSpec => []AdmissionHolds
<1>1. AdmissionInv => AdmissionHolds
  BY DEF AdmissionInv
<1> QED
  BY <1>1, AdmissionInvAlways, PTL

(* A key has one run and its callers are told that one, for they hold the   *)
(* key's lock from the lookup to the commit.                                *)
THEOREM KeysHaveOneRun == AdmissionSpec => []RetriesFindTheRun
<1>1. AdmissionInv => RetriesFindTheRun
  <2> SUFFICES ASSUME AdmissionInv, NEW k \in Named
               PROVE  /\ Cardinality({r \in RunIds : runs[r].key = k}) <= 1
                      /\ \A a \in answered : a.request.key = k =>
                           runs[a.run].key = k /\ runs[a.run].goal = a.request.goal
    BY DEF RetriesFindTheRun
  <2> DEFINE ofKey == {r \in RunIds : runs[r].key = k}
  <2>1. ofKey \subseteq {receipt[k]}
    BY NoKeyIsNotGiven DEF AdmissionInv, KeysFit, Named
  <2>2. IsFiniteSet({receipt[k]}) /\ Cardinality({receipt[k]}) = 1
    BY FS_Singleton
  <2>3. Cardinality(ofKey) <= 1
    <3> HIDE DEF ofKey
    <3> QED
      BY <2>1, <2>2, FS_Subset
  <2> QED
    BY <2>3 DEF AdmissionInv, KeysFit
<1> QED
  BY <1>1, AdmissionInvAlways, PTL

-----------------------------------------------------------------------------
(* Submissions are atomic: the transaction's last step is the abstract one, *)
(* and its earlier steps are none.                                          *)

LEMMA AskedOf ==
  ASSUME ClientFits, NEW c \in Client, client[c].at \in Places
  PROVE  /\ Asked \in [Client -> {Away} \cup Submission]
         /\ Asked[c] = Request(c) /\ Request(c) \in Submission /\ Asked[c] # Away
         /\ client[c] # Away
<1>1. client[c] # Away /\ client[c] \in [at : Places, request : Submission]
  BY DEF ClientFits, Away, Places
<1>2. \A q \in Submission : q # Away
  BY DEF Submission, Away
<1> QED
  BY <1>1, <1>2 DEF Asked, Request, ClientFits

LEMMA AskedAfterRelease ==
  ASSUME ClientFits, NEW c \in Client, Release(c)
  PROVE  Asked' = [Asked EXCEPT ![c] = Away]
<1>1. client' = [client EXCEPT ![c] = Away]
  BY DEF Release
<1> QED
  BY <1>1 DEF Asked, Request, ClientFits

LEMMA AskedAfterEnter ==
  ASSUME ClientFits, NEW c \in Client, client[c].at \in Places, NEW place \in Places,
         Enter(c, place)
  PROVE  Asked' = Asked
<1>1. client' = [client EXCEPT ![c].at = place] /\ place # "away"
  BY DEF Enter, Places
<1>2. client[c] # Away /\ client[c] \in [at : Places, request : Submission]
  BY AskedOf DEF ClientFits
<1>3. client'[c] # Away /\ Request(c)' = Request(c)
  BY <1>1, <1>2 DEF Request, Away, ClientFits
<1>4. \A d \in Client \ {c} : client'[d] = client[d]
  BY <1>1 DEF ClientFits
<1>5. \A d \in Client : (IF client[d] = Away THEN Away ELSE Request(d))'
                          = IF client[d] = Away THEN Away ELSE Request(d)
  BY <1>2, <1>3, <1>4 DEF Request, Away
<1> QED
  BY <1>5, Zenon DEF Asked

LEMMA EntriesOf ==
  ASSUME AdmissionTypeOK
  PROVE  /\ DOMAIN RunEntries = RunIds
         /\ \A r \in RunIds : /\ RunEntries[r].key = runs[r].key /\ RunEntries[r].goal = runs[r].goal
                              /\ RunEntries[r].counts = (r \in Unwaited)
         /\ Atomic!Counting = Unwaited
         /\ Cardinality(DOMAIN RunEntries) + 1 = Len(runs) + 1
<1>1. DOMAIN RunEntries = RunIds
  BY DEF RunEntries
<1>2. \A r \in RunIds : /\ RunEntries[r].key = runs[r].key /\ RunEntries[r].goal = runs[r].goal
                        /\ RunEntries[r].counts = (r \in Unwaited)
  BY DEF RunEntries, Unwaited, Runnable
<1>3. Atomic!Counting = Unwaited
  BY <1>1, <1>2 DEF Atomic!Counting, Unwaited, Runnable
<1>4. Cardinality(RunIds) = Len(runs)
  BY RunsAreRows, FS_Interval
<1> QED
  BY <1>1, <1>2, <1>3, <1>4

LEMMA StepIsAtomic ==
  AdmissionInv /\ [AdmissionNext]_admissionVars => [Atomic!Next]_(Atomic!queueVars)
<1> SUFFICES ASSUME AdmissionInv, [AdmissionNext]_admissionVars
             PROVE  Atomic!Next \/ UNCHANGED <<Asked, RunEntries, answered>>
  BY DEF Atomic!queueVars
<1> USE DEF AdmissionInv
<1>1. ASSUME runs' = runs PROVE RunEntries' = RunEntries
  BY <1>1 DEF RunEntries, RunIds
<1>2. ASSUME NEW c \in Client, client[c].at \in Places, Release(c), runs' = runs,
             answered' = answered
      PROVE  Atomic!Next
  <2>1. Atomic!Drop(c)
    BY <1>1, <1>2, AskedOf, AskedAfterRelease DEF Atomic!Drop
  <2> QED
    BY <2>1 DEF Atomic!Next
<1>3. CASE UNCHANGED admissionVars
  BY <1>1, <1>3 DEF admissionVars, Asked, Request
<1>4. ASSUME NEW c \in Client, NEW q \in Submission, Submit(c, q) PROVE Atomic!Next
  <2>1. client' = [client EXCEPT ![c] =
                     [at |-> IF q.key = NoKey THEN "admit" ELSE "key", request |-> q]]
    BY <1>4 DEF Submit
  <2>2. client'[c] # Away /\ Request(c)' = q
    BY <2>1 DEF Request, Away, ClientFits
  <2>3. \A d \in Client \ {c} : client'[d] = client[d]
    BY <2>1 DEF ClientFits
  <2>4. \A d \in Client : (IF client[d] = Away THEN Away ELSE Request(d))'
                            = [Asked EXCEPT ![c] = q][d]
    BY <2>2, <2>3 DEF Asked, Request
  <2>5. Asked' = [Asked EXCEPT ![c] = q]
    BY <2>4 DEF Asked
  <2>6. Asked[c] = Away /\ UNCHANGED <<RunEntries, answered>>
    BY <1>1, <1>4 DEF Submit, Asked
  <2>7. Asked'[c] = q
    BY <2>5 DEF Asked
  <2>8. Atomic!Ask(c)
    BY <2>5, <2>6, <2>7 DEF Atomic!Ask
  <2> QED
    BY <2>8 DEF Atomic!Next
<1>5. ASSUME NEW c \in Client, LockKey(c) PROVE UNCHANGED <<Asked, RunEntries, answered>>
  BY <1>1, <1>5, AskedAfterEnter DEF LockKey, Places
<1>6. ASSUME NEW c \in Client, LockAdmission(c) PROVE UNCHANGED <<Asked, RunEntries, answered>>
  BY <1>1, <1>6, AskedAfterEnter DEF LockAdmission, Places
<1>7. ASSUME NEW c \in Client, Lookup(c)
      PROVE  Atomic!Next \/ UNCHANGED <<Asked, RunEntries, answered>>
  <2> DEFINE known == receipt[Request(c).key]
  <2>1. client[c].at \in Places /\ runs' = runs /\ RunEntries' = RunEntries
    BY <1>1, <1>7 DEF Lookup, Places
  <2>2. CASE Enter(c, "admit") /\ answered' = answered
    BY <2>1, <2>2, AskedAfterEnter DEF Places
  <2>3. CASE Release(c) /\ answered' = answered
    BY <1>2, <2>1, <2>3
  <2>4. CASE known # 0 /\ runs[known].goal = Request(c).goal /\ Tell(c, known) /\ Release(c)
    <3>1. Request(c).key \in Named /\ Request(c).key # NoKey
      BY <1>7, <2>1, AskedOf, NoKeyIsNotGiven DEF Lookup, ClientFits, Submission, Named
    <3>2. known \in RunIds /\ runs[known].key = Request(c).key
      BY <2>4, <3>1, RunsAreRows DEF AdmissionTypeOK, KeysFit
    <3>3. known \in Atomic!Bearing(Asked[c].key) /\ RunEntries[known].goal = Asked[c].goal
      BY <2>1, <2>4, <3>1, <3>2, EntriesOf, AskedOf DEF Atomic!Bearing
    <3>4. Atomic!Answer(c, known)
      BY <2>1, <2>4, AskedOf, AskedAfterRelease DEF Atomic!Answer, Tell
    <3>5. Atomic!Find(c)
      BY <2>1, <3>3, <3>4, AskedOf DEF Atomic!Find
    <3> QED
      BY <3>5 DEF Atomic!Next
  <2> QED
    BY <1>7, <2>2, <2>3, <2>4 DEF Lookup, SameRequest
<1>8. ASSUME NEW c \in Client, Count(c)
      PROVE  Atomic!Next \/ UNCHANGED <<Asked, RunEntries, answered>>
  <2>1. client[c].at \in Places /\ runs' = runs /\ answered' = answered
    BY <1>8 DEF Count, Places
  <2>2. CASE Enter(c, "insert")
    BY <1>1, <2>1, <2>2, AskedAfterEnter DEF Places
  <2>3. CASE Release(c)
    BY <1>2, <2>1, <2>3
  <2> QED
    BY <1>8, <2>2, <2>3 DEF Count
<1>9. ASSUME NEW c \in Client, InsertRun(c) PROVE Atomic!Next
  <2> DEFINE run == Cardinality(DOMAIN RunEntries) + 1
             row == [key |-> Asked[c].key, goal |-> Asked[c].goal, counts |-> TRUE]
  <2>1. client[c].at = "insert" /\ client[c].at \in Places
    BY <1>9 DEF InsertRun, Places
  <2>2. /\ Asked[c] = Request(c) /\ Request(c) \in Submission /\ Asked[c] # Away
        /\ Asked' = [Asked EXCEPT ![c] = Away]
    BY <1>9, <2>1, AskedOf, AskedAfterRelease DEF InsertRun
  <2>3. Atomic!Bearing(Asked[c].key) = {}
    <3>1. \A r \in RunIds : runs[r].key # NoKey => receipt[runs[r].key] = r /\ r # 0
      BY RunsAreRows DEF KeysFit
    <3>2. Request(c).key # NoKey => receipt[Request(c).key] = 0
      BY <2>1 DEF KeysFit, Places
    <3> QED
      BY <2>2, <3>1, <3>2, EntriesOf DEF Atomic!Bearing
  <2>4. Cardinality(Atomic!Counting) < QueueLimit
    BY <2>1, EntriesOf DEF QueueFits
  <2>5. /\ run = Len(runs) + 1
        /\ RunIds' = RunIds \cup {run} /\ run \notin RunIds
        /\ \A r \in RunIds : runs'[r] = runs[r]
        /\ runs'[run].key = Request(c).key /\ runs'[run].goal = Request(c).goal
        /\ runs'[run].status = "pending" /\ ~runs'[run].waited
    BY <1>9, RunsAfterInsert, EntriesOf
  <2>6. RunEntries' = [r \in DOMAIN RunEntries \cup {run} |-> IF r = run THEN row ELSE RunEntries[r]]
    <3> HIDE DEF run
    <3>1. ASSUME NEW r \in RunIds
          PROVE  RunEntries[r] = [key |-> runs'[r].key, goal |-> runs'[r].goal,
                   counts |-> runs'[r].status \in {"pending", "running"} /\ ~runs'[r].waited]
      BY <2>5, <3>1 DEF RunEntries
    <3>2. row = [key |-> runs'[run].key, goal |-> runs'[run].goal,
                 counts |-> runs'[run].status \in {"pending", "running"} /\ ~runs'[run].waited]
      BY <2>2, <2>5
    <3>3. \A r \in RunIds' :
            (IF r = run THEN row ELSE RunEntries[r])
              = [key |-> runs'[r].key, goal |-> runs'[r].goal,
                 counts |-> runs'[r].status \in {"pending", "running"} /\ ~runs'[r].waited]
      BY <2>5, <3>1, <3>2
    <3>4. DOMAIN RunEntries = RunIds
      BY EntriesOf
    <3> HIDE DEF row
    <3> QED
      BY <2>5, <3>3, <3>4 DEF RunEntries
  <2>7. Atomic!Answer(c, run)
    BY <1>9, <2>2, <2>5 DEF InsertRun, Tell, Atomic!Answer
  <2>8. Atomic!Create(c)
    <3>1. \A S : Atomic!Cardinality(S) = Cardinality(S)
      BY DEF Atomic!Cardinality, Cardinality, Atomic!IsFiniteSet, IsFiniteSet
    <3>2. Atomic!Cardinality(DOMAIN RunEntries) = Cardinality(DOMAIN RunEntries)
          /\ Atomic!Cardinality(Atomic!Counting) = Cardinality(Atomic!Counting)
      BY <3>1
    <3>3. Atomic!Create(c) <=>
            /\ Asked[c] # Away
            /\ Atomic!Bearing(Asked[c].key) = {}
            /\ Cardinality(Atomic!Counting) < QueueLimit
            /\ RunEntries' = [r \in DOMAIN RunEntries \cup {run} |-> IF r = run THEN row ELSE RunEntries[r]]
            /\ Atomic!Answer(c, run)
      BY <3>2, Zenon DEF Atomic!Create
    <3> QED
      BY <2>2, <2>3, <2>4, <2>6, <2>7, <3>3
  <2> QED
    BY <2>8 DEF Atomic!Next
<1>10. ASSUME NEW c \in Client, RollBack(c) PROVE Atomic!Next
  <2>1. client[c].at \in Places /\ Release(c) /\ runs' = runs /\ answered' = answered
    BY <1>10 DEF RollBack, ClientFits
  <2> QED
    BY <1>2, <2>1
<1>11. ASSUME NEW r \in RunIds, Proceed(r)
       PROVE  Atomic!Next \/ UNCHANGED <<Asked, RunEntries, answered>>
  <2>1. UNCHANGED <<Asked, answered>>
    BY <1>11 DEF Proceed, Asked, Request
  <2>2. /\ RunIds' = RunIds
        /\ \A s \in RunIds : /\ runs'[s].key = runs[s].key /\ runs'[s].goal = runs[s].goal
                             /\ s # r => runs'[s] = runs[s]
        /\ runs[r].status \in {"pending", "running", "waiting"}
        /\ runs[r].status = "pending" => runs'[r].status = "running"
        /\ runs'[r].waited = (runs[r].waited \/ runs'[r].status = "waiting")
    BY <1>11, RunsAfterProceed
  <2> DEFINE stays == runs'[r].status \in {"pending", "running"} /\ ~runs'[r].waited
  <2>3. RunEntries' = [RunEntries EXCEPT ![r].counts = stays]
    <3>1. \A s \in RunIds :
            [key |-> runs'[s].key, goal |-> runs'[s].goal,
             counts |-> runs'[s].status \in {"pending", "running"} /\ ~runs'[s].waited]
              = [RunEntries EXCEPT ![r].counts = stays][s]
      BY <2>2 DEF RunEntries
    <3> QED
      BY <2>2, <3>1 DEF RunEntries
  <2>4. stays => RunEntries[r].counts
    BY <1>11, <2>2 DEF RunEntries, QueueFits
  <2>5. CASE ~stays /\ RunEntries[r].counts
    <3>1. Atomic!Leave(r)
      BY <2>1, <2>3, <2>5 DEF Atomic!Leave
    <3> QED
      BY <1>11, <3>1, EntriesOf DEF Atomic!Next
  <2>6. CASE stays = RunEntries[r].counts
    <3>1. \A s \in RunIds :
            [key |-> runs'[s].key, goal |-> runs'[s].goal,
             counts |-> runs'[s].status \in {"pending", "running"} /\ ~runs'[s].waited]
              = [key |-> runs[s].key, goal |-> runs[s].goal,
                 counts |-> runs[s].status \in {"pending", "running"} /\ ~runs[s].waited]
      BY <2>2, <2>6 DEF RunEntries
    <3>2. RunEntries' = RunEntries
      BY <2>2, <3>1 DEF RunEntries
    <3> QED
      BY <2>1, <3>2
  <2> QED
    BY <1>11, <2>4, <2>5, <2>6 DEF RunEntries
<1> QED
  BY <1>3, <1>4, <1>5, <1>6, <1>7, <1>8, <1>9, <1>10, <1>11 DEF AdmissionNext

(* Callers cannot tell the interleaved transactions from submissions made   *)
(* one at a time: who finds no receipt keeps the key until its run is there, *)
(* who counts keeps the queue from growing, and a rollback leaves nothing.  *)
THEOREM SubmissionsAreAtomic == AdmissionSpec => ImplementsSubmissionQueue
<1>1. AdmissionInit => Atomic!Init
  <2> SUFFICES ASSUME AdmissionInit PROVE Atomic!Init
    OBVIOUS
  <2>1. RunIds = {} /\ answered = {} /\ client = [c \in Client |-> Away]
    BY EmptySeq DEF AdmissionInit, RunIds
  <2>2. RunEntries = <<>>
    BY <2>1 DEF RunEntries
  <2> QED
    BY <2>1, <2>2 DEF Atomic!Init, Asked
<1> QED
  BY <1>1, StepIsAtomic, AdmissionInvAlways, PTL
     DEF AdmissionSpec, ImplementsSubmissionQueue, Atomic!Spec
=============================================================================
