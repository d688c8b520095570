--------------------------- MODULE ActionSlotProofs ---------------------------
(* Proofs about ActionSlot, for any number of approvers and action hashes,   *)
(* any order of grants and any number of crashes and changes of the grants.  *)
EXTENDS ActionSlotProps, FiniteSetTheorems, TLAPS

-----------------------------------------------------------------------------
(* What must hold besides the properties for a step to keep them.          *)

(* What a request to the endpoint remembers, before it has asked what to    *)
(* narrow to, after it, and while it drives the graph.                      *)
Asking == [at : {"guard", "resolve", "record", "resume"}, id : Nat, hash : Hash,
           decision : {"approved", "rejected"}]
Resolved == [at : {"withdraw", "void", "record", "resume"}, id : Nat, hash : Hash,
             decision : {"approved"}, to : 0..MaxGrant]
Driving ==
    [at : {"graph", "saved", "marked"}, id : Nat, hash : Hash,
     decision : {"rejected"}] \cup
    [at : {"graph", "saved", "marked"}, id : Nat, hash : Hash,
     decision : {"approved", "voided"}, to : 0..MaxGrant]
Carrying == [at : {"continue", "replay", "graph", "saved", "marked"}]

Visit == {Absent} \cup Asking \cup Resolved \cup Driving \cup Carrying

FitsVisitor(a, visit) ==
    /\ visit \in Visit
    /\ a = Replayer => visit \in {Absent} \cup Carrying
    /\ a \in Approver =>
         /\ visit \in {Absent} \cup Asking \cup Resolved \cup Driving
         /\ visit.at = "resolve" => visit.decision = "approved"
         /\ visit.at \in {"record", "resume"} /\ visit.decision = "approved" => visit \in Resolved

ActorsFit ==
    /\ actor \in [Actor -> Visit]
    /\ \A a \in Actor : FitsVisitor(a, actor[a])

(* Everyone past the door holds the guard. *)
GuardFits == \A a \in Actor : actor[a].at \notin {"away", "guard"} => guard = a

(* An id names one hash, and whoever was shown it was shown that hash.     *)
ShownFits ==
    /\ nextId \in Nat \ {0}
    /\ slot # NoAction => slot.id < nextId
    /\ \A h \in Approver : actor[h] # Absent =>
         /\ slot # NoAction
         /\ actor[h].id < nextId
         /\ slot.id = actor[h].id => slot.hash = actor[h].hash

(* The row says how it was decided; only an undecided one is replaced.     *)
DecisionFits ==
    /\ slot = NoAction => decided = {}
    /\ slot # NoAction =>
         decided = IF slot.status \in {"proposed", "withdrawn"} THEN {}
                   ELSE {[id |-> slot.id, shown |-> slot.hash,
                          decision |-> IF slot.status = "rejected" THEN "rejected"
                                                                  ELSE "approved"]}

(* What the guard's holder has established stays so until it uses it.      *)
Prepared(a) ==
    /\ actor[a].at \in {"saved", "marked"} =>
         /\ node = "action" /\ proposal # NoAction
         /\ slot # NoAction /\ slot.hash = proposal.hash
    /\ IsAt(a, "marked") => status = "waiting"
    /\ IsAt(a, "continue") => decided = {} /\ status = "running"
    /\ actor[a].at \in {"replay", "resume"} => decided # {}
    /\ actor[a] \in Resolved /\ actor[a].at \in {"record", "resume"} /\ actor[a].to < scope =>
         ~HasIntent

HolderFits == \A a \in Actor : Prepared(a)

(* A run that asks is not running, unless its decision is recorded.        *)
AskFits == node \in {"ask", "execute"} /\ decided = {} => status # "running" /\ node = "ask"

(* The checkpoint that asks, or goes on to execute, carries the run's row.  *)
Carried == HasIntent /\ slot # NoAction /\ slot.id = proposal.id /\ slot.hash = proposal.hash
AskNamesTheRow == node \in {"ask", "execute"} => Carried

SlotInv ==
    SlotTypeOK /\ ActorsFit /\ GuardFits /\ ShownFits /\ DecisionFits /\ HolderFits
    /\ AskFits /\ AskNamesTheRow /\ DecisionNamesItsAction

-----------------------------------------------------------------------------
(* Visitors: what they remember, and who has the guard.                    *)

Inside(a) == actor[a].at \notin {"away", "guard"}
Untouched(a) == \A b \in Actor \ {a} : actor'[b] = actor[b]

LEMMA OneVisitorMoves ==
  ASSUME ActorsFit, NEW a \in Actor, NEW visit, FitsVisitor(a, visit),
         actor' = [actor EXCEPT ![a] = visit]
  PROVE  ActorsFit' /\ actor'[a] = visit /\ Untouched(a)
<1>1. visit \in Visit
  BY DEF FitsVisitor
<1>2. actor' \in [Actor -> Visit] /\ actor'[a] = visit /\ Untouched(a)
  BY <1>1 DEF ActorsFit, Untouched
<1>3. \A b \in Actor : FitsVisitor(b, actor'[b])
  BY <1>2 DEF ActorsFit, Untouched
<1> QED
  BY <1>2, <1>3 DEF ActorsFit

LEMMA Gone ==
  ASSUME ActorsFit, GuardFits, NEW a \in Actor, Leave(a)
  PROVE  ActorsFit' /\ GuardFits' /\ actor'[a] = Absent /\ Untouched(a)
<1>1. FitsVisitor(a, Absent)
  BY DEF FitsVisitor, Absent, Visit
<1>2. ActorsFit' /\ actor'[a] = Absent /\ Untouched(a)
  BY <1>1, OneVisitorMoves DEF Leave
<1> QED
  BY <1>2 DEF Leave, GuardFits, Untouched, Absent

(* A request that has read the row keeps what it was shown. *)
LEMMA RequestMoved ==
  ASSUME ActorsFit, NEW h \in Approver, actor[h] # Absent, NEW place, Move(h, place),
         FitsVisitor(h, [actor[h] EXCEPT !.at = place])
  PROVE  /\ ActorsFit' /\ actor'[h] # Absent /\ actor'[h].at = place /\ Untouched(h)
         /\ actor'[h].id = actor[h].id /\ actor'[h].hash = actor[h].hash
         /\ actor'[h].decision = actor[h].decision
         /\ actor'[h] \in Resolved /\ actor[h] \in Resolved => actor'[h].to = actor[h].to
<1>1. h \in Actor
  BY DEF Actor
<1> DEFINE visit == [actor[h] EXCEPT !.at = place]
<1>2. actor' = [actor EXCEPT ![h] = visit]
  BY DEF Move
<1>3. actor[h] \in Asking \cup Resolved \cup Driving
  BY <1>1, ActorsDiffer DEF ActorsFit, FitsVisitor
<1>4. /\ visit.at = place /\ visit.id = actor[h].id /\ visit.hash = actor[h].hash
      /\ visit.decision = actor[h].decision
      /\ actor[h] \in Resolved => visit.to = actor[h].to
      /\ visit # Absent
  BY <1>3 DEF Asking, Resolved, Driving, Absent
<1>5. ActorsFit' /\ actor'[h] = visit /\ Untouched(h)
  <2> HIDE DEF visit
  <2> QED
    BY <1>1, <1>2, OneVisitorMoves DEF visit
<1> QED
  BY <1>4, <1>5

LEMMA WorkerMoved ==
  ASSUME ActorsFit, NEW place \in {"continue", "replay", "graph", "saved", "marked"},
         Move(Replayer, place)
  PROVE  ActorsFit' /\ actor'[Replayer] = [at |-> place] /\ Untouched(Replayer)
<1>1. Replayer \in Actor /\ Replayer \notin Approver
  BY ActorsDiffer DEF Actor
<1>2. [actor[Replayer] EXCEPT !.at = place] = [at |-> place]
  BY <1>1 DEF ActorsFit, FitsVisitor, Absent, Carrying
<1>3. FitsVisitor(Replayer, [at |-> place])
  BY <1>1 DEF FitsVisitor, Visit, Carrying
<1>4. actor' = [actor EXCEPT ![Replayer] = [at |-> place]]
  BY <1>2 DEF Move
<1> QED
  BY <1>1, <1>3, <1>4, OneVisitorMoves

(* Whoever drives the graph, the endpoint or the worker. *)
LEMMA DriverMoved ==
  ASSUME ActorsFit, NEW a \in Actor, actor[a].at \in {"graph", "saved"},
         NEW place \in {"graph", "saved", "marked"}, Move(a, place)
  PROVE  /\ ActorsFit' /\ actor'[a].at = place /\ Untouched(a)
         /\ actor'[a] \notin Resolved
         /\ a \in Approver => /\ actor'[a] # Absent /\ actor'[a].id = actor[a].id
                              /\ actor'[a].hash = actor[a].hash
<1>1. CASE a \in Approver
  <2>1. actor[a] \in Driving /\ a # Replayer
    BY <1>1, ActorsDiffer DEF ActorsFit, FitsVisitor, Absent, Asking, Resolved
  <2>2. [actor[a] EXCEPT !.at = place] \in Driving
    BY <2>1 DEF Driving
  <2>3. \A visit \in Driving : visit.at \in {"graph", "saved", "marked"}
    BY DEF Driving
  <2>4. FitsVisitor(a, [actor[a] EXCEPT !.at = place])
    BY <1>1, <2>1, <2>2, <2>3 DEF FitsVisitor, Visit
  <2>5. actor[a] # Absent
    BY DEF Absent
  <2>6. /\ ActorsFit' /\ actor'[a] # Absent /\ actor'[a].at = place /\ Untouched(a)
        /\ actor'[a].id = actor[a].id /\ actor'[a].hash = actor[a].hash
    BY <1>1, <2>4, <2>5, RequestMoved
  <2> QED
    BY <2>6 DEF Resolved
<1>2. CASE a = Replayer
  BY <1>2, WorkerMoved, ActorsDiffer DEF Resolved
<1> QED
  BY <1>1, <1>2 DEF Actor

(* The guard admits one.                                                   *)
LEMMA GuardKept ==
  ASSUME GuardFits, NEW a \in Actor, Untouched(a),
         \/ guard' = guard /\ guard = a
         \/ guard' = guard /\ ~Inside(a)'
         \/ guard = Vacant /\ guard' = a
  PROVE  GuardFits'
  BY ActorsDiffer DEF GuardFits, Untouched, Inside, Actor

(* What each step does to its visitor.                                     *)

VisitorsFit == ActorsFit /\ GuardFits

LEMMA AfterLook ==
  ASSUME SlotTypeOK, VisitorsFit, NEW h \in Approver,
         NEW decision \in {"approved", "rejected"}, Look(h, decision)
  PROVE  /\ VisitorsFit' /\ Untouched(h) /\ slot # NoAction
         /\ actor'[h] = [at |-> "guard", id |-> slot.id, hash |-> slot.hash,
                         decision |-> decision]
         /\ slot.id \in Nat /\ slot.hash \in Hash
<1> DEFINE visit == [at |-> "guard", id |-> slot.id, hash |-> slot.hash,
                     decision |-> decision]
<1>1. slot.id \in Nat /\ slot.hash \in Hash /\ slot # NoAction
  BY DEF Look, SlotTypeOK
<1>2. visit \in Asking /\ visit.at = "guard"
  BY <1>1 DEF Asking
<1>3. FitsVisitor(h, visit) /\ h \in Actor
  BY <1>2, ActorsDiffer DEF FitsVisitor, Visit, Actor
<1>4. actor' = [actor EXCEPT ![h] = visit] /\ guard' = guard
  BY DEF Look
<1>5. ActorsFit' /\ actor'[h] = visit /\ Untouched(h)
  <2> HIDE DEF visit
  <2> QED
    BY <1>3, <1>4, OneVisitorMoves DEF VisitorsFit
<1>6. GuardFits'
  BY <1>3, <1>4, <1>5, GuardKept DEF VisitorsFit, Inside
<1> QED
  BY <1>1, <1>5, <1>6 DEF VisitorsFit

LEMMA AfterEnterGuard ==
  ASSUME VisitorsFit, NEW h \in Approver, EnterGuard(h)
  PROVE  /\ VisitorsFit' /\ Untouched(h) /\ actor[h] # Absent
         /\ actor'[h] \notin Resolved
         /\ actor'[h].at \in {"away", "resolve", "record"}
         /\ actor'[h] = Absent \/ /\ actor'[h].id = actor[h].id /\ actor'[h].hash = actor[h].hash
<1>1. h \in Actor /\ actor[h] # Absent
  BY DEF Actor, EnterGuard, IsAt, Absent
<1>2. CASE guard # Vacant /\ Leave(h)
  BY <1>1, <1>2, Gone DEF VisitorsFit, Absent, Resolved
<1>3. CASE guard = Vacant /\ guard' = h
           /\ Move(h, IF actor[h].decision = "approved" THEN "resolve" ELSE "record")
  <2> DEFINE place == IF actor[h].decision = "approved" THEN "resolve" ELSE "record"
             visit == [actor[h] EXCEPT !.at = place]
  <2>1. actor[h] \in Asking
    BY <1>1, ActorsDiffer DEF EnterGuard, IsAt, VisitorsFit, ActorsFit, FitsVisitor,
                              Resolved, Driving, Absent
  <2>2. visit \in Asking /\ visit.at = place /\ visit.decision = actor[h].decision
        /\ \A v \in Resolved : v # visit
    BY <2>1 DEF Asking, Resolved
  <2>3. FitsVisitor(h, visit)
    BY <2>2, ActorsDiffer DEF FitsVisitor, Visit
  <2>4. /\ ActorsFit' /\ actor'[h] # Absent /\ actor'[h].at = place /\ Untouched(h)
        /\ actor'[h].id = actor[h].id /\ actor'[h].hash = actor[h].hash
    BY <1>1, <1>3, <2>3, RequestMoved DEF VisitorsFit
  <2>5. actor' = [actor EXCEPT ![h] = visit]
    BY <1>3 DEF Move
  <2>6. actor'[h] \notin Resolved
    BY <1>1, <2>2, <2>5 DEF VisitorsFit, ActorsFit
  <2>7. GuardFits'
    BY <1>1, <1>3, <2>4, GuardKept DEF VisitorsFit
  <2> QED
    BY <1>1, <2>4, <2>6, <2>7 DEF VisitorsFit
<1> QED
  BY <1>2, <1>3 DEF EnterGuard

LEMMA AfterResolve ==
  ASSUME SlotTypeOK, VisitorsFit, NEW h \in Approver, Resolve(h)
  PROVE  /\ VisitorsFit' /\ Untouched(h) /\ actor[h] # Absent /\ actor'[h] # Absent
         /\ actor'[h] \in Resolved /\ actor'[h].to = Effective
         /\ actor'[h].at = (IF Effective < scope /\ HasIntent THEN "withdraw" ELSE "record")
         /\ actor'[h].id = actor[h].id /\ actor'[h].hash = actor[h].hash
<1>1. h \in Actor /\ actor[h] # Absent
  BY DEF Actor, Resolve, IsAt, Absent
<1>2. actor[h] \in Asking /\ actor[h].decision = "approved"
  BY <1>1, ActorsDiffer DEF Resolve, IsAt, VisitorsFit, ActorsFit, FitsVisitor,
                            Resolved, Driving, Absent
<1> DEFINE visit == [id |-> actor[h].id, hash |-> actor[h].hash,
                     decision |-> actor[h].decision, to |-> Effective,
                     at |-> IF Effective < scope /\ HasIntent THEN "withdraw" ELSE "record"]
<1>3. Effective \in 0..MaxGrant
  BY DEF Effective, SlotTypeOK
<1>4. visit \in Resolved
  BY <1>2, <1>3 DEF Asking, Resolved
<1>5. visit # Absent /\ visit.at # "resolve"
  BY DEF Absent
<1>6. FitsVisitor(h, visit)
  BY <1>4, <1>5, ActorsDiffer DEF FitsVisitor, Visit
<1>7. actor' = [actor EXCEPT ![h] = visit] /\ guard' = guard /\ guard = h
  BY <1>1 DEF Resolve, VisitorsFit, GuardFits, IsAt
<1>8. ActorsFit' /\ actor'[h] = visit /\ Untouched(h)
  <2> HIDE DEF visit
  <2> QED
    BY <1>1, <1>6, <1>7, OneVisitorMoves DEF VisitorsFit
<1>9. GuardFits'
  BY <1>1, <1>7, <1>8, GuardKept DEF VisitorsFit
<1> QED
  BY <1>1, <1>4, <1>5, <1>8, <1>9 DEF VisitorsFit

(* The steps of a request that has the guard and moves on.                 *)
LEMMA AfterWithdraw ==
  ASSUME VisitorsFit, NEW h \in Approver, Withdraw(h)
  PROVE  /\ VisitorsFit' /\ Untouched(h) /\ actor[h] # Absent /\ actor'[h].at = "void"
         /\ actor'[h].id = actor[h].id /\ actor'[h].hash = actor[h].hash /\ guard = h
<1>1. h \in Actor /\ actor[h] # Absent /\ actor[h] \in Resolved
  BY ActorsDiffer DEF Actor, Withdraw, IsAt, VisitorsFit, ActorsFit, FitsVisitor,
                      Asking, Driving, Absent
<1> DEFINE visit == [actor[h] EXCEPT !.at = "void"]
<1>2. visit \in Resolved /\ visit.at = "void"
  BY <1>1 DEF Resolved
<1>3. FitsVisitor(h, visit)
  BY <1>2, ActorsDiffer DEF FitsVisitor, Visit
<1>4. Move(h, "void") /\ guard' = guard /\ guard = h
  BY <1>1 DEF Withdraw, VisitorsFit, GuardFits, IsAt
<1>5. /\ ActorsFit' /\ actor'[h].at = "void" /\ Untouched(h)
      /\ actor'[h].id = actor[h].id /\ actor'[h].hash = actor[h].hash
  BY <1>1, <1>3, <1>4, RequestMoved DEF VisitorsFit
<1> QED
  BY <1>1, <1>4, <1>5, GuardKept DEF VisitorsFit

LEMMA AfterVoid ==
  ASSUME VisitorsFit, NEW h \in Approver, Void(h)
  PROVE  /\ VisitorsFit' /\ Untouched(h) /\ actor[h] # Absent /\ actor'[h].at = "graph"
         /\ actor'[h].id = actor[h].id /\ actor'[h].hash = actor[h].hash /\ guard = h
         /\ actor[h].to \in 0..MaxGrant
<1>1. h \in Actor /\ actor[h] # Absent /\ actor[h] \in Resolved
  BY ActorsDiffer DEF Actor, Void, IsAt, VisitorsFit, ActorsFit, FitsVisitor,
                      Asking, Driving, Absent
<1> DEFINE visit == [actor[h] EXCEPT !.at = "graph", !.decision = "voided"]
<1>2. /\ visit \in Driving /\ visit.at = "graph"
      /\ visit.id = actor[h].id /\ visit.hash = actor[h].hash
      /\ actor[h].to \in 0..MaxGrant
  BY <1>1 DEF Resolved, Driving
<1>3. FitsVisitor(h, visit)
  BY <1>2, ActorsDiffer DEF FitsVisitor, Visit
<1>4. actor' = [actor EXCEPT ![h] = visit] /\ guard' = guard /\ guard = h
  BY <1>1 DEF Void, VisitorsFit, GuardFits, IsAt
<1>5. ActorsFit' /\ actor'[h] = visit /\ Untouched(h)
  <2> HIDE DEF visit
  <2> QED
    BY <1>1, <1>3, <1>4, OneVisitorMoves DEF VisitorsFit
<1> QED
  BY <1>1, <1>2, <1>4, <1>5, GuardKept DEF VisitorsFit

LEMMA AfterRecord ==
  ASSUME VisitorsFit, NEW h \in Approver, Record(h)
  PROVE  /\ VisitorsFit' /\ Untouched(h) /\ actor[h] # Absent /\ actor'[h].at = "resume"
         /\ actor'[h].id = actor[h].id /\ actor'[h].hash = actor[h].hash /\ guard = h
         /\ actor[h].decision \in {"approved", "rejected"}
         /\ actor'[h] \in Resolved => actor[h] \in Resolved /\ actor'[h].to = actor[h].to
         /\ actor[h].id \in Nat /\ actor[h].hash \in Hash
<1>1. h \in Actor /\ actor[h] # Absent /\ actor[h] \in Asking \cup Resolved
      /\ (actor[h].decision = "approved" => actor[h] \in Resolved)
  BY ActorsDiffer DEF Actor, Record, IsAt, VisitorsFit, ActorsFit, FitsVisitor,
                      Driving, Absent
<1> DEFINE visit == [actor[h] EXCEPT !.at = "resume"]
<1>2. actor[h] \in Asking => visit \in Asking
  BY DEF Asking
<1>3. actor[h] \in Resolved => visit \in Resolved
  BY DEF Resolved
<1>4. /\ visit.at = "resume" /\ visit.decision = actor[h].decision
      /\ actor[h].decision \in {"approved", "rejected"}
      /\ actor[h].id \in Nat /\ actor[h].hash \in Hash
      /\ DOMAIN visit = DOMAIN actor[h]
  BY <1>1 DEF Asking, Resolved
<1>5. FitsVisitor(h, visit)
  BY <1>1, <1>2, <1>3, <1>4, ActorsDiffer DEF FitsVisitor, Visit
<1>6. Move(h, "resume") /\ guard' = guard /\ guard = h
  BY <1>1 DEF Record, VisitorsFit, GuardFits, IsAt
<1>7. /\ ActorsFit' /\ actor'[h].at = "resume" /\ Untouched(h)
      /\ actor'[h].id = actor[h].id /\ actor'[h].hash = actor[h].hash
      /\ actor'[h] \in Resolved /\ actor[h] \in Resolved => actor'[h].to = actor[h].to
  BY <1>1, <1>5, <1>6, RequestMoved DEF VisitorsFit
<1>8. actor'[h] = visit
  BY <1>1, <1>6 DEF Move, VisitorsFit, ActorsFit
<1>9. visit \in Resolved => actor[h] \in Resolved
  <2> SUFFICES ASSUME visit \in Resolved PROVE actor[h] \in Resolved
    OBVIOUS
  <2>1. visit.decision = "approved"
    BY DEF Resolved
  <2> QED
    BY <1>1, <1>4, <2>1
<1> QED
  BY <1>1, <1>4, <1>6, <1>7, <1>8, <1>9, GuardKept DEF VisitorsFit

LEMMA AfterResume ==
  ASSUME VisitorsFit, NEW h \in Approver, Resume(h)
  PROVE  /\ VisitorsFit' /\ Untouched(h) /\ actor[h] # Absent /\ actor'[h].at = "graph"
         /\ actor'[h].id = actor[h].id /\ actor'[h].hash = actor[h].hash /\ guard = h
         /\ actor[h].decision = "approved" => actor[h] \in Resolved /\ actor[h].to \in 0..MaxGrant
<1>1. h \in Actor /\ actor[h] # Absent /\ actor[h] \in Asking \cup Resolved
      /\ (actor[h].decision = "approved" => actor[h] \in Resolved)
  BY ActorsDiffer DEF Actor, Resume, IsAt, VisitorsFit, ActorsFit, FitsVisitor,
                      Driving, Absent
<1> DEFINE visit == [actor[h] EXCEPT !.at = "graph"]
<1>2. visit \in Driving /\ visit.at = "graph"
  <2>1. CASE actor[h] \in Resolved
    BY <2>1 DEF Resolved, Driving
  <2>2. CASE actor[h] \in Asking /\ actor[h].decision # "approved"
    BY <2>2 DEF Asking, Driving
  <2> QED
    BY <1>1, <2>1, <2>2
<1>3. FitsVisitor(h, visit)
  BY <1>2, ActorsDiffer DEF FitsVisitor, Visit
<1>4. Move(h, "graph") /\ guard' = guard /\ guard = h
  BY <1>1 DEF Resume, VisitorsFit, GuardFits, IsAt
<1>5. /\ ActorsFit' /\ actor'[h].at = "graph" /\ Untouched(h)
      /\ actor'[h].id = actor[h].id /\ actor'[h].hash = actor[h].hash
  BY <1>1, <1>3, <1>4, RequestMoved DEF VisitorsFit
<1>6. actor[h] \in Resolved => actor[h].to \in 0..MaxGrant
  BY DEF Resolved
<1> QED
  BY <1>1, <1>4, <1>5, <1>6, GuardKept DEF VisitorsFit

(* The worker on its way into the graph.                                   *)
LEMMA AfterWorkerMoves ==
  ASSUME VisitorsFit, Claim \/ Continue \/ Replay
  PROVE  /\ VisitorsFit' /\ Untouched(Replayer) /\ Replayer \in Actor
         /\ actor'[Replayer] = [at |-> IF ~Claim THEN "graph"
                                       ELSE IF decided = {} THEN "continue" ELSE "replay"]
         /\ ~Claim => guard = Replayer
<1> DEFINE place == IF ~Claim THEN "graph" ELSE IF decided = {} THEN "continue" ELSE "replay"
<1>1. Replayer \in Actor /\ Replayer # Vacant
  BY ActorsDiffer DEF Actor
<1>2. Claim => IsAt(Replayer, "away")
  BY DEF Claim
<1>3. Move(Replayer, place)
  <2>1. CASE Claim
    BY <2>1 DEF Claim
  <2>2. CASE ~Claim
    BY <2>2 DEF Continue, Replay
  <2> QED
    BY <2>1, <2>2
<1>4. ActorsFit' /\ actor'[Replayer] = [at |-> place] /\ Untouched(Replayer)
  BY <1>3, WorkerMoved DEF VisitorsFit
<1>5. \/ guard' = guard /\ guard = Replayer
      \/ guard = Vacant /\ guard' = Replayer
  BY <1>1 DEF Claim, Continue, Replay, VisitorsFit, GuardFits, IsAt
<1>6. ~Claim => guard = Replayer
  BY <1>1 DEF Continue, Replay, VisitorsFit, GuardFits, IsAt
<1> QED
  BY <1>1, <1>4, <1>5, <1>6, GuardKept DEF VisitorsFit

(* Whoever drives the graph stays in it, moves on in it, or leaves it.     *)
Leaving(a) ==
    SaveRefused(a) \/ Ask(a) \/ ExecuteRefused(a) \/ Finalize(a) \/ NodeFails(a) \/ Vanish(a)

LEMMA AfterLeaving ==
  ASSUME VisitorsFit, NEW a \in Actor, Leaving(a)
  PROVE  VisitorsFit' /\ Untouched(a) /\ actor'[a] = Absent
<1>1. Leave(a)
  BY DEF Leaving, SaveRefused, Ask, ExecuteRefused, Finalize, NodeFails, Vanish
<1> QED
  BY <1>1, Gone DEF VisitorsFit

LEMMA AfterDriving ==
  ASSUME VisitorsFit, NEW a \in Actor, Save(a) \/ MarkWaiting(a)
  PROVE  /\ VisitorsFit' /\ Untouched(a) /\ guard = a
         /\ actor'[a].at = (IF Save(a) THEN "saved" ELSE "marked")
         /\ actor'[a] \notin Resolved
         /\ a \in Approver => /\ actor'[a] # Absent /\ actor'[a].id = actor[a].id
                              /\ actor'[a].hash = actor[a].hash /\ actor[a] # Absent
<1> DEFINE place == IF Save(a) THEN "saved" ELSE "marked"
<1>1. /\ actor[a].at \in {"graph", "saved"} /\ Move(a, place) /\ guard' = guard
      /\ guard = a
  BY DEF Save, MarkWaiting, IsAt, VisitorsFit, GuardFits
<1>2. /\ ActorsFit' /\ actor'[a].at = place /\ Untouched(a) /\ actor'[a] \notin Resolved
      /\ a \in Approver => /\ actor'[a] # Absent /\ actor'[a].id = actor[a].id
                           /\ actor'[a].hash = actor[a].hash
  BY <1>1, DriverMoved DEF VisitorsFit
<1>3. actor[a] # Absent
  BY <1>1 DEF Absent
<1> QED
  BY <1>1, <1>2, <1>3, GuardKept DEF VisitorsFit

LEMMA VisitorStep == SlotTypeOK /\ VisitorsFit /\ [SlotNext]_slotVars => VisitorsFit'
<1> SUFFICES ASSUME SlotTypeOK, VisitorsFit, [SlotNext]_slotVars PROVE VisitorsFit'
  OBVIOUS
<1>1. CASE UNCHANGED <<actor, guard>>
  BY <1>1 DEF VisitorsFit, ActorsFit, GuardFits
<1>2. ASSUME NEW h \in Approver, RecordNothing(h) PROVE VisitorsFit'
  BY <1>2, Gone DEF RecordNothing, VisitorsFit, Actor
<1>3. CASE ReplayRefused
  BY <1>3, Gone DEF ReplayRefused, VisitorsFit, Actor
<1>4. ASSUME NEW a \in Actor, GraphStep(a) PROVE VisitorsFit'
  BY <1>1, <1>4, AfterLeaving, AfterDriving DEF GraphStep, Leaving, Derive, Execute
<1>5. CASE Regrant
  BY <1>1, <1>5 DEF Regrant
<1> QED
  BY <1>1, <1>2, <1>3, <1>4, <1>5, AfterLook, AfterEnterGuard, AfterResolve, AfterWithdraw,
     AfterVoid, AfterRecord, AfterResume, AfterWorkerMoves DEF SlotNext, slotVars

-----------------------------------------------------------------------------
(* Types. *)

LEMMA FailingType ==
  ASSUME SlotTypeOK, NEW a, Failing(a)
  PROVE  status' \in {"running", "waiting", "ended", "failed"}
  BY DEF SlotTypeOK, Failing

LEMMA NarrowType ==
  ASSUME SlotTypeOK, NEW to \in 0..MaxGrant, Narrow(to)
  PROVE  /\ scope' \in 0..MaxGrant /\ proposal' = NoAction
         /\ node' \in {"derive", "action", "ask", "execute", "finalize"}
  BY DEF SlotTypeOK, Narrow

LEMMA ApplyType ==
  ASSUME SlotTypeOK, NEW decision, Apply(decision)
  PROVE  /\ scope' \in 0..MaxGrant /\ UNCHANGED proposal
         /\ node' \in {"derive", "action", "ask", "execute", "finalize"}
  BY DEF SlotTypeOK, Apply

LEMMA LeaveType ==
  ASSUME SlotTypeOK, NEW a, Leave(a)
  PROVE  guard' \in Actor \cup {Vacant}
  BY DEF SlotTypeOK, Leave

(* The intent that the graph executes is one, and so is the row it matches. *)
LEMMA ExecuteIsOfARow ==
  ASSUME SlotTypeOK, ShownFits, DecisionNamesItsAction, NEW a \in Actor, Execute(a)
  PROVE  /\ proposal \in [id : 1..nextId, hash : Hash] /\ slot # NoAction
         /\ slot = [id |-> proposal.id, hash |-> proposal.hash, status |-> "approved"]
         /\ slot \in [id : 1..nextId, hash : Hash, status : RowStatus]
<1>1. HasIntent
  BY DEF Execute, DecisionNamesItsAction
<1>2. proposal \in [id : 1..nextId, hash : Hash]
  BY <1>1 DEF HasIntent, SlotTypeOK
<1>3. slot = [id |-> proposal.id, hash |-> proposal.hash, status |-> "approved"]
  BY DEF Execute
<1>4. slot \in [id : 1..nextId, hash : Hash, status : RowStatus]
  BY <1>2, <1>3 DEF RowStatus
<1>5. slot \in [id : Nat, hash : Hash, status : RowStatus]
  BY <1>2, <1>3 DEF ShownFits, RowStatus
<1> QED
  BY <1>2, <1>3, <1>4, <1>5, NoActionIsNoRecord

LEMMA SlotTypeStep ==
  SlotTypeOK /\ VisitorsFit /\ ShownFits /\ HolderFits /\ DecisionNamesItsAction
    /\ [SlotNext]_slotVars => SlotTypeOK'
<1> SUFFICES ASSUME SlotTypeOK, VisitorsFit, ShownFits, HolderFits, DecisionNamesItsAction,
                    [SlotNext]_slotVars
             PROVE  SlotTypeOK'
  OBVIOUS
<1> USE GrantsAreCounted
<1>1. CASE UNCHANGED slotVars
  BY <1>1 DEF slotVars, SlotTypeOK
<1>2. CASE Regrant
  BY <1>2 DEF Regrant, Mishap, SlotTypeOK
<1>3. ASSUME NEW h \in Approver,
             EnterGuard(h) \/ Resolve(h) \/ Withdraw(h) \/ RecordNothing(h)
      PROVE  SlotTypeOK'
  <2>1. h \in Actor
    BY DEF Actor
  <2>2. Withdraw(h) => slot \in [id : 1..nextId, hash : Hash, status : RowStatus]
    BY AfterWithdraw DEF ShownFits, SlotTypeOK, RowStatus
  <2>3. slot \in [id : 1..nextId, hash : Hash, status : RowStatus] =>
          [slot EXCEPT !.status = "withdrawn"] \in [id : 1..nextId, hash : Hash,
                                                    status : RowStatus]
    BY DEF RowStatus
  <2>4. Withdraw(h) => slot' \in [id : 1..nextId, hash : Hash, status : RowStatus]
    BY <2>2, <2>3 DEF Withdraw
  <2>5. /\ UNCHANGED <<held, scope, node, proposal, nextId, decided, status, mishaps>>
        /\ Withdraw(h) \/ UNCHANGED slot
        /\ guard' \in Actor \cup {Vacant}
    BY <1>3, <2>1, LeaveType DEF EnterGuard, Resolve, Withdraw, RecordNothing, SlotTypeOK
  <2> QED
    BY <2>4, <2>5 DEF SlotTypeOK, RowStatus
<1>4. ASSUME NEW h \in Approver, NEW decision \in {"approved", "rejected"}, Look(h, decision)
      PROVE  SlotTypeOK'
  BY <1>4 DEF Look, SlotTypeOK
<1>5. ASSUME NEW h \in Approver, Void(h) PROVE SlotTypeOK'
  BY <1>5, AfterVoid DEF Void, SlotTypeOK
<1>6. ASSUME NEW h \in Approver, Record(h) PROVE SlotTypeOK'
  <2>1. /\ actor[h].decision \in {"approved", "rejected"} /\ actor[h].hash \in Hash
        /\ slot # NoAction /\ slot.id = actor[h].id
    BY <1>6, AfterRecord DEF Record
  <2>2. slot \in [id : 1..nextId, hash : Hash, status : RowStatus]
    BY <2>1 DEF SlotTypeOK, RowStatus
  <2>3. slot' \in [id : 1..nextId, hash : Hash, status : RowStatus]
    BY <1>6, <2>1, <2>2 DEF Record, RowStatus
  <2>4. decided' \subseteq [id : 1..nextId, shown : Hash, decision : {"approved", "rejected"}]
    BY <1>6, <2>1, <2>2 DEF Record, SlotTypeOK
  <2> QED
    BY <1>6, <2>3, <2>4 DEF Record, SlotTypeOK, RowStatus
<1>7. ASSUME NEW h \in Approver, Resume(h) PROVE SlotTypeOK'
  <2>1. /\ scope' \in 0..MaxGrant /\ proposal' \in {NoAction, proposal}
        /\ node' \in {"derive", "action", "ask", "execute", "finalize"}
    BY <1>7, AfterResume, NarrowType, ApplyType DEF Resume
  <2> QED
    BY <1>7, <2>1 DEF Resume, SlotTypeOK
<1>8. CASE Claim
  BY <1>8 DEF Claim, SlotTypeOK, Actor
<1>9. CASE Continue \/ Replay
  <2>1. Effective \in 0..MaxGrant
    BY DEF Effective, SlotTypeOK
  <2>2. /\ scope' \in 0..MaxGrant /\ proposal' \in {NoAction, proposal}
        /\ node' \in {"derive", "action", "ask", "execute", "finalize"}
    BY <1>9, <2>1, NarrowType, ApplyType DEF Continue, Replay, SlotTypeOK
  <2> QED
    BY <1>9, <2>2 DEF Continue, Replay, SlotTypeOK
<1>10. CASE ReplayRefused
  BY <1>10, LeaveType DEF ReplayRefused, SlotTypeOK
<1>11. ASSUME NEW a \in Actor, Derive(a) PROVE SlotTypeOK'
  BY <1>11 DEF Derive, SlotTypeOK
<1>12. ASSUME NEW a \in Actor, Save(a) PROVE SlotTypeOK'
  <2>1. CASE UNCHANGED <<slot, nextId>>
    BY <1>12, <2>1 DEF Save, SlotTypeOK
  <2>2. CASE /\ slot' = [id |-> nextId, hash |-> proposal.hash, status |-> "proposed"]
             /\ nextId' = nextId + 1
    <3>1. nextId \in 1..(nextId + 1) /\ \A i \in 1..nextId : i \in 1..(nextId + 1)
      BY DEF ShownFits
    <3>2. proposal.hash \in Hash
      BY <1>12 DEF Save, SlotTypeOK
    <3>3. slot' \in [id : 1..(nextId + 1), hash : Hash, status : RowStatus]
      BY <2>2, <3>1, <3>2 DEF RowStatus
    <3>4. proposal' \in {NoAction} \cup [hash : Hash] \cup [id : 1..(nextId + 1), hash : Hash]
      BY <1>12, <3>1 DEF Save, SlotTypeOK
    <3>5. decided' \subseteq [id : 1..(nextId + 1), shown : Hash,
                              decision : {"approved", "rejected"}]
      BY <1>12, <3>1 DEF Save, SlotTypeOK
    <3> QED
      BY <1>12, <2>2, <3>3, <3>4, <3>5 DEF Save, SlotTypeOK, RowStatus
  <2> QED
    BY <1>12, <2>1, <2>2 DEF Save
<1>13. ASSUME NEW a \in Actor, MarkWaiting(a) PROVE SlotTypeOK'
  BY <1>13 DEF MarkWaiting, SlotTypeOK
<1>14. ASSUME NEW a \in Actor, SaveRefused(a) \/ ExecuteRefused(a) PROVE SlotTypeOK'
  BY <1>14, FailingType, LeaveType DEF SaveRefused, ExecuteRefused, SlotTypeOK
<1>15. ASSUME NEW a \in Actor, Execute(a) PROVE SlotTypeOK'
  <2>1. slot \in [id : 1..nextId, hash : Hash, status : RowStatus]
    BY <1>15, ExecuteIsOfARow
  <2>2. slot' \in [id : 1..nextId, hash : Hash, status : RowStatus]
    BY <1>15, <2>1 DEF Execute, RowStatus
  <2> QED
    BY <1>15, <2>2 DEF Execute, SlotTypeOK, RowStatus
<1>16. ASSUME NEW a \in Actor, Finalize(a) PROVE SlotTypeOK'
  BY <1>16, LeaveType DEF Finalize, SlotTypeOK
<1>17. ASSUME NEW a \in Actor, NodeFails(a) \/ Vanish(a) PROVE SlotTypeOK'
  BY <1>17, LeaveType, FailingType DEF NodeFails, Vanish, Mishap, SlotTypeOK
<1>18. ASSUME NEW a \in Actor, Ask(a) PROVE SlotTypeOK'
  <2>1. slot # NoAction /\ proposal # NoAction
    BY <1>18 DEF Ask, IsAt, HolderFits, Prepared
  <2>2. proposal' \in [id : 1..nextId, hash : Hash]
    BY <1>18, <2>1 DEF Ask, SlotTypeOK
  <2> QED
    BY <1>18, <2>2, LeaveType DEF Ask, SlotTypeOK
<1> QED
  BY <1>1, <1>2, <1>3, <1>4, <1>5, <1>6, <1>7, <1>8, <1>9, <1>10, <1>11, <1>12, <1>13, <1>14,
     <1>15, <1>16, <1>17, <1>18 DEF SlotNext, GraphStep

-----------------------------------------------------------------------------
(* The row and its decision. *)

(* A request whose row is another one, or the row that it was shown.       *)
Shown(h) ==
    actor[h] # Absent =>
      /\ slot # NoAction
      /\ actor[h].id < nextId
      /\ slot.id = actor[h].id => slot.hash = actor[h].hash

LEMMA ShownStep ==
  SlotTypeOK /\ VisitorsFit /\ ShownFits /\ HolderFits /\ DecisionNamesItsAction
    /\ [SlotNext]_slotVars => ShownFits'
<1> SUFFICES ASSUME SlotTypeOK, VisitorsFit, ShownFits, HolderFits, DecisionNamesItsAction,
                    [SlotNext]_slotVars
             PROVE  ShownFits'
  OBVIOUS
<1> USE DEF Untouched
<1>1. /\ nextId \in Nat \ {0} /\ (slot # NoAction => slot.id < nextId)
      /\ \A h \in Approver : Shown(h)
  BY DEF ShownFits, Shown
<1>2. ASSUME nextId' \in Nat \ {0}, slot' # NoAction => slot'.id < nextId',
             \A h \in Approver : Shown(h)'
      PROVE  ShownFits'
  BY <1>2 DEF ShownFits, Shown
<1>3. ASSUME UNCHANGED <<slot, nextId>>, NEW a \in Actor, Untouched(a),
             a \in Approver => Shown(a)'
      PROVE  ShownFits'
  BY <1>1, <1>2, <1>3 DEF Shown, Actor
<1>4. ASSUME UNCHANGED <<slot, nextId>>, NEW a \in Actor, Untouched(a), actor'[a] = Absent
      PROVE  ShownFits'
  BY <1>3, <1>4 DEF Shown
<1>5. ASSUME UNCHANGED nextId, slot # NoAction, slot' # NoAction,
             slot'.id = slot.id, slot'.hash = slot.hash,
             NEW a \in Actor, Untouched(a),
             a \in Approver => /\ actor[a] # Absent /\ actor'[a].id = actor[a].id
                               /\ actor'[a].hash = actor[a].hash
      PROVE  ShownFits'
  BY <1>1, <1>2, <1>5 DEF Shown, Actor
<1>6. \A h \in Approver : h \in Actor
  BY DEF Actor
<1>7. ASSUME slot # NoAction, NEW status2 \in RowStatus
      PROVE  LET row == [slot EXCEPT !.status = status2]
             IN  row # NoAction /\ row.id = slot.id /\ row.hash = slot.hash
  <2>1. slot \in [id : 1..nextId, hash : Hash, status : RowStatus]
    BY <1>7 DEF SlotTypeOK, RowStatus
  <2>2. [slot EXCEPT !.status = status2] \in [id : Nat, hash : Hash, status : RowStatus]
    BY <1>1, <2>1 DEF RowStatus
  <2> QED
    BY <2>1, <2>2, NoActionIsNoRecord
<1>8. CASE UNCHANGED <<slot, nextId, actor>>
  BY <1>1, <1>2, <1>8 DEF Shown
<1>9. ASSUME NEW h \in Approver, NEW decision \in {"approved", "rejected"}, Look(h, decision)
      PROVE  ShownFits'
  <2>1. UNCHANGED <<slot, nextId>>
    BY <1>9 DEF Look
  <2>2. Shown(h)'
    BY <1>1, <1>9, <2>1, AfterLook DEF Shown
  <2> QED
    BY <1>3, <1>6, <1>9, <2>1, <2>2, AfterLook
<1>10. ASSUME NEW h \in Approver, EnterGuard(h) \/ Resolve(h) \/ Void(h) \/ Resume(h)
       PROVE  ShownFits'
  <2>1. UNCHANGED <<slot, nextId>>
    BY <1>10 DEF EnterGuard, Resolve, Void, Resume
  <2>2. /\ Untouched(h) /\ actor[h] # Absent
        /\ \/ actor'[h] = Absent
           \/ actor'[h].id = actor[h].id /\ actor'[h].hash = actor[h].hash
    BY <1>10, AfterEnterGuard, AfterResolve, AfterVoid, AfterResume
  <2>3. Shown(h)'
    BY <1>1, <2>1, <2>2 DEF Shown
  <2> QED
    BY <1>3, <1>6, <2>1, <2>2, <2>3
<1>11. ASSUME NEW h \in Approver, Withdraw(h) PROVE ShownFits'
  <2>1. slot # NoAction
    BY <1>1, <1>11, AfterWithdraw DEF Shown
  <2>2. nextId' = nextId /\ slot' \in {slot, [slot EXCEPT !.status = "withdrawn"]}
    BY <1>11 DEF Withdraw
  <2>3. slot' # NoAction /\ slot'.id = slot.id /\ slot'.hash = slot.hash
    BY <1>7, <2>1, <2>2 DEF RowStatus
  <2> QED
    BY <1>5, <1>6, <1>11, <2>1, <2>2, <2>3, AfterWithdraw
<1>12. ASSUME NEW h \in Approver, Record(h) PROVE ShownFits'
  <2>1. slot # NoAction /\ nextId' = nextId /\ slot' = [slot EXCEPT !.status = actor[h].decision]
    BY <1>12 DEF Record
  <2>2. actor[h].decision \in RowStatus
    BY <1>12, AfterRecord DEF RowStatus
  <2>3. slot' # NoAction /\ slot'.id = slot.id /\ slot'.hash = slot.hash
    BY <1>7, <2>1, <2>2
  <2> QED
    BY <1>5, <1>6, <1>12, <2>1, <2>3, AfterRecord
<1>13. ASSUME NEW h \in Approver, RecordNothing(h) PROVE ShownFits'
  BY <1>4, <1>6, <1>13, Gone DEF RecordNothing, VisitorsFit
<1>14. CASE Claim \/ Continue \/ Replay
  <2>1. UNCHANGED <<slot, nextId>>
    BY <1>14 DEF Claim, Continue, Replay
  <2> QED
    BY <1>3, <1>14, <2>1, AfterWorkerMoves, ActorsDiffer
<1>15. CASE ReplayRefused
  BY <1>4, <1>15, Gone DEF ReplayRefused, VisitorsFit, Actor
<1>16. ASSUME NEW a \in Actor, Save(a) PROVE ShownFits'
  <2>1. CASE UNCHANGED <<slot, nextId>>
    <3>1. a \in Approver => Shown(a)'
      BY <1>1, <1>16, <2>1, AfterDriving DEF Shown
    <3> QED
      BY <1>3, <1>16, <2>1, <3>1, AfterDriving
  <2>2. CASE /\ slot' = [id |-> nextId, hash |-> proposal.hash, status |-> "proposed"]
             /\ nextId' = nextId + 1
    <3>1. proposal.hash \in Hash
      BY <1>16 DEF Save, SlotTypeOK
    <3>2. slot' \in [id : Nat, hash : Hash, status : RowStatus] /\ slot'.id = nextId
      BY <1>1, <2>2, <3>1 DEF RowStatus
    <3>3. slot' # NoAction
      BY <3>2, NoActionIsNoRecord
    <3>4. ASSUME NEW h \in Approver, actor'[h] # Absent
          PROVE  actor'[h].id < nextId
      BY <1>1, <1>16, <3>4, AfterDriving DEF Shown, Actor
    <3>5. \A h \in Approver : actor'[h] # Absent => actor'[h].id \in Int
      <4> SUFFICES ASSUME NEW h \in Approver, actor'[h] # Absent PROVE actor'[h].id \in Int
        OBVIOUS
      <4>1. FitsVisitor(h, actor'[h])
        BY <1>6, <1>16, AfterDriving DEF VisitorsFit, ActorsFit
      <4> QED
        BY <4>1 DEF FitsVisitor, Asking, Resolved, Driving
    <3> QED
      BY <1>1, <1>2, <2>2, <3>2, <3>3, <3>4, <3>5 DEF Shown
  <2> QED
    BY <1>16, <2>1, <2>2 DEF Save
<1>17. ASSUME NEW a \in Actor, MarkWaiting(a) PROVE ShownFits'
  <2>1. UNCHANGED <<slot, nextId>>
    BY <1>17 DEF MarkWaiting
  <2>2. a \in Approver => Shown(a)'
    BY <1>1, <1>17, <2>1, AfterDriving DEF Shown
  <2> QED
    BY <1>3, <1>17, <2>1, <2>2, AfterDriving
<1>18. ASSUME NEW a \in Actor, Execute(a) PROVE ShownFits'
  <2>1. slot # NoAction /\ slot' = [slot EXCEPT !.status = "executed"]
        /\ UNCHANGED <<nextId, actor>>
    BY <1>18, ExecuteIsOfARow DEF Execute
  <2>2. slot' # NoAction /\ slot'.id = slot.id /\ slot'.hash = slot.hash
    BY <1>7, <2>1 DEF RowStatus
  <2> QED
    BY <1>1, <1>2, <2>1, <2>2 DEF Shown
<1>19. ASSUME NEW a \in Actor, Leaving(a) PROVE ShownFits'
  <2>1. UNCHANGED <<slot, nextId>>
    BY <1>19 DEF Leaving, SaveRefused, Ask, ExecuteRefused, Finalize, NodeFails, Vanish
  <2> QED
    BY <1>4, <1>19, <2>1, AfterLeaving
<1>20. ASSUME NEW a \in Actor, GraphStep(a) PROVE ShownFits'
  BY <1>8, <1>16, <1>17, <1>18, <1>19, <1>20 DEF GraphStep, Leaving, Derive
<1>21. CASE Regrant
  BY <1>8, <1>21 DEF Regrant
<1> QED
  BY <1>8, <1>9, <1>10, <1>11, <1>12, <1>13, <1>14, <1>15, <1>20, <1>21 DEF SlotNext, slotVars

LEMMA DecisionStep ==
  SlotTypeOK /\ VisitorsFit /\ ShownFits /\ DecisionFits /\ DecisionNamesItsAction
    /\ [SlotNext]_slotVars => DecisionFits'
<1> SUFFICES ASSUME SlotTypeOK, VisitorsFit, ShownFits, DecisionFits, DecisionNamesItsAction,
                    [SlotNext]_slotVars
             PROVE  DecisionFits'
  OBVIOUS
<1>1. CASE UNCHANGED <<slot, decided>>
  BY <1>1 DEF DecisionFits
<1>2. slot # NoAction => slot \in [id : 1..nextId, hash : Hash, status : RowStatus]
  BY DEF SlotTypeOK, RowStatus
<1>3. ASSUME NEW h \in Approver, Withdraw(h) PROVE DecisionFits'
  <2>1. CASE slot.status # "proposed"
    BY <1>1, <1>3, <2>1 DEF Withdraw
  <2>2. CASE slot.status = "proposed"
    <3>1. slot # NoAction
      BY <1>3, AfterWithdraw DEF ShownFits
    <3>2. decided = {} /\ decided' = decided /\ slot' = [slot EXCEPT !.status = "withdrawn"]
      BY <1>3, <2>2, <3>1 DEF Withdraw, DecisionFits
    <3>3. slot'.status = "withdrawn"
      BY <1>2, <3>1, <3>2
    <3> QED
      BY <3>2, <3>3 DEF DecisionFits
  <2> QED
    BY <2>1, <2>2
<1>4. ASSUME NEW h \in Approver, Record(h) PROVE DecisionFits'
  <2>1. /\ slot # NoAction /\ slot.id = actor[h].id /\ actor[h] # Absent
        /\ actor[h].decision \in {"approved", "rejected"}
        /\ slot' = [slot EXCEPT !.status = actor[h].decision]
    BY <1>4, AfterRecord DEF Record
  <2>2. slot.hash = actor[h].hash
    BY <2>1 DEF ShownFits
  <2>3. decided = {}
    <3>1. \A d \in decided : d.id # slot.id
      BY <1>4, <2>1 DEF Record
    <3>2. CASE slot.status \in {"proposed", "withdrawn"}
      BY <2>1, <3>2 DEF DecisionFits
    <3>3. CASE slot.status \notin {"proposed", "withdrawn"}
      <4>1. PICK word : decided = {[id |-> slot.id, shown |-> slot.hash, decision |-> word]}
        BY <2>1, <3>3 DEF DecisionFits
      <4> QED
        BY <3>1, <4>1
    <3> QED
      BY <3>2, <3>3
  <2>4. decided' = {[id |-> slot.id, shown |-> slot.hash, decision |-> actor[h].decision]}
    BY <1>4, <2>1, <2>2, <2>3 DEF Record
  <2>5. slot'.id = slot.id /\ slot'.hash = slot.hash /\ slot'.status = actor[h].decision
    BY <1>2, <2>1
  <2>6. slot' # NoAction
    <3>1. slot' \in [id : Nat, hash : Hash, status : RowStatus]
      BY <1>2, <2>1 DEF RowStatus, ShownFits
    <3> QED
      BY <3>1, NoActionIsNoRecord
  <2>7. CASE actor[h].decision = "approved"
    BY <2>4, <2>5, <2>6, <2>7 DEF DecisionFits
  <2>8. CASE actor[h].decision = "rejected"
    BY <2>4, <2>5, <2>6, <2>8 DEF DecisionFits
  <2> QED
    BY <2>1, <2>7, <2>8
<1>5. ASSUME NEW a \in Actor, Save(a) PROVE DecisionFits'
  <2>1. CASE UNCHANGED slot
    BY <1>1, <1>5, <2>1 DEF Save
  <2>2. CASE /\ ~Taken
             /\ slot' = [id |-> nextId, hash |-> proposal.hash, status |-> "proposed"]
    <3>1. decided = {} /\ decided' = decided
      BY <1>5, <2>2 DEF Taken, DecisionFits, Save
    <3> QED
      BY <2>2, <3>1 DEF DecisionFits
  <2> QED
    BY <1>5, <2>1, <2>2 DEF Save
<1>6. ASSUME NEW a \in Actor, Execute(a) PROVE DecisionFits'
  <2>1. /\ slot # NoAction /\ slot' = [slot EXCEPT !.status = "executed"]
        /\ slot.status = "approved" /\ decided' = decided
    BY <1>6, ExecuteIsOfARow DEF Execute
  <2>2. slot'.id = slot.id /\ slot'.hash = slot.hash /\ slot'.status = "executed"
    BY <1>2, <2>1
  <2>3. decided = {[id |-> slot.id, shown |-> slot.hash, decision |-> "approved"]}
    BY <2>1 DEF DecisionFits
  <2>4. slot' # NoAction
    <3>1. slot' \in [id : Nat, hash : Hash, status : RowStatus]
      BY <1>2, <2>1 DEF RowStatus, ShownFits
    <3> QED
      BY <3>1, NoActionIsNoRecord
  <2> QED
    BY <2>1, <2>2, <2>3, <2>4 DEF DecisionFits
<1>7. ASSUME NEW a \in Actor, GraphStep(a) PROVE DecisionFits'
  BY <1>1, <1>5, <1>6, <1>7
     DEF GraphStep, Derive, SaveRefused, MarkWaiting, Ask, ExecuteRefused, Finalize, NodeFails,
         Vanish
<1>8. ASSUME NEW h \in Approver,
             \/ \E decision \in {"approved", "rejected"} : Look(h, decision)
             \/ EnterGuard(h) \/ Resolve(h) \/ Void(h) \/ RecordNothing(h) \/ Resume(h)
      PROVE  DecisionFits'
  BY <1>1, <1>8 DEF Look, EnterGuard, Resolve, Void, RecordNothing, Resume
<1>9. CASE Regrant \/ Claim \/ Continue \/ Replay \/ ReplayRefused
  BY <1>1, <1>9 DEF Regrant, Claim, Continue, Replay, ReplayRefused
<1>10. CASE UNCHANGED slotVars
  BY <1>1, <1>10 DEF slotVars
<1> QED
  BY <1>3, <1>4, <1>7, <1>8, <1>9, <1>10 DEF SlotNext

-----------------------------------------------------------------------------
(* What the holder of the guard has established. *)

(* Only the holder of the guard is inside: the others are not prepared.    *)
LEMMA OthersAreOutside ==
  ASSUME GuardFits, NEW a \in Actor, Inside(a)
  PROVE  \A b \in Actor \ {a} : ~Inside(b)
  BY DEF GuardFits, Inside

LEMMA OutsideIsPrepared ==
  ASSUME NEW a \in Actor, ~Inside(a)
  PROVE  Prepared(a)
  BY DEF Inside, Prepared, IsAt, Resolved

LEMMA OnlyTheHolderMatters ==
  ASSUME VisitorsFit, NEW a \in Actor, Inside(a), Untouched(a), Prepared(a)'
  PROVE  HolderFits'
<1>1. \A b \in Actor \ {a} : ~Inside(b)'
  BY OthersAreOutside DEF VisitorsFit, Untouched, Inside
<1> QED
  BY <1>1 DEF HolderFits, Inside, Prepared, IsAt, Resolved

LEMMA HolderStep ==
  SlotTypeOK /\ VisitorsFit /\ ShownFits /\ HolderFits /\ DecisionNamesItsAction
    /\ [SlotNext]_slotVars => HolderFits'
<1> SUFFICES ASSUME SlotTypeOK, VisitorsFit, ShownFits, HolderFits, DecisionNamesItsAction,
                    [SlotNext]_slotVars
             PROVE  HolderFits'
  OBVIOUS
<1>1. CASE UNCHANGED <<scope, node, proposal, slot, decided, status, actor>>
  BY <1>1 DEF HolderFits, Prepared, IsAt, HasIntent
<1>2. ASSUME NEW a \in Actor, UNCHANGED <<scope, node, proposal, slot, decided, status>>,
             Untouched(a), Prepared(a)'
      PROVE  HolderFits'
  BY <1>2 DEF HolderFits, Prepared, IsAt, HasIntent, Untouched
<1>3. \A h \in Approver : h \in Actor
  BY DEF Actor
<1>4. ASSUME NEW h \in Approver, NEW decision \in {"approved", "rejected"}, Look(h, decision)
      PROVE  HolderFits'
  <2>1. Prepared(h)'
    BY <1>4, AfterLook DEF Prepared, IsAt, Resolved
  <2> QED
    BY <1>2, <1>3, <1>4, <2>1, AfterLook DEF Look
<1>5. ASSUME NEW h \in Approver, EnterGuard(h) PROVE HolderFits'
  <2>1. Prepared(h)'
    BY <1>5, AfterEnterGuard DEF Prepared, IsAt
  <2> QED
    BY <1>2, <1>3, <1>5, <2>1, AfterEnterGuard DEF EnterGuard
<1>6. ASSUME NEW h \in Approver, Resolve(h) PROVE HolderFits'
  <2>1. UNCHANGED <<scope, node, proposal, slot, decided, status>>
    BY <1>6 DEF Resolve
  <2>2. Prepared(h)'
    BY <1>6, <2>1, AfterResolve DEF Prepared, IsAt, HasIntent
  <2> QED
    BY <1>2, <1>3, <1>6, <2>1, <2>2, AfterResolve
<1>7. ASSUME NEW h \in Approver, Withdraw(h) \/ Void(h) PROVE HolderFits'
  <2>1. Inside(h) /\ Untouched(h) /\ actor'[h].at \in {"void", "graph"}
    BY <1>7, AfterWithdraw, AfterVoid DEF Withdraw, Void, IsAt, Inside
  <2> QED
    BY <1>3, <2>1, OnlyTheHolderMatters DEF Prepared, IsAt
<1>8. ASSUME NEW h \in Approver, Record(h) PROVE HolderFits'
  <2>1. Inside(h) /\ Untouched(h) /\ actor'[h].at = "resume" /\ actor[h].at = "record"
    BY <1>8, AfterRecord DEF Record, IsAt, Inside
  <2>2. decided' # {} /\ UNCHANGED <<scope, proposal>>
    BY <1>8 DEF Record
  <2>3. actor'[h] \in Resolved /\ actor'[h].to < scope => ~HasIntent
    BY <1>3, <1>8, <2>1, AfterRecord DEF HolderFits, Prepared
  <2>4. Prepared(h)'
    BY <2>1, <2>2, <2>3 DEF Prepared, IsAt, HasIntent
  <2> QED
    BY <1>3, <2>1, <2>4, OnlyTheHolderMatters
<1>9. ASSUME NEW a \in Actor, Leave(a), Inside(a) PROVE HolderFits'
  <2>1. Untouched(a) /\ actor'[a] = Absent
    BY <1>9, Gone DEF VisitorsFit
  <2>2. Prepared(a)'
    BY <2>1 DEF Prepared, IsAt, Absent, Resolved
  <2> QED
    BY <1>9, <2>1, <2>2, OnlyTheHolderMatters
<1>10. ASSUME NEW h \in Approver, RecordNothing(h) PROVE HolderFits'
  BY <1>3, <1>9, <1>10 DEF RecordNothing, IsAt, Inside
<1>11. ASSUME NEW h \in Approver, Resume(h) PROVE HolderFits'
  <2>1. Inside(h) /\ Untouched(h) /\ actor'[h].at = "graph"
    BY <1>11, AfterResume DEF Resume, IsAt, Inside
  <2> QED
    BY <1>3, <2>1, OnlyTheHolderMatters DEF Prepared, IsAt
<1>12. CASE Claim
  <2>1. UNCHANGED <<scope, node, proposal, slot, decided, status>>
    BY <1>12 DEF Claim
  <2>2. Prepared(Replayer)'
    BY <1>12, <2>1, AfterWorkerMoves DEF Claim, Prepared, IsAt, Resolved
  <2> QED
    BY <1>2, <1>12, <2>1, <2>2, AfterWorkerMoves
<1>13. CASE Continue \/ Replay
  <2>1. ~Claim /\ Inside(Replayer)
    BY <1>13 DEF Continue, Replay, Claim, IsAt, Inside
  <2>2. Replayer \in Actor /\ Untouched(Replayer) /\ actor'[Replayer] = [at |-> "graph"]
    BY <1>13, <2>1, AfterWorkerMoves
  <2>3. Prepared(Replayer)'
    BY <2>2 DEF Prepared, IsAt, Resolved
  <2> QED
    BY <2>1, <2>2, <2>3, OnlyTheHolderMatters
<1>14. CASE ReplayRefused
  BY <1>9, <1>14 DEF ReplayRefused, IsAt, Inside, Actor
<1>15. ASSUME NEW a \in Actor, Derive(a) \/ Execute(a) PROVE HolderFits'
  <2>1. actor' = actor /\ actor[a].at = "graph"
    BY <1>15 DEF Derive, Execute, IsAt
  <2>2. Prepared(a)' /\ Untouched(a) /\ Inside(a)
    BY <2>1 DEF Prepared, IsAt, Resolved, Untouched, Inside
  <2> QED
    BY <2>2, OnlyTheHolderMatters
<1>16. ASSUME NEW a \in Actor, Save(a) PROVE HolderFits'
  <2>1. /\ Inside(a) /\ Untouched(a) /\ actor'[a].at = "saved" /\ actor'[a] \notin Resolved
        /\ node' = "action" /\ proposal' # NoAction /\ proposal' = proposal
    BY <1>16, AfterDriving DEF Save, IsAt, Inside
  <2>2. slot' # NoAction /\ slot'.hash = proposal.hash
    <3>1. CASE SameAction /\ UNCHANGED slot
      BY <3>1 DEF SameAction
    <3>2. CASE slot' = [id |-> nextId, hash |-> proposal.hash, status |-> "proposed"]
      <4>1. proposal.hash \in Hash
        BY <2>1 DEF SlotTypeOK
      <4>2. slot' \in [id : Nat, hash : Hash, status : RowStatus]
        BY <3>2, <4>1 DEF ShownFits, RowStatus
      <4> QED
        BY <3>2, <4>2, NoActionIsNoRecord
    <3> QED
      BY <1>16, <3>1, <3>2 DEF Save
  <2>3. Prepared(a)'
    BY <2>1, <2>2 DEF Prepared, IsAt
  <2> QED
    BY <2>1, <2>3, OnlyTheHolderMatters
<1>17. ASSUME NEW a \in Actor, MarkWaiting(a) PROVE HolderFits'
  <2>1. ~Save(a)
    BY <1>17 DEF MarkWaiting, Save, IsAt
  <2>2. /\ Inside(a) /\ Untouched(a) /\ actor'[a].at = "marked" /\ actor'[a] \notin Resolved
        /\ UNCHANGED <<node, proposal, slot>> /\ status' = "waiting" /\ actor[a].at = "saved"
    BY <1>17, <2>1, AfterDriving DEF MarkWaiting, IsAt, Inside
  <2>3. Prepared(a)'
    BY <2>2 DEF Prepared, IsAt, HolderFits
  <2> QED
    BY <2>2, <2>3, OnlyTheHolderMatters
<1>18. ASSUME NEW a \in Actor, Leaving(a) PROVE HolderFits'
  <2>1. CASE Inside(a)
    BY <1>9, <1>18, <2>1
       DEF Leaving, SaveRefused, Ask, ExecuteRefused, Finalize, NodeFails, Vanish
  <2>2. CASE ~Inside(a)
    <3>1. UNCHANGED <<scope, node, proposal, slot, decided, status>>
      BY <1>18, <2>2
         DEF Leaving, SaveRefused, Ask, ExecuteRefused, Finalize, NodeFails, Vanish, IsAt, Inside
    <3>2. Untouched(a) /\ actor'[a] = Absent
      BY <1>18, AfterLeaving
    <3>3. Prepared(a)'
      BY <3>2 DEF Prepared, IsAt, Absent, Resolved
    <3> QED
      BY <1>2, <3>1, <3>2, <3>3
  <2> QED
    BY <2>1, <2>2
<1>19. ASSUME NEW a \in Actor, GraphStep(a) PROVE HolderFits'
  BY <1>15, <1>16, <1>17, <1>18, <1>19 DEF GraphStep, Leaving
<1>20. CASE Regrant
  BY <1>1, <1>20 DEF Regrant
<1>21. CASE UNCHANGED slotVars
  BY <1>1, <1>21 DEF slotVars
<1> QED
  BY <1>4, <1>5, <1>6, <1>7, <1>8, <1>10, <1>11, <1>12, <1>13, <1>14, <1>19, <1>20, <1>21
     DEF SlotNext

-----------------------------------------------------------------------------
(* What a run asks about. *)

LEMMA AskStep ==
  SlotInv /\ [SlotNext]_slotVars => AskFits'
<1> SUFFICES ASSUME SlotInv, [SlotNext]_slotVars PROVE AskFits'
  OBVIOUS
<1> USE DEF SlotInv
<1>1. CASE UNCHANGED <<node, decided, status>>
  BY <1>1 DEF AskFits
<1>2. CASE node' \notin {"ask", "execute"}
  BY <1>2 DEF AskFits
<1>3. CASE decided' # {}
  BY <1>3 DEF AskFits
<1>4. CASE UNCHANGED <<node, decided>> /\ status' # "running"
  BY <1>4 DEF AskFits
<1>5. ASSUME NEW h \in Approver,
             \/ \E decision \in {"approved", "rejected"} : Look(h, decision)
             \/ EnterGuard(h) \/ Resolve(h) \/ Withdraw(h) \/ RecordNothing(h)
      PROVE  AskFits'
  BY <1>1, <1>5 DEF Look, EnterGuard, Resolve, Withdraw, RecordNothing
<1>6. ASSUME NEW h \in Approver, Void(h) PROVE AskFits'
  BY <1>2, <1>6 DEF Void
<1>7. ASSUME NEW h \in Approver, Record(h) PROVE AskFits'
  BY <1>3, <1>7 DEF Record
<1>8. ASSUME NEW h \in Approver, Resume(h) PROVE AskFits'
  BY <1>3, <1>8 DEF Resume, HolderFits, Prepared, IsAt, Actor
<1>9. CASE Regrant \/ Claim
  BY <1>1, <1>9 DEF Regrant, Claim
<1>10. CASE Continue
  <2>1. node \notin {"ask", "execute"}
    BY <1>10 DEF Continue, HolderFits, Prepared, IsAt, Actor, AskFits
  <2>2. node' \in {node, "derive"}
    BY <1>10 DEF Continue, Narrow
  <2> QED
    BY <1>2, <2>1, <2>2
<1>11. CASE Replay
  BY <1>3, <1>11 DEF Replay, HolderFits, Prepared, IsAt, Actor
<1>12. CASE ReplayRefused
  BY <1>4, <1>12 DEF ReplayRefused
<1>13. ASSUME NEW a, Failing(a), UNCHANGED <<node, decided>> PROVE AskFits'
  BY <1>1, <1>4, <1>13 DEF Failing
<1>14. ASSUME NEW a \in Actor, GraphStep(a) PROVE AskFits'
  <2>1. CASE Derive(a) \/ Execute(a)
    BY <1>2, <2>1 DEF Derive, Execute
  <2>2. CASE Save(a) \/ Vanish(a)
    BY <1>1, <2>2 DEF Save, Vanish
  <2>3. CASE SaveRefused(a) \/ ExecuteRefused(a) \/ NodeFails(a)
    BY <1>13, <2>3 DEF SaveRefused, ExecuteRefused, NodeFails
  <2>4. CASE MarkWaiting(a) \/ Finalize(a)
    BY <1>4, <2>4 DEF MarkWaiting, Finalize
  <2>5. CASE Ask(a)
    BY <2>5 DEF Ask, HolderFits, Prepared, IsAt, AskFits
  <2> QED
    BY <1>14, <2>1, <2>2, <2>3, <2>4, <2>5 DEF GraphStep
<1>15. CASE UNCHANGED slotVars
  BY <1>1, <1>15 DEF slotVars
<1> QED
  BY <1>5, <1>6, <1>7, <1>8, <1>9, <1>10, <1>11, <1>12, <1>14, <1>15 DEF SlotNext

LEMMA AskNamesTheRowStep ==
  SlotInv /\ [SlotNext]_slotVars => AskNamesTheRow'
<1> SUFFICES ASSUME SlotInv, [SlotNext]_slotVars PROVE AskNamesTheRow'
  OBVIOUS
<1> USE DEF SlotInv
<1>1. CASE UNCHANGED <<node, proposal, slot>>
  BY <1>1 DEF AskNamesTheRow, Carried, HasIntent
<1>2. CASE node' \notin {"ask", "execute"}
  BY <1>2 DEF AskNamesTheRow
<1>3. ASSUME slot # NoAction, NEW word \in RowStatus, slot' = [slot EXCEPT !.status = word],
             UNCHANGED <<node, proposal>>
      PROVE  AskNamesTheRow'
  <2>1. slot \in [id : 1..nextId, hash : Hash, status : RowStatus]
    BY <1>3 DEF SlotTypeOK
  <2>2. slot' \in [id : Nat, hash : Hash, status : RowStatus]
        /\ slot'.id = slot.id /\ slot'.hash = slot.hash
    BY <1>3, <2>1 DEF ShownFits
  <2> QED
    BY <1>3, <2>2, NoActionIsNoRecord DEF AskNamesTheRow, Carried, HasIntent
<1>4. ASSUME NEW decision, Apply(decision), UNCHANGED slot PROVE AskNamesTheRow'
  <2>1. node' \in {"ask", "execute"} => node \in {"ask", "execute"}
    BY <1>4 DEF Apply
  <2> QED
    BY <1>4, <2>1 DEF Apply, AskNamesTheRow, Carried, HasIntent
<1>5. ASSUME NEW to, Narrow(to), node \notin {"ask", "execute"} PROVE AskNamesTheRow'
  BY <1>2, <1>5 DEF Narrow
<1>6. ~HasIntent => node \notin {"ask", "execute"}
  BY DEF AskNamesTheRow, Carried
<1>7. ASSUME NEW h \in Approver,
             \/ \E decision \in {"approved", "rejected"} : Look(h, decision)
             \/ EnterGuard(h) \/ Resolve(h) \/ RecordNothing(h)
      PROVE  AskNamesTheRow'
  BY <1>1, <1>7 DEF Look, EnterGuard, Resolve, RecordNothing
<1>8. ASSUME NEW h \in Approver, Withdraw(h) PROVE AskNamesTheRow'
  <2>1. slot # NoAction
    BY <1>8, AfterWithdraw DEF ShownFits, VisitorsFit
  <2> QED
    BY <1>1, <1>3, <1>8, <2>1 DEF Withdraw, RowStatus
<1>9. ASSUME NEW h \in Approver, Void(h) PROVE AskNamesTheRow'
  BY <1>2, <1>9 DEF Void
<1>10. ASSUME NEW h \in Approver, Record(h) PROVE AskNamesTheRow'
  <2>1. actor[h].decision \in RowStatus
    BY <1>10, AfterRecord DEF VisitorsFit, RowStatus
  <2> QED
    BY <1>3, <1>10, <2>1 DEF Record
<1>11. ASSUME NEW h \in Approver, Resume(h) PROVE AskNamesTheRow'
  <2>1. CASE actor[h].decision = "approved" /\ actor[h].to < scope
    <3>1. actor[h] \in Resolved
      BY <1>11, <2>1, AfterResume DEF VisitorsFit
    <3>2. ~HasIntent
      BY <1>11, <2>1, <3>1 DEF Resume, HolderFits, Prepared, IsAt, Actor
    <3> QED
      BY <1>5, <1>6, <1>11, <2>1, <3>2 DEF Resume
  <2>2. CASE ~(actor[h].decision = "approved" /\ actor[h].to < scope)
    BY <1>4, <1>11, <2>2 DEF Resume
  <2> QED
    BY <2>1, <2>2
<1>12. CASE Regrant \/ Claim \/ ReplayRefused
  BY <1>1, <1>12 DEF Regrant, Claim, ReplayRefused
<1>13. CASE Continue
  <2>1. node \notin {"ask", "execute"}
    BY <1>13 DEF Continue, HolderFits, Prepared, IsAt, Actor, AskFits
  <2> QED
    BY <1>1, <1>5, <1>13, <2>1 DEF Continue
<1>14. CASE Replay
  <2>1. CASE Decision = "approved" /\ Effective < scope
    <3>1. ~HasIntent
      BY <1>14, <2>1 DEF Replay, Invalid
    <3> QED
      BY <1>5, <1>6, <1>14, <2>1, <3>1 DEF Replay
  <2>2. CASE ~(Decision = "approved" /\ Effective < scope)
    BY <1>4, <1>14, <2>2 DEF Replay
  <2> QED
    BY <2>1, <2>2
<1>15. ASSUME NEW a \in Actor, GraphStep(a) PROVE AskNamesTheRow'
  <2>1. CASE Derive(a) \/ Save(a) \/ Execute(a)
    BY <1>2, <2>1 DEF Derive, Save, Execute
  <2>2. CASE Ask(a)
    <3>1. slot # NoAction /\ proposal # NoAction /\ slot.hash = proposal.hash
      BY <2>2 DEF Ask, IsAt, HolderFits, Prepared
    <3>2. slot.id \in Nat /\ slot.hash \in Hash
      BY <3>1 DEF SlotTypeOK, ShownFits
    <3>3. proposal' = [id |-> slot.id, hash |-> proposal.hash] /\ slot' = slot
      BY <2>2 DEF Ask
    <3>4. proposal' \in [id : Nat, hash : Hash] /\ "id" \in DOMAIN proposal'
      BY <3>1, <3>2, <3>3
    <3>5. proposal' # NoAction
      BY <3>4, NoActionIsNoRecord
    <3> QED
      BY <3>1, <3>3, <3>4, <3>5 DEF AskNamesTheRow, Carried, HasIntent
  <2>3. CASE SaveRefused(a) \/ MarkWaiting(a) \/ ExecuteRefused(a) \/ Finalize(a)
             \/ NodeFails(a) \/ Vanish(a)
    BY <1>1, <2>3 DEF SaveRefused, MarkWaiting, ExecuteRefused, Finalize, NodeFails, Vanish
  <2> QED
    BY <1>15, <2>1, <2>2, <2>3 DEF GraphStep
<1>16. CASE UNCHANGED slotVars
  BY <1>1, <1>16 DEF slotVars
<1> QED
  BY <1>7, <1>8, <1>9, <1>10, <1>11, <1>12, <1>13, <1>14, <1>15, <1>16 DEF SlotNext

(* What was executed was decided, and no decision is forgotten.            *)
LEMMA ExecutedStep ==
  ASSUME SlotInv, [SlotNext]_slotVars
  PROVE  \A a \in executed' :
           [id |-> a.id, shown |-> a.hash, decision |-> "approved"] \in decided'
<1>1. decided \subseteq decided'
  BY DEF SlotNext, slotVars, Regrant, Claim, Continue, Replay, ReplayRefused, Look, EnterGuard,
     Resolve, Withdraw, Void, Record, RecordNothing, Resume, GraphStep, Derive, Save,
     SaveRefused, MarkWaiting, Ask, Execute, ExecuteRefused, Finalize, NodeFails, Vanish
<1>2. executed' = executed \/ \E a \in Actor : Execute(a)
  BY DEF SlotNext, slotVars, Regrant, Claim, Continue, Replay, ReplayRefused, Look, EnterGuard,
     Resolve, Withdraw, Void, Record, RecordNothing, Resume, GraphStep, Derive, Save,
     SaveRefused, MarkWaiting, Ask, ExecuteRefused, Finalize, NodeFails, Vanish
<1>3. \A a \in executed : [id |-> a.id, shown |-> a.hash, decision |-> "approved"] \in decided
  BY DEF SlotInv, DecisionNamesItsAction
<1>4. ASSUME NEW a \in Actor, Execute(a)
      PROVE  /\ executed' = executed \cup {proposal}
             /\ [id |-> proposal.id, shown |-> proposal.hash, decision |-> "approved"] \in decided
  <2>1. /\ slot # NoAction /\ slot.status = "approved"
        /\ slot.id = proposal.id /\ slot.hash = proposal.hash
    BY <1>4, ExecuteIsOfARow DEF SlotInv
  <2>2. decided = {[id |-> slot.id, shown |-> slot.hash, decision |-> "approved"]}
    BY <2>1 DEF SlotInv, DecisionFits
  <2> QED
    BY <1>4, <2>1, <2>2 DEF Execute
<1> QED
  BY <1>1, <1>2, <1>3, <1>4

LEMMA SlotSteps == SlotInv /\ [SlotNext]_slotVars => SlotInv'
<1> SUFFICES ASSUME SlotInv, [SlotNext]_slotVars PROVE SlotInv'
  OBVIOUS
<1>1. SlotTypeOK' /\ ActorsFit' /\ GuardFits' /\ ShownFits' /\ DecisionFits' /\ HolderFits'
  BY SlotTypeStep, VisitorStep, ShownStep, DecisionStep, HolderStep DEF SlotInv, VisitorsFit
<1>2. AskFits' /\ AskNamesTheRow'
  BY AskStep, AskNamesTheRowStep
<1>3. Cardinality(decided') <= 1
  <2>1. decided' = {} \/ \E d : decided' = {d}
    BY <1>1 DEF DecisionFits
  <2>2. Cardinality({}) = 0 /\ \A d : Cardinality({d}) = 1
    BY FS_EmptySet, FS_Singleton
  <2>3. Cardinality(decided') \in {0, 1}
    BY <2>1, <2>2, Zenon
  <2> QED
    BY <2>3
<1>4. DecisionNamesItsAction'
  BY <1>2, <1>3, ExecutedStep DEF DecisionNamesItsAction, AskNamesTheRow, Carried
<1> QED
  BY <1>1, <1>2, <1>4 DEF SlotInv

LEMMA SlotStarts == SlotInit => SlotInv
<1> SUFFICES ASSUME SlotInit PROVE SlotInv
  OBVIOUS
<1> USE GrantsAreCounted, ActorsDiffer DEF SlotInit
<1>1. SlotTypeOK
  BY DEF SlotTypeOK
<1>2. ActorsFit
  BY DEF ActorsFit, FitsVisitor, Visit, Absent
<1>3. GuardFits /\ ShownFits /\ DecisionFits
  <2>1. \A a \in Actor : actor[a] = Absent
    OBVIOUS
  <2> QED
    BY <2>1 DEF GuardFits, ShownFits, DecisionFits, Absent, Actor
<1>4. HolderFits
  BY DEF HolderFits, Prepared, IsAt, Absent, Resolved
<1>5. AskFits /\ AskNamesTheRow
  BY DEF AskFits, AskNamesTheRow
<1>6. DecisionNamesItsAction
  BY FS_EmptySet DEF DecisionNamesItsAction
<1> QED
  BY <1>1, <1>2, <1>3, <1>4, <1>5, <1>6 DEF SlotInv

LEMMA SlotInvAlways == SlotSpec => []SlotInv
  BY SlotStarts, SlotSteps, PTL DEF SlotSpec

-----------------------------------------------------------------------------
(* The theorems. *)

(* The row, the checkpoint and the decisions have their types, whoever      *)
(* decides, replays, crashes or loses a grant.                              *)
THEOREM SlotTypeCorrect == SlotSpec => []SlotTypeOK
<1>1. SlotInv => SlotTypeOK
  BY DEF SlotInv
<1> QED
  BY <1>1, SlotInvAlways, PTL

(* What reaches the executor was approved under the id and the hash that    *)
(* its approver was shown, and a run is decided once: an id never changes   *)
(* its hash, a decided row is never replaced, and the guard keeps what a    *)
(* request has established until it has used it.                            *)
THEOREM DecisionsNameTheirAction == SlotSpec => []DecisionNamesItsAction
<1>1. SlotInv => DecisionNamesItsAction
  BY DEF SlotInv
<1> QED
  BY <1>1, SlotInvAlways, PTL
=============================================================================
