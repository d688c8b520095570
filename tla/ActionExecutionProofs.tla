----------------------- MODULE ActionExecutionProofs ------------------------
(* Proofs about ActionExecution, for every set of executors and requests. *)
EXTENDS ActionExecutionProps, TLAPS

-----------------------------------------------------------------------------
(* Types. *)

LEMMA NextType == TypeOK /\ [Next]_vars => TypeOK'
<1> SUFFICES ASSUME TypeOK, [Next]_vars PROVE TypeOK'
  OBVIOUS
<1> USE ActionAssumption DEF rows, glpi, TypeOK, ActionAssumption, Step, UnderLock, InGateway
<1>1. CASE UNCHANGED vars
  BY <1>1 DEF vars
<1>2. ASSUME NEW e \in Executor, Begin(e) PROVE TypeOK'
  BY <1>2 DEF Begin, Go
<1>3. ASSUME NEW e \in Executor, Check(e) PROVE TypeOK'
  BY <1>3 DEF Check, Go
<1>4. ASSUME NEW e \in Executor, ClaimKey(e) PROVE TypeOK'
  BY <1>4 DEF ClaimKey, Go
<1>5. ASSUME NEW e \in Executor, TakeActionLock(e) PROVE TypeOK'
  BY <1>5 DEF TakeActionLock, Go
<1>6. ASSUME NEW e \in Executor, Reread(e) PROVE TypeOK'
  BY <1>6 DEF Reread, Go, Free
<1>7. ASSUME NEW e \in Executor, Submit(e) PROVE TypeOK'
  BY <1>7 DEF Submit, Go
<1>8. ASSUME NEW e \in Executor, Reconcile(e) PROVE TypeOK'
  BY <1>8 DEF Reconcile, Go, Free
<1>9. ASSUME NEW e \in Executor, Send(e) PROVE TypeOK'
  BY <1>9 DEF Send, Go
<1>10. ASSUME NEW e \in Executor, Answer(e) PROVE TypeOK'
  BY <1>10 DEF Answer, Go, Free
<1>11. ASSUME NEW e \in Executor, Verify(e) PROVE TypeOK'
  BY <1>11 DEF Verify, Go
<1>12. ASSUME NEW e \in Executor, CompleteKey(e) PROVE TypeOK'
  BY <1>12 DEF CompleteKey, Go
<1>13. ASSUME NEW e \in Executor, MarkSucceeded(e) PROVE TypeOK'
  BY <1>13 DEF MarkSucceeded, Go
<1>14. ASSUME NEW e \in Executor, Audit(e) PROVE TypeOK'
  BY <1>14 DEF Audit, Go, Free
<1>15. ASSUME NEW e \in Executor, NodeDone(e) PROVE TypeOK'
  BY <1>15 DEF NodeDone, Go
<1>16. ASSUME NEW e \in Executor, Finalize(e) PROVE TypeOK'
  BY <1>16 DEF Finalize, Go, Leave, EndRun
<1>17. ASSUME NEW e \in Executor, GiveUp(e) PROVE TypeOK'
  BY <1>17 DEF GiveUp, Free, Fails
<1>18. ASSUME NEW e \in Executor, Abort(e) PROVE TypeOK'
  BY <1>18 DEF Abort, Go, Free
<1>19. ASSUME NEW e \in Executor, RecordFailure(e) PROVE TypeOK'
  BY <1>19 DEF RecordFailure, Go, Leave, EndRun
<1>20. ASSUME NEW e \in Executor, Checkpoint(e) PROVE TypeOK'
  BY <1>20 DEF Checkpoint
<1>21. ASSUME NEW e \in Executor, ToolFails(e) PROVE TypeOK'
  BY <1>21 DEF ToolFails, Free, Fails, Fault
<1>22. ASSUME NEW e \in Executor, Raises(e) PROVE TypeOK'
  BY <1>22 DEF Raises, Free, Fault
<1>23. ASSUME NEW e \in Executor, Crash(e) PROVE TypeOK'
  BY <1>23 DEF Crash, Free, Leave, Fault
<1>24. ASSUME NEW p \in Post, Apply(p) PROVE TypeOK'
  BY <1>24 DEF Apply
<1>25. ASSUME NEW p \in Post, Lose(p) PROVE TypeOK'
  BY <1>25 DEF Lose, Fault
<1>26. CASE Cancel
  BY <1>26 DEF Cancel
<1> QED
  BY <1>1, <1>2, <1>3, <1>4, <1>5, <1>6, <1>7, <1>8, <1>9, <1>10, <1>11, <1>12, <1>13, <1>14,
       <1>15, <1>16, <1>17, <1>18, <1>19, <1>20, <1>21, <1>22, <1>23, <1>24, <1>25, <1>26 DEF
       Next, Execute

(* Every variable keeps to the values the code's columns and program points have. *)
THEOREM TypeCorrect == Spec => []TypeOK
<1>1. "idle" \in Step
  BY DEF Step
<1>2. ASSUME Init PROVE TypeOK
  <2>1. /\ pc \in [Executor -> Step]
        /\ mine \in [Executor -> Post \cup {NoPost}]
    BY <1>1, <1>2 DEF Init
  <2>2. faults \in 0..MaxFaults
    BY <1>2, ActionAssumption DEF Init, ActionAssumption
  <2> QED
    BY <1>2, <2>1, <2>2 DEF Init, TypeOK
<1> QED
  BY <1>2, NextType, PTL DEF Spec

-----------------------------------------------------------------------------
(* The locks. *)

LEMMA NextLocks == TypeOK /\ LocksFollowTheAttempt /\ [Next]_vars => LocksFollowTheAttempt'
<1> SUFFICES ASSUME TypeOK, LocksFollowTheAttempt, [Next]_vars PROVE LocksFollowTheAttempt'
  OBVIOUS
<1> USE ActionAssumption DEF rows, glpi, TypeOK, ActionAssumption, LocksFollowTheAttempt,
     UnderLock, InGateway
<1>1. CASE UNCHANGED vars
  BY <1>1 DEF vars
<1>2. ASSUME NEW e \in Executor, Begin(e) PROVE LocksFollowTheAttempt'
  BY <1>2 DEF Begin, Go
<1>3. ASSUME NEW e \in Executor, Check(e) PROVE LocksFollowTheAttempt'
  BY <1>3 DEF Check, Go
<1>4. ASSUME NEW e \in Executor, ClaimKey(e) PROVE LocksFollowTheAttempt'
  BY <1>4 DEF ClaimKey, Go
<1>5. ASSUME NEW e \in Executor, TakeActionLock(e) PROVE LocksFollowTheAttempt'
  BY <1>5 DEF TakeActionLock, Go
<1>6. ASSUME NEW e \in Executor, Reread(e) PROVE LocksFollowTheAttempt'
  BY <1>6 DEF Reread, Go, Free
<1>7. ASSUME NEW e \in Executor, Submit(e) PROVE LocksFollowTheAttempt'
  BY <1>7 DEF Submit, Go
<1>8. ASSUME NEW e \in Executor, Reconcile(e) PROVE LocksFollowTheAttempt'
  BY <1>8 DEF Reconcile, Go, Free
<1>9. ASSUME NEW e \in Executor, Send(e) PROVE LocksFollowTheAttempt'
  BY <1>9 DEF Send, Go
<1>10. ASSUME NEW e \in Executor, Answer(e) PROVE LocksFollowTheAttempt'
  BY <1>10 DEF Answer, Go, Free
<1>11. ASSUME NEW e \in Executor, Verify(e) PROVE LocksFollowTheAttempt'
  BY <1>11 DEF Verify, Go
<1>12. ASSUME NEW e \in Executor, CompleteKey(e) PROVE LocksFollowTheAttempt'
  BY <1>12 DEF CompleteKey, Go
<1>13. ASSUME NEW e \in Executor, MarkSucceeded(e) PROVE LocksFollowTheAttempt'
  BY <1>13 DEF MarkSucceeded, Go
<1>14. ASSUME NEW e \in Executor, Audit(e) PROVE LocksFollowTheAttempt'
  BY <1>14 DEF Audit, Go, Free
<1>15. ASSUME NEW e \in Executor, NodeDone(e) PROVE LocksFollowTheAttempt'
  BY <1>15 DEF NodeDone, Go
<1>16. ASSUME NEW e \in Executor, Finalize(e) PROVE LocksFollowTheAttempt'
  BY <1>16 DEF Finalize, Go, Leave, EndRun
<1>17. ASSUME NEW e \in Executor, GiveUp(e) PROVE LocksFollowTheAttempt'
  BY <1>17 DEF GiveUp, Free, Fails
<1>18. ASSUME NEW e \in Executor, Abort(e) PROVE LocksFollowTheAttempt'
  BY <1>18 DEF Abort, Go, Free
<1>19. ASSUME NEW e \in Executor, RecordFailure(e) PROVE LocksFollowTheAttempt'
  BY <1>19 DEF RecordFailure, Go, Leave, EndRun
<1>20. ASSUME NEW e \in Executor, Checkpoint(e) PROVE LocksFollowTheAttempt'
  BY <1>20 DEF Checkpoint
<1>21. ASSUME NEW e \in Executor, ToolFails(e) PROVE LocksFollowTheAttempt'
  BY <1>21 DEF ToolFails, Free, Fails, Fault
<1>22. ASSUME NEW e \in Executor, Raises(e) PROVE LocksFollowTheAttempt'
  BY <1>22 DEF Raises, Free, Fault
<1>23. ASSUME NEW e \in Executor, Crash(e) PROVE LocksFollowTheAttempt'
  BY <1>23 DEF Crash, Free, Leave, Fault
<1>24. ASSUME NEW p \in Post, Apply(p) PROVE LocksFollowTheAttempt'
  BY <1>24 DEF Apply
<1>25. ASSUME NEW p \in Post, Lose(p) PROVE LocksFollowTheAttempt'
  BY <1>25 DEF Lose, Fault
<1>26. CASE Cancel
  BY <1>26 DEF Cancel
<1> QED
  BY <1>1, <1>2, <1>3, <1>4, <1>5, <1>6, <1>7, <1>8, <1>9, <1>10, <1>11, <1>12, <1>13, <1>14,
       <1>15, <1>16, <1>17, <1>18, <1>19, <1>20, <1>21, <1>22, <1>23, <1>24, <1>25, <1>26 DEF
       Next, Execute

(* The two locks are held exactly while their bodies run. *)
THEOREM LocksFollow == Spec => []LocksFollowTheAttempt
<1>1. Init => LocksFollowTheAttempt
  BY ActionAssumption DEF Init, LocksFollowTheAttempt, UnderLock, InGateway, ActionAssumption
<1> QED
  BY <1>1, TypeCorrect, NextLocks, PTL DEF Spec


-----------------------------------------------------------------------------
(* One write.  Calm is the premise of OneWrite. *)

Calm == mode = "worker" \/ faults = 0

Alone ==
  mode = "worker" => \A e, o \in Executor : pc[e] # "idle" /\ pc[o] # "idle" => e = o

(* With a guard, whoever passed Check still works under an unspent approval,
   which is spent before the provider is called. *)
ApprovalUnspent ==
  mode = "worker" =>
    /\ intent = "approved" => sent = {}
    /\ \A e \in Executor :
         /\ pc[e] \in {"claiming", "queued", "holding"} => intent = "approved"
         /\ pc[e] \in {"gateway", "submitting", "posting"} => intent # "approved"

(* While nothing fails, a request is known to the record or to whoever holds the lock. *)
RequestKnown ==
  faults = 0 =>
    /\ sent = inFlight \cup written
    /\ sent # {} => \/ ledger = "completed"
                    \/ \E e \in Executor : pc[e] \in {"awaiting", "verifying", "completing"}

RequestIsMine == \A e \in Executor : pc[e] = "awaiting" => mine[e] \in sent

NothingSentYet ==
  Calm => \A e \in Executor : pc[e] \in {"gateway", "submitting", "posting"} => sent = {}

WriteInv ==
  Alone /\ ApprovalUnspent /\ RequestKnown /\ RequestIsMine /\ NothingSentYet /\ OneWrite

LEMMA NextWrite ==
  TypeOK /\ LocksFollowTheAttempt /\ WriteInv /\ [Next]_vars => WriteInv'
<1> SUFFICES ASSUME TypeOK, LocksFollowTheAttempt, WriteInv, [Next]_vars PROVE WriteInv'
  OBVIOUS
<1> USE ActionAssumption DEF rows, glpi, TypeOK, ActionAssumption, LocksFollowTheAttempt,
     UnderLock, InGateway, WriteInv, Alone, ApprovalUnspent, RequestKnown, RequestIsMine,
     NothingSentYet, OneWrite, Calm
<1>1. CASE UNCHANGED vars
  BY <1>1 DEF vars
<1>2. ASSUME NEW e \in Executor, Begin(e) PROVE WriteInv'
  BY <1>2 DEF Begin, Go
<1>3. ASSUME NEW e \in Executor, Check(e) PROVE WriteInv'
  BY <1>3 DEF Check, Go
<1>4. ASSUME NEW e \in Executor, ClaimKey(e) PROVE WriteInv'
  BY <1>4 DEF ClaimKey, Go
<1>5. ASSUME NEW e \in Executor, TakeActionLock(e) PROVE WriteInv'
  BY <1>5 DEF TakeActionLock, Go
<1>6. ASSUME NEW e \in Executor, Reread(e) PROVE WriteInv'
  BY <1>6 DEF Reread, Go, Free
<1>7. ASSUME NEW e \in Executor, Submit(e) PROVE WriteInv'
  BY <1>7 DEF Submit, Go
<1>8. ASSUME NEW e \in Executor, Reconcile(e) PROVE WriteInv'
  BY <1>8 DEF Reconcile, Go, Free
<1>9. ASSUME NEW e \in Executor, Send(e) PROVE WriteInv'
  <2>1. PICK p \in Post \ sent : sent' = sent \cup {p} /\ inFlight' = inFlight \cup {p}
                                /\ mine' = [mine EXCEPT ![e] = p]
    BY <1>9 DEF Send
  <2>2. pc[e] = "posting" /\ pc' = [pc EXCEPT ![e] = "awaiting"] /\ actionLock = e
    BY <1>9 DEF Send, Go
  <2>3. UNCHANGED <<mode, rows, actionLock, submitLock, written, faults>>
    BY <1>9 DEF Send
  <2>4. Calm => sent = {}
    BY <2>2
  <2>5. Alone' /\ RequestIsMine'
    BY <2>1, <2>2, <2>3
  <2>6. NothingSentYet'
    BY <2>1, <2>2, <2>3
  <2>7. OneWrite'
    BY <2>1, <2>2, <2>3, <2>4
  <2>8. ApprovalUnspent'
    BY <2>1, <2>2, <2>3
  <2>9. RequestKnown'
    BY <2>1, <2>2, <2>3, <2>4
  <2> QED
    BY <2>5, <2>6, <2>7, <2>8, <2>9
<1>10. ASSUME NEW e \in Executor, Answer(e) PROVE WriteInv'
  BY <1>10 DEF Answer, Go, Free
<1>11. ASSUME NEW e \in Executor, Verify(e) PROVE WriteInv'
  BY <1>11 DEF Verify, Go
<1>12. ASSUME NEW e \in Executor, CompleteKey(e) PROVE WriteInv'
  BY <1>12 DEF CompleteKey, Go
<1>13. ASSUME NEW e \in Executor, MarkSucceeded(e) PROVE WriteInv'
  BY <1>13 DEF MarkSucceeded, Go
<1>14. ASSUME NEW e \in Executor, Audit(e) PROVE WriteInv'
  BY <1>14 DEF Audit, Go, Free
<1>15. ASSUME NEW e \in Executor, NodeDone(e) PROVE WriteInv'
  BY <1>15 DEF NodeDone, Go
<1>16. ASSUME NEW e \in Executor, Finalize(e) PROVE WriteInv'
  BY <1>16 DEF Finalize, Go, Leave, EndRun
<1>17. ASSUME NEW e \in Executor, GiveUp(e) PROVE WriteInv'
  BY <1>17 DEF GiveUp, Free, Fails
<1>18. ASSUME NEW e \in Executor, Abort(e) PROVE WriteInv'
  BY <1>18 DEF Abort, Go, Free
<1>19. ASSUME NEW e \in Executor, RecordFailure(e) PROVE WriteInv'
  BY <1>19 DEF RecordFailure, Go, Leave, EndRun
<1>20. ASSUME NEW e \in Executor, Checkpoint(e) PROVE WriteInv'
  BY <1>20 DEF Checkpoint
<1>21. ASSUME NEW e \in Executor, ToolFails(e) PROVE WriteInv'
  BY <1>21 DEF ToolFails, Free, Fails, Fault
<1>22. ASSUME NEW e \in Executor, Raises(e) PROVE WriteInv'
  BY <1>22 DEF Raises, Free, Fault
<1>23. ASSUME NEW e \in Executor, Crash(e) PROVE WriteInv'
  BY <1>23 DEF Crash, Free, Leave, Fault
<1>24. ASSUME NEW p \in Post, Apply(p) PROVE WriteInv'
  BY <1>24 DEF Apply
<1>25. ASSUME NEW p \in Post, Lose(p) PROVE WriteInv'
  BY <1>25 DEF Lose, Fault
<1>26. CASE Cancel
  BY <1>26 DEF Cancel
<1> QED
  BY <1>1, <1>2, <1>3, <1>4, <1>5, <1>6, <1>7, <1>8, <1>9, <1>10, <1>11, <1>12, <1>13, <1>14,
       <1>15, <1>16, <1>17, <1>18, <1>19, <1>20, <1>21, <1>22, <1>23, <1>24, <1>25, <1>26 DEF
       Next, Execute

(* At most one request per approved action. *)
THEOREM WritesOnce == Spec => []OneWrite
<1>1. Init => WriteInv
  BY DEF Init, WriteInv, Alone, ApprovalUnspent, RequestKnown, RequestIsMine, NothingSentYet,
       OneWrite, Calm
<1>2. WriteInv => OneWrite
  BY DEF WriteInv
<1> QED
  BY <1>1, <1>2, TypeCorrect, LocksFollow, NextWrite, PTL DEF Spec

-----------------------------------------------------------------------------
(* No write after the end. *)

SubmissionOpen ==
  \A e \in Executor : pc[e] \in {"submitting", "posting"} =>
    run # "cancelled" /\ (mode = "worker" => run = "running")

LEMMA NextSubmission ==
  TypeOK /\ LocksFollowTheAttempt /\ WriteInv /\ SubmissionOpen /\ [Next]_vars => SubmissionOpen'
<1> SUFFICES ASSUME TypeOK, LocksFollowTheAttempt, WriteInv, SubmissionOpen, [Next]_vars
             PROVE  SubmissionOpen'
  OBVIOUS
<1> USE ActionAssumption DEF rows, glpi, TypeOK, ActionAssumption, LocksFollowTheAttempt,
     UnderLock, InGateway, WriteInv, Alone, SubmissionOpen
<1>1. CASE UNCHANGED vars
  BY <1>1 DEF vars
<1>2. ASSUME NEW e \in Executor, Begin(e) PROVE SubmissionOpen'
  BY <1>2 DEF Begin, Go
<1>3. ASSUME NEW e \in Executor, Check(e) PROVE SubmissionOpen'
  BY <1>3 DEF Check, Go
<1>4. ASSUME NEW e \in Executor, ClaimKey(e) PROVE SubmissionOpen'
  BY <1>4 DEF ClaimKey, Go
<1>5. ASSUME NEW e \in Executor, TakeActionLock(e) PROVE SubmissionOpen'
  BY <1>5 DEF TakeActionLock, Go
<1>6. ASSUME NEW e \in Executor, Reread(e) PROVE SubmissionOpen'
  BY <1>6 DEF Reread, Go, Free
<1>7. ASSUME NEW e \in Executor, Submit(e) PROVE SubmissionOpen'
  BY <1>7 DEF Submit, Go
<1>8. ASSUME NEW e \in Executor, Reconcile(e) PROVE SubmissionOpen'
  BY <1>8 DEF Reconcile, Go, Free
<1>9. ASSUME NEW e \in Executor, Send(e) PROVE SubmissionOpen'
  BY <1>9 DEF Send, Go
<1>10. ASSUME NEW e \in Executor, Answer(e) PROVE SubmissionOpen'
  BY <1>10 DEF Answer, Go, Free
<1>11. ASSUME NEW e \in Executor, Verify(e) PROVE SubmissionOpen'
  BY <1>11 DEF Verify, Go
<1>12. ASSUME NEW e \in Executor, CompleteKey(e) PROVE SubmissionOpen'
  BY <1>12 DEF CompleteKey, Go
<1>13. ASSUME NEW e \in Executor, MarkSucceeded(e) PROVE SubmissionOpen'
  BY <1>13 DEF MarkSucceeded, Go
<1>14. ASSUME NEW e \in Executor, Audit(e) PROVE SubmissionOpen'
  BY <1>14 DEF Audit, Go, Free
<1>15. ASSUME NEW e \in Executor, NodeDone(e) PROVE SubmissionOpen'
  BY <1>15 DEF NodeDone, Go
<1>16. ASSUME NEW e \in Executor, Finalize(e) PROVE SubmissionOpen'
  BY <1>16 DEF Finalize, Go, Leave, EndRun
<1>17. ASSUME NEW e \in Executor, GiveUp(e) PROVE SubmissionOpen'
  BY <1>17 DEF GiveUp, Free, Fails
<1>18. ASSUME NEW e \in Executor, Abort(e) PROVE SubmissionOpen'
  BY <1>18 DEF Abort, Go, Free
<1>19. ASSUME NEW e \in Executor, RecordFailure(e) PROVE SubmissionOpen'
  BY <1>19 DEF RecordFailure, Go, Leave, EndRun
<1>20. ASSUME NEW e \in Executor, Checkpoint(e) PROVE SubmissionOpen'
  BY <1>20 DEF Checkpoint
<1>21. ASSUME NEW e \in Executor, ToolFails(e) PROVE SubmissionOpen'
  BY <1>21 DEF ToolFails, Free, Fails, Fault
<1>22. ASSUME NEW e \in Executor, Raises(e) PROVE SubmissionOpen'
  BY <1>22 DEF Raises, Free, Fault
<1>23. ASSUME NEW e \in Executor, Crash(e) PROVE SubmissionOpen'
  BY <1>23 DEF Crash, Free, Leave, Fault
<1>24. ASSUME NEW p \in Post, Apply(p) PROVE SubmissionOpen'
  BY <1>24 DEF Apply
<1>25. ASSUME NEW p \in Post, Lose(p) PROVE SubmissionOpen'
  BY <1>25 DEF Lose, Fault
<1>26. CASE Cancel
  BY <1>26 DEF Cancel
<1> QED
  BY <1>1, <1>2, <1>3, <1>4, <1>5, <1>6, <1>7, <1>8, <1>9, <1>10, <1>11, <1>12, <1>13, <1>14,
       <1>15, <1>16, <1>17, <1>18, <1>19, <1>20, <1>21, <1>22, <1>23, <1>24, <1>25, <1>26 DEF
       Next, Execute

(* The end of a run, its cancellation first of all, is a barrier to requests. *)
THEOREM EndIsABarrier == Spec => NoWriteAfterTheEnd
<1>1. Init => WriteInv /\ SubmissionOpen
  BY DEF Init, SubmissionOpen, WriteInv, Alone, ApprovalUnspent, RequestKnown, RequestIsMine,
       NothingSentYet, OneWrite, Calm
<1>2. SubmissionOpen /\ [Next]_vars =>
        [sent' # sent => run # "cancelled" /\ (mode = "worker" => run = "running")]_vars
  <2> SUFFICES ASSUME SubmissionOpen, [Next]_vars, sent' # sent
               PROVE  run # "cancelled" /\ (mode = "worker" => run = "running")
    OBVIOUS
  <2>1. \E e \in Executor : Send(e)
    BY DEF Next, Execute, vars, glpi, rows, Begin, Check, ClaimKey, TakeActionLock, Reread,
         Submit, Reconcile, Answer, Verify, CompleteKey, MarkSucceeded, Audit, NodeDone, Finalize,
         GiveUp, Abort, RecordFailure, Checkpoint, ToolFails, Raises, Crash, Apply, Lose, Cancel,
         Go, Fails, Fault, Free, EndRun, Leave
  <2> QED
    BY <2>1 DEF Send, Go, SubmissionOpen
<1> QED
  BY <1>1, <1>2, TypeCorrect, LocksFollow, NextWrite, NextSubmission, PTL
     DEF Spec, NoWriteAfterTheEnd

-----------------------------------------------------------------------------
(* Success is real. *)

(* What a session past the read-back may rely on. *)
WriteIsThere ==
  \A e \in Executor :
    /\ pc[e] \in {"verifying", "completing", "marking", "auditing", "executed", "finalizing"}
         => written # {}
    /\ pc[e] \in {"marking", "auditing", "executed", "finalizing"} => ledger = "completed"

SuccessRests ==
  ledger = "completed" \/ intent = "succeeded" \/ checkpoint = "finalize" \/ run = "succeeded"
    => ledger = "completed" /\ written # {}

(* An attempt under way has spent the approval; a calm one that got past the write sent it. *)
AttemptOwnsWrite ==
  \A e \in Executor :
    /\ pc[e] \in UnderLock \ {"holding", "aborting"} => intent # "approved"
    /\ Calm /\ pc[e] \in {"awaiting", "verifying", "completing", "marking", "auditing"}
         => mine[e] # NoPost

CreationAudited ==
  /\ Calm => /\ \A e \in Executor : pc[e] \in {"executed", "finalizing"} => audited
             /\ checkpoint = "finalize" \/ run = "succeeded" => audited
  /\ mode = "worker" /\ ledger = "completed" => intent # "approved"
  /\ faults = 0 /\ ledger = "completed" =>
       audited \/ \E e \in Executor : pc[e] \in {"marking", "auditing"}

SuccessInv == WriteIsThere /\ SuccessRests /\ AttemptOwnsWrite /\ CreationAudited

LEMMA NextSuccess ==
  TypeOK /\ LocksFollowTheAttempt /\ WriteInv /\ SuccessInv /\ [Next]_vars => SuccessInv'
<1> SUFFICES ASSUME TypeOK, LocksFollowTheAttempt, WriteInv, SuccessInv, [Next]_vars
             PROVE  SuccessInv'
  OBVIOUS
<1> USE ActionAssumption DEF rows, glpi, TypeOK, ActionAssumption, LocksFollowTheAttempt,
     UnderLock, InGateway, WriteInv, Alone, ApprovalUnspent, RequestKnown, RequestIsMine,
     NothingSentYet, OneWrite, Calm, SuccessInv, WriteIsThere, SuccessRests, AttemptOwnsWrite,
     CreationAudited
<1>1. CASE UNCHANGED vars
  BY <1>1 DEF vars
<1>2. ASSUME NEW e \in Executor, Begin(e) PROVE SuccessInv'
  BY <1>2 DEF Begin, Go
<1>3. ASSUME NEW e \in Executor, Check(e) PROVE SuccessInv'
  BY <1>3 DEF Check, Go
<1>4. ASSUME NEW e \in Executor, ClaimKey(e) PROVE SuccessInv'
  BY <1>4 DEF ClaimKey, Go
<1>5. ASSUME NEW e \in Executor, TakeActionLock(e) PROVE SuccessInv'
  BY <1>5 DEF TakeActionLock, Go
<1>6. ASSUME NEW e \in Executor, Reread(e) PROVE SuccessInv'
  BY <1>6 DEF Reread, Go, Free
<1>7. ASSUME NEW e \in Executor, Submit(e) PROVE SuccessInv'
  BY <1>7 DEF Submit, Go
<1>8. ASSUME NEW e \in Executor, Reconcile(e) PROVE SuccessInv'
  BY <1>8 DEF Reconcile, Go, Free
<1>9. ASSUME NEW e \in Executor, Send(e) PROVE SuccessInv'
  BY <1>9 DEF Send, Go
<1>10. ASSUME NEW e \in Executor, Answer(e) PROVE SuccessInv'
  BY <1>10 DEF Answer, Go, Free
<1>11. ASSUME NEW e \in Executor, Verify(e) PROVE SuccessInv'
  BY <1>11 DEF Verify, Go
<1>12. ASSUME NEW e \in Executor, CompleteKey(e) PROVE SuccessInv'
  BY <1>12 DEF CompleteKey, Go
<1>13. ASSUME NEW e \in Executor, MarkSucceeded(e) PROVE SuccessInv'
  BY <1>13 DEF MarkSucceeded, Go
<1>14. ASSUME NEW e \in Executor, Audit(e) PROVE SuccessInv'
  BY <1>14 DEF Audit, Go, Free
<1>15. ASSUME NEW e \in Executor, NodeDone(e) PROVE SuccessInv'
  BY <1>15 DEF NodeDone, Go
<1>16. ASSUME NEW e \in Executor, Finalize(e) PROVE SuccessInv'
  BY <1>16 DEF Finalize, Go, Leave, EndRun
<1>17. ASSUME NEW e \in Executor, GiveUp(e) PROVE SuccessInv'
  BY <1>17 DEF GiveUp, Free, Fails
<1>18. ASSUME NEW e \in Executor, Abort(e) PROVE SuccessInv'
  BY <1>18 DEF Abort, Go, Free
<1>19. ASSUME NEW e \in Executor, RecordFailure(e) PROVE SuccessInv'
  BY <1>19 DEF RecordFailure, Go, Leave, EndRun
<1>20. ASSUME NEW e \in Executor, Checkpoint(e) PROVE SuccessInv'
  BY <1>20 DEF Checkpoint
<1>21. ASSUME NEW e \in Executor, ToolFails(e) PROVE SuccessInv'
  BY <1>21 DEF ToolFails, Free, Fails, Fault
<1>22. ASSUME NEW e \in Executor, Raises(e) PROVE SuccessInv'
  BY <1>22 DEF Raises, Free, Fault
<1>23. ASSUME NEW e \in Executor, Crash(e) PROVE SuccessInv'
  BY <1>23 DEF Crash, Free, Leave, Fault
<1>24. ASSUME NEW p \in Post, Apply(p) PROVE SuccessInv'
  BY <1>24 DEF Apply
<1>25. ASSUME NEW p \in Post, Lose(p) PROVE SuccessInv'
  BY <1>25 DEF Lose, Fault
<1>26. CASE Cancel
  BY <1>26 DEF Cancel
<1> QED
  BY <1>1, <1>2, <1>3, <1>4, <1>5, <1>6, <1>7, <1>8, <1>9, <1>10, <1>11, <1>12, <1>13, <1>14,
       <1>15, <1>16, <1>17, <1>18, <1>19, <1>20, <1>21, <1>22, <1>23, <1>24, <1>25, <1>26 DEF
       Next, Execute

(* A success that is claimed anywhere rests on a followup in GLPI. *)
THEOREM SuccessHolds == Spec => []SuccessIsReal
<1>1. Init => WriteInv /\ SuccessInv
  BY DEF Init, SuccessInv, WriteIsThere, SuccessRests, AttemptOwnsWrite, CreationAudited,
       UnderLock, InGateway, WriteInv, Alone, ApprovalUnspent, RequestKnown, RequestIsMine,
       NothingSentYet, OneWrite, Calm
<1>2. SuccessInv => SuccessIsReal
  BY DEF SuccessInv, SuccessRests, CreationAudited, Calm, SuccessIsReal
<1> QED
  BY <1>1, <1>2, TypeCorrect, LocksFollow, NextWrite, NextSuccess, PTL DEF Spec

-----------------------------------------------------------------------------
(* The write as whoever approved it sees it. *)

(* With a guard, a run somebody executes has not ended, unless a person cancelled it. *)
ExecutedIsOpen ==
  mode = "worker" => \A e \in Executor : pc[e] # "idle" => run \in {"running", "cancelled"}

(* An attempt that goes on, or gives up, leaves the run to whoever ends it. *)
LEMMA AttemptLeavesRun ==
  ASSUME TypeOK, NEW e \in Executor,
         \/ Check(e) \/ ClaimKey(e) \/ TakeActionLock(e) \/ Reread(e) \/ Submit(e) \/ Reconcile(e)
         \/ Send(e) \/ Answer(e) \/ Verify(e) \/ CompleteKey(e) \/ MarkSucceeded(e) \/ Audit(e)
         \/ NodeDone(e) \/ GiveUp(e) \/ Abort(e) \/ Checkpoint(e) \/ ToolFails(e) \/ Raises(e)
         \/ Crash(e)
  PROVE  /\ UNCHANGED <<mode, run>>
         /\ \A o \in Executor : pc'[o] # "idle" => pc[o] # "idle"
<1> USE DEF rows, glpi, TypeOK, Go
<1>1. CASE Check(e) \/ ClaimKey(e) \/ TakeActionLock(e) \/ Reread(e) \/ Submit(e) \/ Reconcile(e)
  BY <1>1 DEF Check, ClaimKey, TakeActionLock, Reread, Submit, Reconcile
<1>2. CASE Send(e) \/ Answer(e) \/ Verify(e) \/ CompleteKey(e) \/ MarkSucceeded(e) \/ Audit(e)
  BY <1>2 DEF Send, Answer, Verify, CompleteKey, MarkSucceeded, Audit
<1>3. CASE NodeDone(e) \/ GiveUp(e) \/ Abort(e) \/ Checkpoint(e) \/ ToolFails(e) \/ Raises(e) \/ Crash(e)
  BY <1>3 DEF NodeDone, GiveUp, Abort, Checkpoint, ToolFails, Raises, Crash, Fails, InGateway
<1> QED
  BY <1>1, <1>2, <1>3

LEMMA NextOpen ==
  TypeOK /\ Alone /\ ExecutedIsOpen /\ [Next]_vars => ExecutedIsOpen'
<1> SUFFICES ASSUME TypeOK, Alone, ExecutedIsOpen, [Next]_vars PROVE ExecutedIsOpen'
  OBVIOUS
<1> USE DEF ExecutedIsOpen
<1>1. CASE UNCHANGED vars
  BY <1>1 DEF vars, rows
<1>2. ASSUME NEW e \in Executor, Begin(e) PROVE ExecutedIsOpen'
  BY <1>2 DEF Begin, rows
<1>3. ASSUME NEW e \in Executor, Finalize(e) \/ RecordFailure(e) PROVE ExecutedIsOpen'
  BY <1>3 DEF Finalize, RecordFailure, Go, EndRun, TypeOK, Alone
<1>4. ASSUME NEW e \in Executor, Execute(e) \/ Checkpoint(e) \/ ToolFails(e) \/ Raises(e) \/ Crash(e),
             ~(Finalize(e) \/ RecordFailure(e))
      PROVE  ExecutedIsOpen'
  BY <1>4, AttemptLeavesRun DEF Execute
<1>5. ASSUME NEW p \in Post, Apply(p) \/ Lose(p) PROVE ExecutedIsOpen'
  BY <1>5 DEF Apply, Lose, rows
<1>6. CASE Cancel
  BY <1>6 DEF Cancel
<1> QED
  BY <1>1, <1>2, <1>3, <1>4, <1>5, <1>6 DEF Next

LEMMA StepIsApproved ==
  TypeOK /\ WriteInv /\ SuccessInv /\ SubmissionOpen /\ ExecutedIsOpen /\ [Next]_vars
    => [Approved!Next]_(Approved!writeVars)
<1> SUFFICES ASSUME TypeOK, WriteInv, SuccessInv, SubmissionOpen, ExecutedIsOpen, [Next]_vars
             PROVE  [Approved!Next]_(Approved!writeVars)
  OBVIOUS
<1> USE DEF rows, glpi, Approved!writeVars
<1>1. CASE UNCHANGED vars
  BY <1>1 DEF vars
<1>2. ASSUME NEW e \in Executor, Send(e) PROVE Approved!Ask
  <2>1. pc[e] = "posting" /\ UNCHANGED <<mode, run, ledger, written>>
    BY <1>2 DEF Send, Go
  <2>2. run # "cancelled" /\ (mode = "worker" => run = "running")
    BY <2>1 DEF SubmissionOpen
  <2>3. mode = "worker" => sent = {}
    BY <2>1 DEF WriteInv, NothingSentYet, Calm
  <2>4. \E p \in Post \ sent : sent' = sent \cup {p}
    BY <1>2 DEF Send
  <2> QED
    BY <2>1, <2>2, <2>3, <2>4 DEF Approved!Ask
<1>3. ASSUME NEW p \in Post, Apply(p) PROVE Approved!Arrive
  BY <1>3 DEF Apply, TypeOK, Approved!Arrive
<1>4. ASSUME NEW e \in Executor, CompleteKey(e) PROVE Approved!Confirm
  <2>1. pc[e] = "completing" /\ ledger' = "completed" /\ UNCHANGED <<mode, run, sent, written>>
    BY <1>4 DEF CompleteKey, Go
  <2>2. written # {}
    BY <2>1 DEF SuccessInv, WriteIsThere
  <2> QED
    BY <2>1, <2>2 DEF Approved!Confirm
<1>5. ASSUME NEW e \in Executor, Finalize(e) \/ RecordFailure(e)
      PROVE  [Approved!Next]_(Approved!writeVars)
  <2>1. /\ pc[e] \in {"finalizing", "failing"}
        /\ UNCHANGED <<mode, ledger, sent, written>>
        /\ run # "cancelled" => run' = IF pc[e] = "finalizing" THEN "succeeded" ELSE "failed"
        /\ run = "cancelled" => run' = run
    BY <1>5 DEF Finalize, RecordFailure, Go, EndRun
  <2>2. CASE run = "cancelled"
    BY <2>1, <2>2
  <2>3. CASE run # "cancelled"
    <3>1. mode = "worker" => run = "running"
      BY <2>1, <2>3 DEF ExecutedIsOpen
    <3>2. pc[e] = "finalizing" => ledger = "completed"
      BY DEF SuccessInv, WriteIsThere
    <3>3. Approved!End
      BY <2>1, <2>3, <3>1, <3>2 DEF Approved!End
    <3> QED
      BY <3>3 DEF Approved!Next
  <2> QED
    BY <2>2, <2>3
<1>6. ASSUME Cancel PROVE Approved!Cancel
  BY <1>6 DEF Cancel, TypeOK, Approved!Cancel
<1>7. ASSUME NEW e \in Executor,
             \/ Begin(e) \/ Check(e) \/ TakeActionLock(e) \/ Reread(e) \/ Submit(e) \/ Reconcile(e)
             \/ Answer(e) \/ Verify(e)
      PROVE  UNCHANGED Approved!writeVars
  BY <1>7 DEF Begin, Check, TakeActionLock, Reread, Submit, Reconcile, Answer, Verify
<1>8. ASSUME NEW e \in Executor,
             \/ ClaimKey(e) \/ MarkSucceeded(e) \/ Audit(e) \/ NodeDone(e) \/ GiveUp(e) \/ Abort(e)
             \/ Checkpoint(e) \/ ToolFails(e) \/ Raises(e) \/ Crash(e)
      PROVE  UNCHANGED Approved!writeVars
  BY <1>8 DEF ClaimKey, MarkSucceeded, Audit, NodeDone, GiveUp, Abort, Checkpoint, ToolFails,
              Raises, Crash, Fails
<1>9. ASSUME NEW p \in Post, Lose(p) PROVE UNCHANGED Approved!writeVars
  BY <1>9 DEF Lose
<1> QED
  BY <1>1, <1>2, <1>3, <1>4, <1>5, <1>6, <1>7, <1>8, <1>9 DEF Next, Execute, Approved!Next

(* Executors, locks, retries and late answers together keep what whoever approved the
   write is promised: with the guard one request, while the run is open, no success
   recorded of a write that is not there, and one end of the run. *)
THEOREM WriteIsAsApproved == Spec => ImplementsApprovedWrite
<1>1. Init => WriteInv /\ SuccessInv /\ SubmissionOpen /\ ExecutedIsOpen
  BY DEF Init, SuccessInv, WriteIsThere, SuccessRests, AttemptOwnsWrite, CreationAudited,
       UnderLock, InGateway, WriteInv, Alone, ApprovalUnspent, RequestKnown, RequestIsMine,
       NothingSentYet, OneWrite, Calm, SubmissionOpen, ExecutedIsOpen
<1>2. Init => Approved!Init
  BY DEF Init, Approved!Init
<1>3. WriteInv => Alone
  BY DEF WriteInv
<1> QED
  BY <1>1, <1>2, <1>3, TypeCorrect, LocksFollow, NextWrite, NextSuccess, NextSubmission, NextOpen,
     StepIsApproved, PTL DEF Spec, ImplementsApprovedWrite, Approved!Spec
=============================================================================
