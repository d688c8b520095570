---------------------------- MODULE ApprovedWrite ----------------------------
(***************************************************************************)
(* An approved write as whoever approved it sees it: what GLPI was asked   *)
(* for, what is there, what is recorded of it and how the run ended.  No   *)
(* executors, locks, attempts, intents or checkpoints.  Nothing is asked   *)
(* for once the run is cancelled, and nothing is recorded that is not      *)
(* there.  Under a guard that lets in one executor at a time one thing is  *)
(* asked for, while the run is open, and the run ends once.                *)
(***************************************************************************)

CONSTANTS Request

VARIABLES
  guarded,
  asked,       \* requests sent to GLPI
  there,       \* those that became followups of the ticket
  confirmed,   \* the write is recorded as done
  status       \* of the run

writeVars == <<guarded, asked, there, confirmed, status>>

Init ==
  /\ guarded \in BOOLEAN
  /\ asked = {} /\ there = {}
  /\ confirmed = FALSE
  /\ status = "running"

Ask ==
  /\ status # "cancelled"
  /\ guarded => asked = {} /\ status = "running"
  /\ \E r \in Request \ asked : asked' = asked \cup {r}
  /\ UNCHANGED <<guarded, there, confirmed, status>>

(* However late, and whoever waits for it. *)
Arrive ==
  /\ \E r \in asked \ there : there' = there \cup {r}
  /\ UNCHANGED <<guarded, asked, confirmed, status>>

Confirm ==
  /\ there # {}
  /\ confirmed' = TRUE
  /\ UNCHANGED <<guarded, asked, there, status>>

End ==
  /\ status # "cancelled"
  /\ guarded => status = "running"
  /\ \/ status' = "failed"
     \/ confirmed /\ status' = "succeeded"
  /\ UNCHANGED <<guarded, asked, there, confirmed>>

Cancel ==
  /\ status = "running"
  /\ status' = "cancelled"
  /\ UNCHANGED <<guarded, asked, there, confirmed>>

Next == Ask \/ Arrive \/ Confirm \/ End \/ Cancel

Spec == Init /\ [][Next]_writeVars
=============================================================================
