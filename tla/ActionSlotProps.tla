--------------------------- MODULE ActionSlotProps ---------------------------
(* What an approver may rely on, while actions are withdrawn and replaced. *)
EXTENDS ActionSlot

SlotTypeOK ==
    /\ held \in 0..MaxGrant /\ scope \in 0..MaxGrant
    /\ node \in {"derive", "action", "ask", "execute", "finalize"}
    /\ proposal \in {NoAction} \cup [hash : Hash] \cup [id : 1..nextId, hash : Hash]
    /\ slot \in {NoAction} \cup [id : 1..nextId, hash : Hash, status : RowStatus]
    /\ decided \subseteq [id : 1..nextId, shown : Hash, decision : {"approved", "rejected"}]
    /\ status \in {"running", "waiting", "ended", "failed"}
    /\ guard \in Actor \cup {Vacant}
    /\ mishaps \in 0..MaxMishaps

(* A decision speaks of the action its approver was shown: what reaches    *)
(* the executor was approved under that very id and hash, a run is decided *)
(* once, and what the run asks about, or goes on to execute, is the row it *)
(* has, over withdrawals, replacements, crashes and replays.               *)
DecisionNamesItsAction ==
    /\ \A a \in executed : [id |-> a.id, shown |-> a.hash, decision |-> "approved"] \in decided
    /\ Cardinality(decided) <= 1
    /\ node \in {"ask", "execute"} =>
         HasIntent /\ slot.id = proposal.id /\ slot.hash = proposal.hash

(* "the action the approver was shown must stop being an action anyone can *)
(* approve, which is a property of the row" (orchestration/runtime.py:358). *)
(* The code does not keep this: record_approval looks at the run's status, *)
(* not at the row's, so a withdrawn row is decided like a proposed one.    *)
WithdrawnIsNotDecided ==
    [][slot # NoAction /\ slot.status = "withdrawn" /\ slot'.id = slot.id =>
         slot'.status = "withdrawn"]_slotVars
=============================================================================
