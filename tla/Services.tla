------------------------------ MODULE Services ------------------------------
(***************************************************************************)
(* The components around the run machinery that share no state with one    *)
(* another: a behaviour is one of one part, the others stand still.  What  *)
(* each part does is in its own module.                                    *)
(***************************************************************************)
EXTENDS MemoryLifecycleProps, KnowledgeIndexProps, RunAdmissionProps,
        McpTasksProps, ActionSlotProps, JevLedgerProps, ToolLedgerProps,
        EntitlementCacheProps

CONSTANT Parts    \* the parts to look at

AllParts == {"memory", "knowledge", "admission", "tasks", "slot", "budget", "tools", "grants"}
ASSUME PartsAreKnown == Parts \subseteq AllParts

VARIABLE part

servicesVars ==
    <<part, memoryVars, knowledgeVars, admissionVars, taskVars,
      slotVars, ledgerVars, toolVars, grantVars>>

ServicesInit ==
    /\ part \in Parts
    /\ IF part = "memory" THEN MemoryInit ELSE NothingRemembered /\ outcome = <<>>
    /\ IF part = "knowledge" THEN KnowledgeInit
       ELSE NothingIngested /\ supplied = <<>> /\ identity = NoGeneration
    /\ AdmissionInit
    /\ TaskInit
    /\ SlotInit
    /\ LedgerInit
    /\ ToolInit
    /\ GrantInit /\ (part = "grants" <=> ~NoGrants)

ServicesNext ==
    \/ /\ part = "memory" /\ MemoryNext
       /\ UNCHANGED <<part, knowledgeVars, admissionVars, taskVars,
                      slotVars, ledgerVars, toolVars, grantVars>>
    \/ /\ part = "knowledge" /\ KnowledgeNext
       /\ UNCHANGED <<part, memoryVars, admissionVars, taskVars,
                      slotVars, ledgerVars, toolVars, grantVars>>
    \/ /\ part = "admission" /\ AdmissionNext
       /\ UNCHANGED <<part, memoryVars, knowledgeVars, taskVars,
                      slotVars, ledgerVars, toolVars, grantVars>>
    \/ /\ part = "tasks" /\ TaskNext
       /\ UNCHANGED <<part, memoryVars, knowledgeVars, admissionVars,
                      slotVars, ledgerVars, toolVars, grantVars>>
    \/ /\ part = "slot" /\ SlotNext
       /\ UNCHANGED <<part, memoryVars, knowledgeVars, admissionVars,
                      taskVars, ledgerVars, toolVars, grantVars>>
    \/ /\ part = "budget" /\ LedgerNext
       /\ UNCHANGED <<part, memoryVars, knowledgeVars, admissionVars,
                      taskVars, slotVars, toolVars, grantVars>>
    \/ /\ part = "tools" /\ ToolNext
       /\ UNCHANGED <<part, memoryVars, knowledgeVars, admissionVars,
                      taskVars, slotVars, ledgerVars, grantVars>>
    \/ /\ part = "grants" /\ GrantNext
       /\ UNCHANGED <<part, memoryVars, knowledgeVars, admissionVars,
                      taskVars, slotVars, ledgerVars, toolVars>>

ServicesSpec == ServicesInit /\ [][ServicesNext]_servicesVars

(* Every part keeps its own type invariant. *)
ServicesTypeOK ==
    /\ part = "memory" => MemoryTypeOK
    /\ part = "knowledge" => KnowledgeTypeOK
    /\ AdmissionTypeOK /\ TaskTypeOK /\ SlotTypeOK /\ LedgerTypeOK /\ ToolTypeOK
    /\ GrantTypeOK
=============================================================================
