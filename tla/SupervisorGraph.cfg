SPECIFICATION FairSpec
CONSTANTS
  Writes = {TRUE, FALSE}
  MaxParallel = 2
  MaxSteps = 20
  MaxReplans = 0
  MaxModelCalls = 18
  MaxToolCalls = 3
  MaxNarrowings = 1
  Tries = {1, 3}
  ModelUse = {1}
  ToolUse = {1}
INVARIANTS
  WritesRestOnAReview
  HandoffIsReady
  SuccessIsEarned
  BudgetsHold
PROPERTIES
  ImplementsRunOutline
  EveryRunEnds
CHECK_DEADLOCK FALSE
