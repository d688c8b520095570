SPECIFICATION Spec
CONSTANTS
  Writes = {FALSE}
  MaxParallel = 2
  MaxSteps = 12
  MaxReplans = 1
  MaxModelCalls = 14
  MaxToolCalls = 4
  MaxNarrowings = 0
  Tries = {1}
  ModelUse = {1}
  ToolUse = {1}
INVARIANTS
  RevisedRunsDoNotCrash
CHECK_DEADLOCK FALSE
