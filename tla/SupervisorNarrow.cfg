SPECIFICATION FairSpec
CONSTANTS
  Writes = {FALSE}
  MaxParallel = 2
  MaxSteps = 12
  MaxReplans = 0
  MaxModelCalls = 14
  MaxToolCalls = 4
  MaxNarrowings = 1
  Tries = {1}
  ModelUse = {1}
  ToolUse = {1}
PROPERTIES
  NarrowedRunsRederive
CHECK_DEADLOCK FALSE
