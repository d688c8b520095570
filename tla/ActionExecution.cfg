SPECIFICATION FairSpec
CONSTANTS
  e1 = e1
  e2 = e2
  p1 = p1
  p2 = p2
  Nobody = Nobody
  NoPost = NoPost
  Executor = {e1, e2}
  Post = {p1, p2}
  Modes = {"worker", "in_process"}
  MaxFaults = 2
INVARIANTS
  OneWrite
  SuccessIsReal
PROPERTIES
  ImplementsApprovedWrite
  NoWriteAfterTheEnd
  ExecutionEnds
CHECK_DEADLOCK FALSE
