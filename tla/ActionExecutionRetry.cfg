SPECIFICATION Spec
CONSTANTS
  e1 = e1
  e2 = e2
  p1 = p1
  p2 = p2
  Nobody = Nobody
  NoPost = NoPost
  Executor = {e1, e2}
  Post = {p1, p2}
  Modes = {"worker"}
  MaxFaults = 1
PROPERTIES
  RetryReconciles
CHECK_DEADLOCK FALSE
