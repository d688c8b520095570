SPECIFICATION ServicesSpec
CONSTANTS
  a1 = a1
  a2 = a2
  b1 = b1
  b2 = b2
  b3 = b3
  c1 = c1
  c2 = c2
  d1 = d1
  d2 = d2
  worker = worker
  Parts = {"memory", "knowledge", "admission", "tasks", "slot", "budget", "tools", "grants"}
  Session = {a1, a2}
  Run = {b1, b2}
  Ticket = {c1, c2}
  Procedure = Procedure
  Content = {d1, d2}
  Confident = {TRUE}
  Nobody = Nobody
  MaxRequests = 4
  Document = {b1, b2}
  Text = {d1, d2}
  Source <- EachASource
  Generation = {c1, c2}
  NoGeneration = NoGeneration
  Operator = {worker}
  MaxEvents = 4
  Client = {a1, a2}
  Key = {b3}
  Delivery = {worker}
  NoKey = NoKey
  Goal = {d1, d2}
  QueueLimit = 1
  Unlocked = Unlocked
  MaxSubmissions = 4
  Replica = {a1, a2}
  RequestId = {b3}
  Poller = {worker}
  MaxTasks = 2
  Approver = {a1, a2}
  Replayer = worker
  Hash = {d1, d2}
  NoAction = NoAction
  Vacant = Vacant
  MaxGrant = 2
  MaxMishaps = 4
  Router = {a1, a2}
  NoRouter = NoRouter
  Reservation = {2, 4}
  Budget = 3
  PerMinute = 1
  Days = 2
  MaxCalls = 2
  MaxLosses = 1
  Caller = {a1, a2, worker}
  ToolRequest = {b1, b2}
  Argument = {d1, d2}
  NoArgument = NoArgument
  Capacity = 1
  Slots = 2
  MaxToolCalls = 4
  Asker = {a1, a2}
  Extent = {d1}
  Role = {c1, c2}
  Window = 2
  MaxTicks = 3
  MaxRegrants = 3
INVARIANTS
  VersionsCount
  AdmissionHolds
  RetriesFindTheRun
  DecisionNamesItsAction
  SpendStaysInBudget
  DuplicatesAreSuppressed
PROPERTIES
  ImplementsSubmissionQueue
  EndedStaysEnded
  RevocationReachesAll
  ServedStillStands
  ServedIsInForce
  PublishedIsWhole
  TasksEndOnce
  RevocationIsSeen
SYMMETRY Symmetry
CHECK_DEADLOCK FALSE
