SPECIFICATION KnowledgeSpec
CONSTANTS
  d1 = d1
  t1 = t1
  t2 = t2
  g1 = g1
  Document = {d1}
  Text = {t1, t2}
  Source <- OneSource
  Generation = {g1}
  NoGeneration = NoGeneration
  Operator = {}
  MaxEvents = 5
INVARIANTS
  IndexedIsWritten
CHECK_DEADLOCK FALSE
