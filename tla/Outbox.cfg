SPECIFICATION FairSpec
CONSTANTS
  r1 = r1
  r2 = r2
  shared = shared
  Event = {v1, v2}
  Relay = {r1, r2}
  IdOf <- MCSharedId
  Consumer = {c1, c2}
  Copies = 4
  MaxAttempts = 2
  MaxTrouble = 5
  EventCost = 2
  Nobody = Nobody
  NoEvent = NoEvent
INVARIANTS DuplicatesNeedAFault AckedWasHandled
PROPERTIES ImplementsEventDelivery RowsEndOnce EventsArrive
CHECK_DEADLOCK FALSE
