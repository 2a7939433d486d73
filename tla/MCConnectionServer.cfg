CONSTANTS
  Threads = {t1, t2}
  NoThread = NoThread
  Handles = {1, 2}
  Segments = 3
  MaxReceives = 2
  MaxAccepts = 1
  DequeueCount = 2
  Bound <- MCBound
  Clients = 2
  Arrivals = 2
  Errors = 1
  Both = 3
CHECK_DEADLOCK FALSE
SPECIFICATION FairSpec
INVARIANTS TypeOK SegmentsAccounted ReceivesKept SentInOrder
PROPERTIES ImplementsRelay MessagesSettled ClosedConnectionsDrain
