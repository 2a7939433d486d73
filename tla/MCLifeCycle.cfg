CONSTANTS
  Word = 16
  Granularity = 4
  RIO_MAX_CQ_SIZE = 7
  Files <- MCFiles
  Unset = Unset
  NoEquals = NoEquals
  NoValue = NoValue
  Garbage = {0, 3}
  MaxConnections = 2
CHECK_DEADLOCK FALSE
SPECIFICATION Spec
INVARIANTS TypeOK ServicesAsWritten SegmentsFit RunningComplete InitialReceivesPosted ShutdownInOrder
