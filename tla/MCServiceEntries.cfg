CONSTANTS
  Threads = {t1, t2}
  NoThread = NoThread
  Buffers = {b1, b2, b3}
  NoBuffer = NoBuffer
  Handles = {1, 2}
  MaxReceives = 1
  Bound <- MCBound
  Accepted = 3
  Messages = 2
  Errors = 1
CHECK_DEADLOCK FALSE
SPECIFICATION Spec
SYMMETRY Interchangeable
INVARIANTS TypeOK BuffersConserved ListMatchesSockets ClosedOnce StuckHoldsNothing
