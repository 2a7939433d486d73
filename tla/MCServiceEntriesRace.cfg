CONSTANTS
  Threads = {t1, t2}
  NoThread = NoThread
  Buffers = {b1, b2}
  NoBuffer = NoBuffer
  Handles = {1, 2}
  MaxReceives = 1
  Bound <- MCBound
  Accepted = 2
  Messages = 0
  Errors = 0
CHECK_DEADLOCK FALSE
SPECIFICATION Spec
SYMMETRY Interchangeable
INVARIANT ListExclusive
