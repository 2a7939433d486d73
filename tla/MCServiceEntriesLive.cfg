CONSTANTS
  Threads = {t1, t2}
  NoThread = NoThread
  Buffers = {b1, b2}
  NoBuffer = NoBuffer
  Handles = {1, 2}
  MaxReceives = 1
  Bound <- MCBound
  Accepted = 2
  Messages = 1
  Errors = 1
CHECK_DEADLOCK FALSE
SPECIFICATION FairSpec
PROPERTY SendsAndClosesReturn
