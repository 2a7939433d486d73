CONSTANTS
  Threads = {t1}
  Buffers = {b1, b2}
  MaxReceives = 1
  MaxSends = 1
  DequeueCount = 1
  MaxAccepts = 1
  Bound <- MCBound
  OtherPackets = 0
  FailedAccepts = 0
  RequestErrors = 0
  AllOfThem = 0
  Faults = 0
SPECIFICATION Spec
SYMMETRY Interchangeable
INVARIANT ReceivesFindBuffers
