CONSTANTS
  Threads = {t1}
  Buffers = {b1, b2}
  MaxReceives = 1
  MaxSends = 1
  DequeueCount = 1
  MaxAccepts = 1
  Bound <- MCBound
  OtherPackets = 1
  FailedAccepts = 0
  RequestErrors = 0
  AllOfThem = 1
  Faults = 1
SPECIFICATION Spec
SYMMETRY Interchangeable
INVARIANT FreeSegmentsAreFree
