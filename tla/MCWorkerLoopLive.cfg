CONSTANTS
  Threads = {t1, t2}
  Buffers = {b1, b2}
  MaxReceives = 1
  MaxSends = 1
  DequeueCount = 1
  MaxAccepts = 1
  Bound <- MCBound
  OtherPackets = 1
  FailedAccepts = 1
  RequestErrors = 0
  AllOfThem = 2
  Faults = 0
SPECIFICATION FairSpec
PROPERTIES CompletionsServed QuitReachesAll
