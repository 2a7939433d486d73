CONSTANTS
  Threads = {t1, t2}
  Buffers = {b1, b2, b3, b4}
  MaxReceives = 3
  MaxSends = 1
  DequeueCount = 1
  MaxAccepts = 1
  Bound <- MCBound
  OtherPackets = 1
  FailedAccepts = 0
  RequestErrors = 1
  AllOfThem = 1
  Faults = 0
SPECIFICATION Spec
SYMMETRY Interchangeable
INVARIANTS TypeOK NotificationPending NotificationsBounded Ownership ReceiveCredit DropsBounded QuitToken
