CONSTANTS
  Threads = {t1, t2, t3}
  BufferCount = 3
  BufferSize = 4
  Contexts = {7}
  NoBuffer = NoBuffer
SPECIFICATION FairSpec
INVARIANTS TypeOK PoolPartition FreeBuffersClean
PROPERTIES ImplementsPool LockReleased SomeCallReturns
