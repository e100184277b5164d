CONSTANTS
  BO = {b1}
  Dword = {d1}
  Access <- WriteOrGtt
  MaxSpaceBos = 2
  MaxQueue = 2
  MaxPers = 1
  MaxBuf = 3
  MaxSent = 1
SPECIFICATION Spec
INVARIANTS
  TypeOK
  RelocNumExact
  SectionExact
  NothingLeftOver
  BatchObjectsListed
PROPERTIES
  OnlyFlushSubmits
  QueueKept
  KeepsPromise
CHECK_DEADLOCK FALSE
