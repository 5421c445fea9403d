SPECIFICATION FairSpec
CONSTANTS
  Threads = {t1, t2, t3}
  NoThread = NoThread
  MaxShapes = 3
  MemoryLimited = TRUE
INVARIANTS
  SyncInv
  ContentsInv
PROPERTIES
  QueryReturns
