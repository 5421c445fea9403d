SPECIFICATION Spec
CONSTANTS
  Threads = {t1, t2}
  NoThread = NoThread
  MaxShapes = 2
  MemoryLimited = TRUE
INVARIANT RefusedIndexDiscarded
