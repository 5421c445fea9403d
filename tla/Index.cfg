SPECIFICATION QueriesSpec
CONSTANTS
  Threads = {t1, t2, t3}
  NoThread = NoThread
  MaxShapes = 3
  MemoryLimited = FALSE
  MaxLevel = 2
  NumFaces = 2
  kFinalBytesPerEdge = 1
  kTmpBytesPerEdge = 4
  TmpMemoryBudget = 8
  kMaxBatches = 5
  ShapeIdBegin = 2
  QueuedShapes = 3
  MaxEdges = 9
  MaxRemoved = 5
  NoShape = NoShape
  Pairs <- MCPairs
  Targets <- MCTargets
  Tolerances = {1, 5}
  kEdgeQueryMinEdges = 3
  kMaxBruteForceEdges = 3
  kMaxCrossProduct = 25
  Operands <- MCOperands
INVARIANTS
  TypeOK
  UpdateStateLifetime
  WaitersServed
  ReadersSeeLiveShapes
  BatchesExact
  IndexCellsExact
  UnionExact
  JoinsExact
  NearJoinedOnce
  ClosestFound
PROPERTIES
  ReadersUndisturbed
  ImplementsContract
CHECK_DEADLOCK FALSE
