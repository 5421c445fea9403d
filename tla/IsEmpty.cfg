SPECIFICATION MCSpec
CONSTANTS
  Parts = {"operations"}
  MaxDetError = 1
  None = None
  Points <- MCCrosserPoints
  LawPoints <- MCLawPoints
  Radii <- MCRadii
  Partitions <- MCPartitions
  TestPoints <- MCTestPoints
  LoopPool <- MCLoopPool
  NestingProbes <- MCNestingProbes
  MaxLoops = 3
  Regions <- MCRegions
  Inputs <- MCInputs
  Models <- MCClosedPolylines
  Probes <- MCProbes
INVARIANT
  IsEmptyMeansEmpty
CHECK_DEADLOCK FALSE
