SPECIFICATION MCSpec
CONSTANTS
  Parts = {"laws", "crosser", "containment", "loops", "operations"}
  MaxDetError = 1
  None = None
  Points <- MCCrosserPoints
  LawPoints <- MCLawPoints
  Radii <- MCRadii
  Partitions <- MCPartitions
  TestPoints <- MCTestPoints
  LoopPool <- MCLoopPool
  NestingProbes <- MCNestingProbes
  MaxLoops = 3
  Regions <- MCRegions
  Inputs <- MCInputs
  Models <- MCModels
  Probes <- MCProbes
INVARIANTS
  PredicatesConsistent
  DistancesExact
  CrosserExact
  ContainmentExact
  NestingExact
  BooleanExact
  EmptyAgrees
CHECK_DEADLOCK FALSE
