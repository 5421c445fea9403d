SPECIFICATION MCSpec
CONSTANTS
  Parts = {"table"}
  MaxLevel = 2
  NumFaces = 2
  NA = NA
  near = near
  far = far
  empty = empty
  Features = {near, far, empty}
  RegionOf <- MCRegionOf
  Missing = Missing
  Distances = {4}
  FeatureCells <- Tilings
  BufferCoverings <- Tilings
  Geographies <- MCGeographies
  Nil = Nil
  MaxX = 1
  MaxY = 2
  MatrixDistance = 1
  IndexCells <- Tilings
  Coverings <- Tilings
  MaxPairs = 3
  MaxMixed = 6
  MaxLong = 20
  Vectors <- United
  MaxRounds = 5
  Sizes = {3}
  MaxBuckets = 8
  StartingBuckets = 2
  MaxLooseUsed = 2
INVARIANTS
  NeverFull
CHECK_DEADLOCK FALSE
