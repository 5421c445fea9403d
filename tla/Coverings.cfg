SPECIFICATION MCSpec
CONSTANTS
  MaxLevel = 3
  NumFaces = 2
  Regions <- MCRegions
  OptionSets <- MCOptions
  Vectors <- MCVectors
  LargeExcess = 12
  Points <- MCPoints
  OptimizeForSpace = {TRUE, FALSE}
  MaxDocuments = 1
INVARIANTS
  CoveringFits
  TermsFindCoverings
  CellIndexExact
CHECK_DEADLOCK FALSE
