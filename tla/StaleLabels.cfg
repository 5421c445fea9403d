SPECIFICATION MCSpec
CONSTANTS
  Parts = {"input"}
  MaxDetError = 1
  MaxEdges = 2
  Points = {1, 2}
  Labels = {5, 6}
  MaxBuilds = 1
  Discards = {TRUE, FALSE}
  Values = {0, 1, 2}
  MaxLength = 2
  MaxIds = 2
  MaxSnapped = 3
  MaxChains = 3
  pt <- MCpt
  Starts <- MCStarts
  ExtraEdges <- MCExtraEdges
  MaxExtra = 2
  AllOptions <- MCAllOptions
  Shells <- MCShells
  LinePieces <- MCLinePieces
  PolygonPieces <- MCPolygonPieces
  PointPieces = {1, 4, 6}
  MaxPieces = 2
INVARIANT
  LabelsRecorded
CHECK_DEADLOCK FALSE
