SPECIFICATION FairSpec
CONSTANTS
  Inset = 1
  Local = local
  r = r
  s = s
  Remotes = {r, s}
  Layouts <- MCLayouts
  Reports <- MCReports
  EdgeMargin = 0
  Deltas <- MCDeltas
  MaxQueue = 2
  MaxMoves = 2
  MaxClicks = 1
  Sessions <- MCSessions
  MaxFaults = 2
INVARIANTS
  TypeOK
  ButtonsLand
PROPERTIES
  Implements
  PointerCatchesUp
CHECK_DEADLOCK FALSE
