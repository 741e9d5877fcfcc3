SPECIFICATION Spec
CONSTANTS
  Width = 4
  Height = 4
  SearchArea = 6
  FindNumbers = 65536
  StepNumbers = 65536
  MaxPathLen = 20
  MaxRequests = 2
  Lp64 = TRUE
  Maps <- MCMaps
  Requests <- MCRequests
INVARIANTS
  TypeOK
  AStarParentsDescend
  AStarMissesNothing
  AStarKeepsNearest
  DirectionAsserted
  ParentlessIsStartOrBlocked
  PathJoined
  FoundBesideTarget
PROPERTY
  FindPathReturns
CHECK_DEADLOCK FALSE
