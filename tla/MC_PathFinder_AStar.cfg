SPECIFICATION Spec
CONSTANTS
  Width = 4
  Height = 4
  SearchArea = 8
  FindNumbers = 65536
  StepNumbers = 65536
  MaxPathLen = 20
  MaxRequests = 1
  Lp64 = TRUE
  Maps <- AStarMaps
  Requests <- AStarRequests
INVARIANT
  AStarPathWalkable
CHECK_DEADLOCK FALSE
