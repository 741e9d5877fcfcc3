CONSTANTS
  IntLimit = 512
  MinCoord <- MCMinCoord
  MaxCoord = 7
  Starts <- MCStarts
SPECIFICATION Spec
INVARIANTS
  OnSegmentIsNear
  MoveFollowsSegment
CHECK_DEADLOCK FALSE
