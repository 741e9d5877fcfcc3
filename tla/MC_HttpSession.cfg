CONSTANTS
  Session <- MCTwo
  Responses <- MCResponses
  kRecvBufMaxSize = 2
SPECIFICATION FairSpec
INVARIANTS
  TypeOK
  CallbackIsTheContent
  OnlyOkIsCalledBack
PROPERTIES
  EverySessionEnds
  OkIsCalledBack
CHECK_DEADLOCK FALSE
