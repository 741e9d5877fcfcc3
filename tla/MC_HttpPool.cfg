CONSTANTS
  kWorkerNum = 2
  Key <- MCKey
  MaxJobs = 3
SPECIFICATION FairSpec
INVARIANTS
  TypeOK
  NoLostWakeup
  BarriersHold
  OrderKept
  NothingLost
PROPERTIES
  ImplementsOrderedJobs
  JobsAnswered
CHECK_DEADLOCK FALSE
