CONSTANTS
  kWorkerNum = 2
  Key <- MCKey
  MaxJobs = 1
SPECIFICATION FairSpec
PROPERTY CloseEnds
CHECK_DEADLOCK FALSE
