CONSTANTS
  DefaultBuffSize = 3
  Contents <- MCContents
  Answers <- MCAnswers
  MaxJobs = 2
SPECIFICATION FairSpec
INVARIANT NoContentNoPost
CHECK_DEADLOCK FALSE
