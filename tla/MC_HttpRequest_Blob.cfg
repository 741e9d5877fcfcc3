CONSTANTS
  DefaultBuffSize = 3
  Contents <- MCContents
  Answers <- MCAnswers
  MaxJobs = 1
SPECIFICATION FairSpec
PROPERTY UseSizeIsContentLength
CHECK_DEADLOCK FALSE
