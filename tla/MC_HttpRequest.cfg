CONSTANTS
  DefaultBuffSize = 3
  Contents <- MCContents
  Answers <- MCAnswers
  MaxJobs = 3
SPECIFICATION FairSpec
INVARIANTS
  TypeOK
  TrueMeansThisAnswer
  PostIsOneContent
PROPERTY FittingAnswersReturn
CHECK_DEADLOCK FALSE
