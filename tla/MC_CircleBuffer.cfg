CONSTANTS
  MaxLength = 7
  SizeLen = 2
  CheckLen = 1
  IntLimit = 128
  Lengths <- MCLengths
  Supplies <- MCSupplies
  GarbageSizes <- MCGarbageSizes
  MaxMsgs = 4
  MaxCrashes = 1
SPECIFICATION FairSpec
INVARIANTS
  TypeOK
  RingHoldsQueue
  EmptyIsExact
  WriterStaysInItsRoom
  ReaderAssertionsHold
PROPERTIES
  ImplementsChannel
  MessagesLeave
CHECK_DEADLOCK FALSE
