CONSTANTS
  MaxLength = 9
  SizeLen = 2
  CheckLen = 1
  IntLimit = 128
  Lengths <- MCLengths
  Supplies <- MCSupplies
  GarbageSizes <- MCGarbageSizes
  MaxMsgs = 4
  MaxCrashes = 0
  MaxTakeovers = 1
SPECIFICATION TakeoverSpec
INVARIANTS
  PrefixFitsDespiteTakeover
CHECK_DEADLOCK FALSE
