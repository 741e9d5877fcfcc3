CONSTANTS
  Service <- MCService
  Configs <- MCConfigs
  MaxChannels = 7
  MaxCreates = 2
  MaxEdits = 1
SPECIFICATION Spec
INVARIANTS
  TypeOK
  RingsApart
  RingsReady
  SameRing
  SlackHoldsAllChannels
PROPERTIES
  RingsStay
