CONSTANTS
  MaxCalls = 2
  Timeouts = {0, 1}
  BodyLengths <- Lengths
  MaxLoss = 1
  MaxDup = 1
SPECIFICATION FairLegacySpec
INVARIANTS
  LegacyTypeOK
  ReturnsOwnAnswer
  UndefinedOnlyIfLastFirst
  NoAlarmOutside
  LegacyInv
PROPERTIES
  EveryCallEnds
CHECK_DEADLOCK FALSE
