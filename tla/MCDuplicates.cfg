CONSTANTS
  N = 4
  LengthDigits = 1
  RobotIDLens = {4}
  Clients = {c1}
  BodyLengths <- ChunkedBodies
  Headless = {}
  MaxInFlight = 2
  MaxLoss = 0
  MaxSkip = 0
  MaxDup = 2
  MayFail = FALSE
  ClientFailures = {}
SPECIFICATION FairSpec
INVARIANTS
  TypeOK
  SupplyInv
PROPERTIES
  ShortOnlyByDuplicates
  EveryClientDone
