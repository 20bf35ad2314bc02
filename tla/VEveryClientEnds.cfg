CONSTANTS
  N = 4
  LengthDigits = 1
  RobotIDLens = {0}
  Clients = {c1}
  BodyLengths <- SmallBodies
  Headless = {}
  MaxInFlight = 2
  MaxLoss = 1
  MaxSkip = 0
  MaxDup = 0
  MayFail = FALSE
  ClientFailures = {}
SPECIFICATION FairSpec
PROPERTIES
  EveryClientEnds
CHECK_DEADLOCK FALSE
