CONSTANTS
  N = 4
  LengthDigits = 1
  RobotIDLens = {0}
  Clients = {c1}
  BodyLengths <- SomeEmptyBodies
  Headless = {}
  MaxInFlight = 2
  MaxLoss = 0
  MaxSkip = 0
  MaxDup = 0
  MayFail = FALSE
  ClientFailures = {}
SPECIFICATION Spec
INVARIANTS
  ArrivedIsHandled
