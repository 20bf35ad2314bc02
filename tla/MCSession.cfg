CONSTANTS
  N = 4
  LengthDigits = 1
  RobotIDLens = {4}
  Clients = {c1, c2}
  BodyLengths <- ChunkedBodies
  Headless = {}
  MaxInFlight = 3
  MaxLoss = 0
  MaxSkip = 0
  MaxDup = 0
  MayFail = FALSE
  ClientFailures = {}
SPECIFICATION FairSpec
INVARIANTS
  TypeOK
  NoStaleResponses
  ServesCurrentPass
  AnswersCounted
  ArrivedIsHandled
  FilesFaithful
  OneCornerPerFile
  DoneMeansComplete
  ScreenshotAtRest
PROPERTIES
  EveryClientDone
