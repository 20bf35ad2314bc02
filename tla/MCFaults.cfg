CONSTANTS
  N = 4
  LengthDigits = 1
  RobotIDLens = {4, 5}
  Clients = {c1}
  BodyLengths <- ChunkedBodies
  Headless <- NoImages
  MaxInFlight = 2
  MaxLoss = 1
  MaxSkip = 1
  MaxDup = 0
  MayFail = TRUE
  ClientFailures = {"send", "GPS"}
SPECIFICATION Spec
INVARIANTS
  SessionInv
  ServesCurrentPass
  AnswersCounted
  FilesFaithful
  DoneMeansComplete
  FilesInv
PROPERTIES
  TracesPolygons
CHECK_DEADLOCK FALSE
