CONSTANTS
  N = 4
  LengthDigits = 1
  RobotIDLens = {4}
  Clients = {c1}
  BodyLengths <- ImageOfTwo
  Headless = {}
  MaxInFlight = 2
  MaxLoss = 0
  MaxSkip = 0
  MaxDup = 0
  MayFail = FALSE
  ClientFailures = {}
  SocketLimits = {62}
  Second = 10
  WriteTimes = {0, 1}
  Duration <- Durations
  CutDurations <- WhatIsLeft
SPECIFICATION RobotSpec
INVARIANT
  MovesLongEnough
CHECK_DEADLOCK FALSE
