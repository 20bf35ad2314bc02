CONSTANTS
  N = 4
  LengthDigits = 1
  RobotIDLens = {4}
  Clients = {c1, c2}
  BodyLengths <- ImageOfTwo
  Headless = {34}
  MaxInFlight = 2
  MaxLoss = 0
  MaxSkip = 1
  MaxDup = 0
  MayFail = TRUE
  ClientFailures = {}
  SocketLimits = {123, 124}
  Second = 10
  WriteTimes = {0, 1}
  Duration <- Durations
  CutDurations <- WhatIsLeft
SPECIFICATION FairRobotSpec
INVARIANTS
  RobotTypeOK
  RobotInv
  SocketPerCommand
  DescriptorsSuffice
  SocketInv
  EvidentInv
  MotionTimeBound
PROPERTIES
  DoneUnlessDown
  ImplementsSession
CHECK_DEADLOCK FALSE
