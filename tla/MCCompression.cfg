CONSTANTS
  Messages <- PiecedMessages
  MaxPieces = 5
  TokenLen = 2
  MinCount = 1
  Escape = 3
  Base = 4
SPECIFICATION Spec
INVARIANTS
  RunLengthsExact
  CompressionInv
  RoundTripBeforeTheEnd
  NothingLost
CHECK_DEADLOCK FALSE
