CONSTANTS
  Messages <- PiecedMessages
  MaxPieces = 3
  TokenLen = 2
  MinCount = 1
  Escape = 3
  Base = 4
SPECIFICATION Spec
INVARIANTS
  RoundTrip
CHECK_DEADLOCK FALSE
