SPECIFICATION Spec
CONSTANTS
  MaxSeq = 4
  BatchSize = 2
  WalkLimit = 3
  GapWriteOff = TRUE
  TornReplies = TRUE
  MaxFaults = 3
  MaxLate = 1
INVARIANTS
  NothingLost
  ExactlyOnce
PROPERTIES
  ImplementsStream
CHECK_DEADLOCK FALSE
