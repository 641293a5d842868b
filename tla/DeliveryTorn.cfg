SPECIFICATION Spec
CONSTANTS
  MaxSeq = 3
  BatchSize = 2
  WalkLimit = 2
  GapWriteOff = TRUE
  TornReplies = TRUE
  MaxFaults = 2
  MaxLate = 1
INVARIANTS
  NeverRaises
