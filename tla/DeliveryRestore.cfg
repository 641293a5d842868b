SPECIFICATION RestoreFairSpec
CONSTANTS
  MaxSeq = 4
  BatchSize = 2
  WalkLimit = 3
  GapWriteOff = TRUE
  TornReplies = FALSE
  MaxFaults = 2
  MaxLate = 1
INVARIANTS
  ForgottenWasStored
  CursorHonest
  CursorNotWedged
PROPERTIES
  OutboxDrains
  AnnouncesItself
