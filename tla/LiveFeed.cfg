SPECIFICATION Spec
CONSTANTS
  Published = {"theirs", "start", "sample", "end", "void"}
  MaxSeq = 3
  MaxBatch = 1
  Capacity = 1
  MaxReplay = 1
  Retention = 2
  TrimEvery = 1
  HandshakeCommits = 1
  WireSize = 1
  MaxFaults = 2
INVARIANTS
  TypeOK
  NothingSkipped
  NothingMissedLive
  OnlyOwnAndStored
  LiveKeyIsCurrent
CHECK_DEADLOCK FALSE
