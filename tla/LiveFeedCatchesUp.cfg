SPECIFICATION FairSpec
CONSTANTS
  Published = {"start", "sample", "void"}
  MaxSeq = 2
  MaxBatch = 2
  Capacity = 1
  MaxReplay = 2
  Retention = 3
  TrimEvery = 1
  HandshakeCommits = 1
  WireSize = 1
  MaxFaults = 3
PROPERTIES
  PageCatchesUp
CHECK_DEADLOCK FALSE
