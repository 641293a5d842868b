SPECIFICATION Spec
CONSTANTS
  Published = {"start", "sample"}
  MaxSeq = 3
  MaxBatch = 2
  Capacity = 4
  MaxReplay = 4
  Retention = 8
  TrimEvery = 4
  HandshakeCommits = 4
  WireSize = 1
  MaxFaults = 1
INVARIANTS
  KnowsWhereItIs
CHECK_DEADLOCK FALSE
