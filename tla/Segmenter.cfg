SPECIFICATION Spec
CONSTANTS
  ConfirmReads = 2
  MissThreshold = 2
  Grace = 1
  StaleGap = 1
  MaxTime = 5
  MaxBatch = 2
  MaxFaults = 2
  MayFail = TRUE
INVARIANTS
  TypeOK
  ReadingsInside
  NotStretched
  LivesInOrder
  MemoryAgrees
CHECK_DEADLOCK FALSE
