SPECIFICATION Spec
CONSTANTS
  ConfirmReads = 2
  MissThreshold = 2
  Grace = 1
  StaleGap = 1
  MaxTime = 4
  MaxBatch = 2
  MaxFaults = 1
  MayFail = TRUE
INVARIANTS
  RetryIsSound
CHECK_DEADLOCK FALSE
