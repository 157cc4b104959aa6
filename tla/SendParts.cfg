SPECIFICATION Spec
CONSTANTS
  MaxParts = 3
  MaxBatches = 3
  HWM = 1
INVARIANTS TypeOK WholeOrMerged NothingSentOfRestored WaitsAfterLossOnly
CHECK_DEADLOCK FALSE
