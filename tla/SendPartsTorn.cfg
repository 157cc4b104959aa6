SPECIFICATION Spec
CONSTANTS
  MaxParts = 2
  MaxBatches = 2
  HWM = 1
INVARIANT SentAsOneUnit
CHECK_DEADLOCK FALSE
