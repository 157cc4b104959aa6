SPECIFICATION Spec
CONSTANTS
  Kinds = {"any"}
  Ops = {}
  HWM = 1
  MaxSends = 0
  MaxArrivals = 1
  MaxCalls = 0
  MayThrow = TRUE
  MayFail = FALSE
INVARIANTS ReaderNotBlocked
CHECK_DEADLOCK FALSE
