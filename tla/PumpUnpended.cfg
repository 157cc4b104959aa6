SPECIFICATION Spec
CONSTANTS
  Kinds = {"any"}
  Ops = {"send", "sendmore"}
  HWM = 1
  MaxSends = 3
  MaxArrivals = 1
  MaxCalls = 0
  MayThrow = FALSE
  MayFail = FALSE
INVARIANTS PendingKept
CHECK_DEADLOCK FALSE
