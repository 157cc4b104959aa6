SPECIFICATION Spec
CONSTANTS
  Kinds = {"req"}
  Ops = {"send"}
  HWM = 1
  MaxSends = 2
  MaxArrivals = 1
  MaxCalls = 0
  MayThrow = FALSE
  MayFail = FALSE
INVARIANTS NoStuckWrite
CHECK_DEADLOCK FALSE
