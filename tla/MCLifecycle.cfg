SPECIFICATION MCSpec
CONSTANTS
  Addr = {a1, a2}
  MaxCalls = 7
  IntBits = 2
  LongBits = 5
  SocketBits = 5
  Mantissa = 3
INVARIANTS TypeOK RefsMatch InUseIsOpen UsedApart EndpointsExact LiveAttached RightSize ReadsBack
PROPERTIES BusyEnds CollectedByMiscount
CHECK_DEADLOCK FALSE
