SPECIFICATION Spec
CONSTANTS
  Kinds = {"any", "req", "rep"}
  Ops = {"send", "sendmore", "sendnone", "pause", "resume", "close", "read", "bind", "unbind"}
  HWM = 1
  MaxSends = 2
  MaxArrivals = 2
  MaxCalls = 2
  MayThrow = TRUE
  MayFail = TRUE
INVARIANTS TypeOK OneWriter OneReader LostReadExplained StuckWriteExplained
PROPERTIES StillUnlessReady SentToldTruly
CHECK_DEADLOCK FALSE
