SPECIFICATION FairSpec
CONSTANTS
  Kinds = {"any", "req", "rep"}
  Ops = {"send", "sendmore", "sendnone", "pause", "resume", "read", "close", "bind", "unbind"}
  HWM = 1
  MaxSends = 3
  MaxArrivals = 2
  MaxCalls = 2
  MayThrow = FALSE
  MayFail = FALSE
INVARIANTS NoLostRead SettledInOrder
PROPERTIES MessagesGetIn MessagesGetOut
CHECK_DEADLOCK FALSE
