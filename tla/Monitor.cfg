SPECIFICATION FairSpec
CONSTANTS
  Limits = {0, 1, 2}
  MaxEvents = 3
  MaxCalls = 3
  MayFail = TRUE
INVARIANTS TypeOK TimerRuns NothingLeft ErrorExplained
PROPERTIES EventsRead
CHECK_DEADLOCK FALSE
