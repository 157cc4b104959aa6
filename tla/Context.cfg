SPECIFICATION FairSpec
CONSTANTS
  Contexts = {1, 2}
  Sockets = {1, 2}
  NoContext = 0
  DefaultMax = 4
  Limits = {1}
  MaxMonitors = 2
INVARIANTS TypeOK CollectorSparesUsed
PROPERTIES TermEnds ContextsFreed
CHECK_DEADLOCK FALSE
