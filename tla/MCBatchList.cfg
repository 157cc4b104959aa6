SPECIFICATION MCSpec
CONSTANT MaxCalls = 5
INVARIANTS ListInv
PROPERTIES ImplementsOutbox
CHECK_DEADLOCK FALSE
