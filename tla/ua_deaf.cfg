CONSTANT MaxCalls = 4
SPECIFICATION Spec
INVARIANT IdleListens
CHECK_DEADLOCK FALSE
