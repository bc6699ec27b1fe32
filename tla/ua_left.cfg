CONSTANT MaxCalls = 4
SPECIFICATION Spec
INVARIANT NoSessionLeftBehind
CHECK_DEADLOCK FALSE
