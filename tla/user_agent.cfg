CONSTANT MaxCalls = 4
SPECIFICATION Spec
INVARIANTS TypeOK IdleIsSilent ScreenShowsDialog HearsCurrentOnly
PROPERTY ReturnsListening
CHECK_DEADLOCK FALSE
