CONSTANTS
  MaxCSeq = 2
  LastCSeq <- LastCSeq22
SPECIFICATION Spec
INVARIANT OwnCSeq
CHECK_DEADLOCK FALSE
