CONSTANTS
  MaxCSeq = 2
  LastCSeq <- LastCSeq22
SPECIFICATION FairSpec
INVARIANTS TypeOK OneAnswer WaitingIsWatched AnswersLastInvite ListenerFollowsStatus
PROPERTIES RemoteCSeqGrows KeepsPromise FollowsSteps AckAwaitedEnds ByeEnds
CHECK_DEADLOCK FALSE
