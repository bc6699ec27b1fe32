CONSTANTS MAX_ATTEMPTS = 1  MaxCalls = 3  MaxTransactions = 3
          Grants = {"long"}
SPECIFICATION FairSpec
INVARIANTS TypeOK OutcomePending RefreshScheduled
PROPERTY RegisteringEnds
CHECK_DEADLOCK FALSE
