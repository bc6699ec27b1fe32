CONSTANTS MAX_ATTEMPTS = 1  MaxCalls = 2  MaxTransactions = 3
          Grants = {"long"}
SPECIFICATION Spec
INVARIANT RegisteredIsBound
CHECK_DEADLOCK FALSE
