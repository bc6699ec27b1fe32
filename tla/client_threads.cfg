CONSTANTS Tc = {tc1}
          App = {"main", "provider"}
SPECIFICATION FairSpec
INVARIANTS TypeOK NoneLeftBehind UnreportedIsOpen
PROPERTIES TimesOutPendingOnly EveryRequestReported
CHECK_DEADLOCK FALSE
