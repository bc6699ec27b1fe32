CONSTANTS Tc = {tc1, tc2}
          App = {"main"}
SPECIFICATION FairSpec
PROPERTY TimerFires
CHECK_DEADLOCK FALSE
