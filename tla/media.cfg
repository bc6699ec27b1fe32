CONSTANTS
  MaxMedia = 2
  RecvOnly = {1}
SPECIFICATION FairSpec
INVARIANT TypeOK
PROPERTIES LauncherKept HangUpEnds HangUpSilences ReceiverEnds
