CONSTANTS
  Signals = {SIGINT, SIGTERM}
  Sockets = {c1, c2}
SPECIFICATION FairSpec
CHECK_DEADLOCK FALSE
INVARIANTS TypeOK JoinedBeforeFreed DescriptorsAccounted
PROPERTIES QuitEnds SignalEnds
