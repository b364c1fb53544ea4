CONSTANTS
  Ids = {i1, i2}
  Objs = {o1, o2, o3}
  NoObj = NoObj
  Timeout = 1
  Sleep = 1
  Stale = 3
  Nodes = 1
SPECIFICATION FairSpec
CHECK_DEADLOCK FALSE
INVARIANTS TypeOK OnlyInactiveSwept
PROPERTIES InactivePeerLeaves StopEnds
