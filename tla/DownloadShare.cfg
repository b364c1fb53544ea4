CONSTANTS
  Gets = {g1}
  Peers = {p1, p2}
  Framed = {p1}
  Paths = {d1}
  a1 = a1
  a2 = a2
  b1 = b1
  Blocks = {a1, a2, b1}
  Files <- MCFiles
  Hole = Hole
  NoOne = NoOne
  MaxShares = 2
SPECIFICATION FairSpec
CHECK_DEADLOCK FALSE
INVARIANTS SnapshotIfClean
PROPERTIES ImplementsDelivery GetEnds
