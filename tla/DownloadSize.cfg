CONSTANTS
  Gets = {g1}
  Peers = {p1}
  Framed = {p1}
  Paths = {d1}
  a1 = a1
  a2 = a2
  b1 = b1
  Blocks = {a1, a2, b1}
  Files <- MCOneFile
  Hole = Hole
  NoOne = NoOne
  MaxShares = 0
SPECIFICATION Spec
CHECK_DEADLOCK FALSE
INVARIANTS SizeMatches
