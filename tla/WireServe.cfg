CONSTANTS
  Clients = {c1, c2}
  MaxParts = 2
  MaxChunks = 1
  Window = 1
SPECIFICATION FairSpec
CHECK_DEADLOCK FALSE
INVARIANTS TypeOK NoStrandedInput DispatchedIsSent
PROPERTIES ClientReturns ServerMovesOn Attended
