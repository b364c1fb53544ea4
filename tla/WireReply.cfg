CONSTANTS
  Clients = {c1}
  MaxParts = 2
  MaxChunks = 2
  Window = 1
SPECIFICATION Spec
CHECK_DEADLOCK FALSE
PROPERTIES ReplyAccepted
