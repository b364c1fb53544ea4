CONSTANTS
  doc = doc
  log = log
  topdoc = topdoc
  subdoc = subdoc
  toplog = toplog
  Places = {topdoc, subdoc, toplog}
  Names = {doc, log}
  Valid = {doc}
  NameOf <- MCNameOf
  Top <- MCTop
  b1 = b1
  b2 = b2
  b3 = b3
  Blocks = {b1, b2, b3}
  Versions <- MCVersions
  None = None
  Slash = TRUE
  MaxChanges = 2
SPECIFICATION FairSpec
CHECK_DEADLOCK FALSE
INVARIANTS TypeOK ListedAsSeen QuietScanComplete SentAsListed
PROPERTIES ScanEnds
