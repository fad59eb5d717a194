\* Five blocks, every deployment block and every set of held blocks.
SPECIFICATION FairSpec
CONSTANTS
  Latest = 4
  FromBlocks = {1, 3}
CHECK_DEADLOCK FALSE
INVARIANTS
  ScanInv
  EveryBlockIsAccountedFor
  NoLogTwice
  MissingIsLacking
PROPERTIES
  AuditEnds
