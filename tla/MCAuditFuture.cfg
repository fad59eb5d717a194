\* A block past the latest is passed as --from-block.
SPECIFICATION FairSpec
CONSTANTS
  Latest = 1
  FromBlocks = {2, 3}
CHECK_DEADLOCK FALSE
PROPERTIES
  AuditEnds
