\* Two calls of up to five requests on a limit of four, every batch of them
\* taken, refused or cut off anywhere.
SPECIFICATION FairSpec
CONSTANTS
  MaxRequests = 5
  MaxCalls = 2
  BATCH_LIMIT = 4
CHECK_DEADLOCK FALSE
INVARIANTS
  EndsInAnOutcome
  CutOnlyWhenAlone
  NothingRefusedTwice
PROPERTIES
  CallEnds
