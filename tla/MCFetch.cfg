SPECIFICATION FairSpec
CONSTANTS
  Faults = TRUE
  MaxRuns = 3
INVARIANTS
  TypeOK
  NotFoundLeavesNothing
  TransferStartsRight
  FetchInv
PROPERTY FetchEnds
CHECK_DEADLOCK FALSE
