SPECIFICATION Spec
CONSTANTS
  Faults = TRUE
  MaxRuns = 2
INVARIANT NothingOkYet
CHECK_DEADLOCK FALSE
