SPECIFICATION Spec
CONSTANTS
  l1 = l1
  l2 = l2
  Link <- MCLink
  Chunks = 3
  WireLimit = 1000000
  LinksFail = TRUE
  Verbose = FALSE
  MaxSigint = 1
  WorkersKilled = TRUE
  Crashes = FALSE
  MaxSessions = 1
SYMMETRY MCSymmetry
INVARIANTS
  TypeOK
  ExclusiveClaim
  NothingForgotten
  InterruptIsClean
PROPERTIES
  OkIsKept
  LedgerSpec
