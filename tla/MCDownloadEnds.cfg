SPECIFICATION FairSpec
CONSTANTS
  l1 = l1
  l2 = l2
  Link <- MCLink
  Chunks = 2
  WireLimit = 1000000
  LinksFail = TRUE
  Verbose = TRUE
  MaxSigint = 2
  WorkersKilled = TRUE
  Crashes = FALSE
  MaxSessions = 1
PROPERTIES
  SessionEnds
  TransferCompletes
