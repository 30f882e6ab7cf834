SPECIFICATION Spec
CONSTANTS
  l1 = l1
  l2 = l2
  Link <- MCOneLink
  Chunks = 11
  WireLimit = 10
  LinksFail = FALSE
  Verbose = FALSE
  MaxSigint = 0
  WorkersKilled = FALSE
  Crashes = FALSE
  MaxSessions = 1
INVARIANT OkMeansData
