SPECIFICATION Spec
CONSTANTS
  l1 = l1
  l2 = l2
  Link <- MCLink
  Chunks = 2
  WireLimit = 1000000
  LinksFail = TRUE
  Verbose = FALSE
  MaxSigint = 2
  WorkersKilled = FALSE
  Crashes = TRUE
  MaxSessions = 2
SYMMETRY MCSymmetry
INVARIANTS
  OkMeansData
  DownloadHasOwner
  IInv
