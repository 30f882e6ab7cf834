SPECIFICATION RepairSpec
CONSTANTS
  l1 = l1
  l2 = l2
  Link <- MCLink
  Chunks = 2
  WireLimit = 1000000
  LinksFail = FALSE
  Verbose = FALSE
  MaxSigint = 0
  WorkersKilled = FALSE
  Crashes = FALSE
  MaxSessions = 2
  MaxOutages = 1
  WritesFail = TRUE
SYMMETRY MCSymmetry
INVARIANTS
  RepairTypeOK
  CheckedMeansData
  RepairedIsWhole
  RepairInv
