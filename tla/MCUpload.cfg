SPECIFICATION Spec
CONSTANTS
  l1 = l1
  l2 = l2
  Link <- MCLink
  Chunks = 2
  LinksFail = TRUE
  Verbose = FALSE
  MaxSigint = 0
  WorkersKilled = TRUE
  Crashes = FALSE
  MaxSessions = 1
  Scales = {1}
SYMMETRY MCSymmetry
INVARIANTS
  TypeOK
  OkIsSent
  UploadHasOwner
  
  FinishedIsAllOk
  UploadInv
PROPERTY OkIsKept
CHECK_DEADLOCK FALSE
