SPECIFICATION FairSpec
CONSTANTS
  l1 = l1
  l2 = l2
  Link <- MCOneLink
  Chunks = 2
  LinksFail = FALSE
  Verbose = TRUE
  MaxSigint = 2
  WorkersKilled = TRUE
  Crashes = TRUE
  MaxSessions = 2
  Scales = {1}
INVARIANTS
  OkIsSent
  UploadHasOwner
PROPERTIES
  UploadEnds
  UploadCompletes
CHECK_DEADLOCK FALSE
