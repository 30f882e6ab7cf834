SPECIFICATION Spec
CONSTANTS
  l1 = l1
  l2 = l2
  Link <- MCOneLink
  Chunks = 2
  LinksFail = FALSE
  Verbose = FALSE
  MaxSigint = 0
  WorkersKilled = FALSE
  Crashes = TRUE
  MaxSessions = 2
  Scales = {1, 2}
INVARIANT OkIsSent
CHECK_DEADLOCK FALSE
