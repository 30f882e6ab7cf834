SPECIFICATION FairSpec
CONSTANTS
  Client = {a, b}
  Tool = {t}
  Signalled = {a}
  Chunks = 2
INVARIANTS
  TypeOK
  OkMeansData
  MarkedIsAccounted
  SharedIsWhole
  SharingInv
PROPERTY EveryClientEnds
CHECK_DEADLOCK FALSE
