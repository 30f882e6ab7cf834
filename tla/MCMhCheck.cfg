SPECIFICATION Spec
CONSTANTS
  FileSizes = {0, 1, 2, 3, 4, 5, 6}
  ChunkSizes = {1, 2, 3, 4, 8}
INVARIANTS
  TypeOK
  CheckIsExact
  Aligned
CHECK_DEADLOCK FALSE
