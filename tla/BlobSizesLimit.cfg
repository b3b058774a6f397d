SPECIFICATION Spec
CONSTANTS
  Lengths <- RealLengths
  ChunkSize = 3145728
  MaxSize = 1073741824
  MaxMessage = 4194304
INVARIANTS
  MaxSizeIsTheLimit
CHECK_DEADLOCK FALSE
