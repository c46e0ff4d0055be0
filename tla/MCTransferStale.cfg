SPECIFICATION Spec
CONSTANTS
  NumChunks = 5
  InitSsthresh = 64
  Unit = 4
  MaxWindow = 7
  MaxDupACK = 2
  ContextAfterFree = {"stale"}
CHECK_DEADLOCK FALSE
INVARIANT
  WrittenSequentially
