SPECIFICATION FairSpec
CONSTANTS
  NumChunks = 3
  InitSsthresh = 64
  Unit = 4
  MaxWindow = 5
  MaxDupACK = 2
  ContextAfterFree = {"kept"}
PROPERTIES
  FileArrives
  EndsUnlessLastACKLost
