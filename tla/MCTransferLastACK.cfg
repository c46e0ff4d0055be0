SPECIFICATION FairSpec
CONSTANTS
  NumChunks = 1
  InitSsthresh = 64
  Unit = 4
  MaxWindow = 3
  MaxDupACK = 2
  ContextAfterFree = {"kept"}
PROPERTY
  SenderEnds
