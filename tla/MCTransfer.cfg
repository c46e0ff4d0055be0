SPECIFICATION Spec
CONSTANTS
  NumChunks = 4
  InitSsthresh = 64
  Unit = 4
  MaxWindow = 7
  MaxDupACK = 2
  ContextAfterFree = {"kept", "crash"}
CHECK_DEADLOCK FALSE
INVARIANTS
  SomethingOutstanding
  PhaseMatchesWindow
  TypeOK
  LeftIsNextACK
  NoNegativeACK
  NothingForgotten
  BufferOnlyAhead
PROPERTY
  ImplementsFileTransfer
