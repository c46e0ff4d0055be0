SPECIFICATION LoaderSpec
CONSTANTS
  CONTENT_SIZE = 3
  MaxBytes = 10
INVARIANTS
  PacketsAreBlocks
  OnlyLastIsEmpty
PROPERTY
  LoadsAllAndFIN
