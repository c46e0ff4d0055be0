SPECIFICATION FairSpec
CONSTANTS
  Clients <- MCClients
  a = a
  b = b
  Main = main
  HeaderLen = 2
  Files <- MCFiles
  MaxBroken = 1
  BlockSize = 2
  BACKLOG = 1
CHECK_DEADLOCK FALSE
INVARIANTS
  HTTPTypeOK
  NoSocketLeaks
  OnlyMainServes
  DeadChildrenAnnounced
PROPERTIES
  ImplementsDownload
  AllEnd
