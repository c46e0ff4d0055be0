SPECIFICATION FairPushSpec
CONSTANTS
  Clients <- MCClients
  a = a
  b = b
  Main = main
  Contents <- MCContents
  MAXDATASIZE = 8
  MaxBroken = 1
  BACKLOG = 1
CHECK_DEADLOCK FALSE
INVARIANT
  PrintsWhatArrives
PROPERTY
  AllEnd
