SPECIFICATION FairClientSpec
CONSTANTS
  Fragments = 2
  AutoReconnect = TRUE
  ServerCloses = FALSE
  MaxStarts = 2
  MaxConnections = 2
  MaxFrames = 1
INVARIANTS
  WsTypeOK
  ConnectionsAreKeptApart
PROPERTIES
  NothingIsStuck
CHECK_DEADLOCK FALSE
