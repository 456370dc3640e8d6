\* Two addresses; the accept worker has one thread or several.
CONSTANTS
  a1 = a1
  a2 = a2
  Addr = {a1, a2}
  NewVector = TRUE
  MaxTaken = 2
  MaxClients = 3
SPECIFICATION FairSpec
CHECK_DEADLOCK FALSE
INVARIANTS
  SocketInv
  OneLateClient
PROPERTIES
  StopEnds
  BindSucceeds
