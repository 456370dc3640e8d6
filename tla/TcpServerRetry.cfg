\* The owner passes the same vector to every bind.
CONSTANTS
  a1 = a1
  a2 = a2
  Addr = {a1, a2}
  NewVector = FALSE
  MaxTaken = 2
  MaxClients = 3
SPECIFICATION FairSpec
CHECK_DEADLOCK FALSE
PROPERTIES
  BindSucceeds
