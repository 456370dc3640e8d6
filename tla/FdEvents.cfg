\* One descriptor with hang-ups, delEvent and close(); fair pollers.
CONSTANTS
  f1 = f1
  f2 = f2
  x = x
  y = y
  p1 = p1
  p2 = p2
  Nobody = Nobody
  Fd = {f1}
  Waiter = {x, y}
  Poller = {p1, p2}
  Flag = {"READ", "WRITE", "HUP"}
  MayDelete = TRUE
  MayClose = TRUE
SPECIFICATION FairSpec
CHECK_DEADLOCK FALSE
INVARIANTS
  RegistrationInv
  WaiterInSlot
PROPERTIES
  ReadyIsDelivered
