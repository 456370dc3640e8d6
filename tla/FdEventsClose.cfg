\* An event is added between cancelAll and close_f of close().
CONSTANTS
  f1 = f1
  f2 = f2
  x = x
  y = y
  p1 = p1
  p2 = p2
  Nobody = Nobody
  Fd = {f1}
  Waiter = {x, y}
  Poller = {p1, p2}
  Flag = {"READ", "WRITE"}
  MayDelete = FALSE
  MayClose = TRUE
SPECIFICATION Spec
CHECK_DEADLOCK FALSE
INVARIANTS
  NotRegisteredAssertion
