\* addEvent after delEvent of the same event.
CONSTANTS
  f1 = f1
  f2 = f2
  x = x
  y = y
  p1 = p1
  p2 = p2
  Nobody = Nobody
  Fd = {f1}
  Waiter = {x, y}
  Poller = {p1, p2}
  Flag = {"READ", "WRITE"}
  MayDelete = TRUE
  MayClose = FALSE
SPECIFICATION Spec
CHECK_DEADLOCK FALSE
INVARIANTS
  SlotEmptyAssertion
