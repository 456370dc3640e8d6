\* Two timers; racing pollers, a clock that is set back, prompt threads with signals.
CONSTANTS
  t1 = t1
  t2 = t2
  p1 = p1
  p2 = p2
  Timer = {t1, t2}
  Poller = {p1, p2}
  Settings <- MCSettings
  MAX_TIMEOUT = 2
  Hour = 1
  IntBits = 4
  MaxClock = 6
SPECIFICATION Spec
SYMMETRY Symmetry
CHECK_DEADLOCK FALSE
INVARIANTS
  TimerSetInv
  OneShotOnce
  BoundedLateness
PROPERTIES
  CancelIsFinal
  NeverEarly
