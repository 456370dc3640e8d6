\* Two fibers use a descriptor in turn; fair scheduler and timers, any peer.
CONSTANTS
  f = f
  g = g
  Fiber = {f, g}
  Nobody = Nobody
  MaxCalls = 2
  MaxTimers = 6
  MaxSent = 1
SPECIFICATION FairSpec
CHECK_DEADLOCK FALSE
INVARIANTS
  WaitInv
PROPERTIES
  OwnTimeout
  TimeoutReturns
