\* A fiber that sleeps twice while stop() is called on a pool of two threads.
CONSTANTS
  w1 = w1
  w2 = w2
  f = f
  g = g
  Nothing = Nothing
  Worker = {w1, w2}
  Pools = {{w1, w2}}
  Fibers = {f}
  MaxWait = 2
  MayStop = TRUE
SPECIFICATION Spec
INVARIANTS
  StopRunsFibers
