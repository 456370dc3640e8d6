\* Pools of one and of two threads, two fibers that sleep or wait for a descriptor, and
\* stop(); fair threads.
CONSTANTS
  w1 = w1
  w2 = w2
  f = f
  g = g
  Nothing = Nothing
  Worker = {w1, w2}
  Pools = {{w1}, {w1, w2}}
  Fibers = {f, g}
  MaxWait = 2
  MayStop = TRUE
SPECIFICATION FairSpec
INVARIANTS
  PlaceInv
  LoneThreadRunsFibers
PROPERTIES
  SleeperWakes
