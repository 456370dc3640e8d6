\* Two pool threads and the caller's own (use_call); a callback that waits for wakers,
\* and a fiber that does not; fair threads.
CONSTANTS
  w1 = w1
  w2 = w2
  w3 = w3
  a = a
  b = b
  NoThread = NoThread
  NoTask = NoTask
  Worker = {w1, w2, w3}
  Root = w3
  Task = {a, b}
  Callback = {a}
  Suspending = {a}
  MaxYield = 1
  MayStop = TRUE
SPECIFICATION FairSpec
INVARIANTS
  FiberAssertions
  OneOwner
  OneWayBack
  DrainedAtStop
  IInv
PROPERTIES
  ImplementsTaskLife
  IdleEndsWhenQuiet
  StopReturns
  QueuedIsTaken
