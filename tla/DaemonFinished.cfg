\* Two daemons and a launch in the terminal.
CONSTANTS
  l1 = l1
  l2 = l2
  l3 = l3
  Launch = {l1, l2, l3}
  AsDaemon = {l1, l2}
  MaxForks = 3
SPECIFICATION Spec
CHECK_DEADLOCK FALSE
INVARIANTS
  CrashMeansCrash
