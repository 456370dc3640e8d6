\* Two daemons and a launch in the terminal; processes are fair.
CONSTANTS
  l1 = l1
  l2 = l2
  l3 = l3
  Launch = {l1, l2, l3}
  AsDaemon = {l1, l2}
  MaxForks = 3
SPECIFICATION FairSpec
CHECK_DEADLOCK FALSE
INVARIANTS
  RestartInv
PROPERTIES
  CrashIsRestarted
  ExitEndsDaemon
