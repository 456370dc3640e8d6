\* Two hooked threads and one that is not; number 2 lies beyond the first size.
CONSTANTS
  t1 = t1
  t2 = t2
  t3 = t3
  Fd = {1, 2}
  Thread = {t1, t2, t3}
  Hooked = {t1, t2}
  StartSize = 2
  MaxGen = 3
SPECIFICATION Spec
CHECK_DEADLOCK FALSE
INVARIANTS
  TableInv
  CtxIsFresh
  NonblockInKernel
  UserFlagKept
