CONSTANTS
  Thread = {t1, t2, t3}
  Iter = 5
  Period = 2
  RandKey = {1, 2, 3, 4, 5}
  Rand <- MCRand
  None = None
SPECIFICATION FairSpec
INVARIANTS NeverExits MissingIsPending LeavesOnlyZero
PROPERTY Finishes
CHECK_DEADLOCK FALSE
