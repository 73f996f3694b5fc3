SPECIFICATION FairSpec
CONSTANTS
  Wakers = {w1, w2}
  Slow = FALSE
  OpenFails = FALSE
  Signals = TRUE
  Freezer = TRUE
  MaxSuspend = 0
INVARIANTS
  WakeupIsKept
PROPERTIES
  WakeupReturns
CHECK_DEADLOCK FALSE
