SPECIFICATION FairSpec
CONSTANTS
  Wakers = {w1}
  Slow = FALSE
  OpenFails = FALSE
  Signals = FALSE
  Freezer = TRUE
  MaxSuspend = 1
PROPERTIES
  SuspendReturns
CHECK_DEADLOCK FALSE
