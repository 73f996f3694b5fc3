SPECIFICATION Spec
CONSTANTS
  Wakers = {w1, w2}
  Slow = FALSE
  OpenFails = FALSE
  Signals = TRUE
  Freezer = TRUE
  MaxSuspend = 0
INVARIANT
  OneSwitcher
CHECK_DEADLOCK FALSE
