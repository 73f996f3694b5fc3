SPECIFICATION Spec
CONSTANTS
  Wakers = {w1, w2}
  Slow = TRUE
  OpenFails = TRUE
  Signals = FALSE
  Freezer = FALSE
  MaxSuspend = 2
INVARIANTS
  TypeOK
  FirmwareUnderChip
CHECK_DEADLOCK FALSE
