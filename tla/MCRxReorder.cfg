SPECIFICATION FairSpec
CONSTANTS
  Half = 4
  WSize = 2
  MaxFrame = 9
  MaxReset = 2
  Amsdu = {3, 4}
  Removal = TRUE
INVARIANTS
  TypeOK
  InOrder
  RefusedForAReason
  NoStrandedFrame
PROPERTY
  BufferDrains
CHECK_DEADLOCK FALSE
