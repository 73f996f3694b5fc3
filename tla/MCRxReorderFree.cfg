SPECIFICATION Spec
CONSTANTS
  Half = 4
  WSize = 2
  MaxFrame = 3
  MaxReset = 2
  Amsdu = {}
  Removal = TRUE
INVARIANT
  FreedStationIsQuiet
CHECK_DEADLOCK FALSE
