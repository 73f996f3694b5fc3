SPECIFICATION Spec
CONSTANTS
  Sta = {s1}
  Bmc = bmc
  NoFrame = NoFrame
  Offers = {{}}
  Races = TRUE
  Traffic = {"be"}
  MaxFrame = 1
  MaxMcast = 1
  MaxRx = 1
INVARIANT
  StationsTold
CHECK_DEADLOCK FALSE
