SPECIFICATION Spec
CONSTANTS
  Sta = {s1}
  Bmc = bmc
  NoFrame = NoFrame
  Offers = {{}}
  Races = FALSE
  Traffic = {"be"}
  MaxFrame = 0
  MaxMcast = 2
  MaxRx = 1
INVARIANT
  MulticastTold
CHECK_DEADLOCK FALSE
