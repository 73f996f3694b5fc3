SPECIFICATION Spec
CONSTANTS
  Sta = {s1}
  Bmc = bmc
  NoFrame = NoFrame
  Offers = {{}, {"vo", "be"}}
  Races = FALSE
  Traffic = {"be"}
  MaxFrame = 2
  MaxMcast = 1
  MaxRx = 3
INVARIANTS
  SleepqCounted
  HeldOnlyAsleep
  StationsTold
CHECK_DEADLOCK FALSE
