SPECIFICATION Spec
CONSTANTS
  Sta = {s1}
  Bmc = bmc
  NoFrame = NoFrame
  Offers = {{}, {"vo", "be"}}
  Races = FALSE
  Traffic = {"be"}
  MaxFrame = 1
  MaxMcast = 2
  MaxRx = 2
INVARIANTS
  TypeOK
  OnePlace
  SleepqCounted
  HeldOnlyAsleep
  StationsTold
CHECK_DEADLOCK FALSE
