SPECIFICATION FairSpec
CONSTANTS
  Sta = {s1}
  Bmc = bmc
  NoFrame = NoFrame
  Offers = {{"vo","be"}}
  Races = FALSE
  Traffic = {"be"}
  MaxFrame = 2
  MaxMcast = 0
  MaxRx = 2
PROPERTY TriggerProcessed
CHECK_DEADLOCK FALSE
