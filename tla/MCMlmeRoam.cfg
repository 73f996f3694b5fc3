SPECIFICATION FairSpec
CONSTANTS
  Bss = {b1}
  Ssid = {{b1}}
  NoBss = NoBss
  NoSsid = NoSsid
  Dot1x = TRUE
  NoMem = FALSE
  MaxRoaming = 2
  Limit = 1
  Channels = 1
  MaxRequest = 1
  MaxLoss = 1
INVARIANTS
  RoamIsPending
PROPERTIES
  RoamConcludes
CHECK_DEADLOCK FALSE
