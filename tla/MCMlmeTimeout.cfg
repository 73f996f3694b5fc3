SPECIFICATION FairSpec
CONSTANTS
  Bss = {b1}
  Ssid = {{b1}}
  NoBss = NoBss
  NoSsid = NoSsid
  Dot1x = TRUE
  NoMem = FALSE
  MaxRoaming = 1
  Limit = 0
  Channels = 1
  MaxRequest = 1
  MaxLoss = 0
PROPERTIES
  TimeoutHandled
CHECK_DEADLOCK FALSE
