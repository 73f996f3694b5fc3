SPECIFICATION FairSpec
CONSTANTS
  Bss = {b1}
  Ssid = {{b1}}
  NoBss = NoBss
  NoSsid = NoSsid
  Dot1x = TRUE
  NoMem = FALSE
  MaxRoaming = 1
  Limit = 1
  Channels = 1
  MaxRequest = 2
  MaxLoss = 1
INVARIANTS
  LinkingIsTimed
  LinkIsReal
  ToJoinHasSurvey
  RoamIsPending
PROPERTIES
  SurveyEnds
  RoamConcludes
CHECK_DEADLOCK FALSE
