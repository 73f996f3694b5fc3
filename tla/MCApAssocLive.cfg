SPECIFICATION FairSpec
CONSTANTS
  Addr = {a1, a2}
  Slot = {s1}
  NoAddr = NoAddr
  NoSlot = NoSlot
  MaxAid = 1
  AuthTo = 3
  ExpireTo = 3
  MaxTry = 3
  Quiet = {a1}
PROPERTY
  SilentLeaves
