SPECIFICATION Spec
CONSTANTS
  Addr = {a1, a2}
  Slot = {s1, s2}
  NoAddr = NoAddr
  NoSlot = NoSlot
  MaxAid = 2
  AuthTo = 2
  ExpireTo = 1
  MaxTry = 1
  Quiet = {}
INVARIANTS
  TypeOK
  HostKnows
CHECK_DEADLOCK FALSE
