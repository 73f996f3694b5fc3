SPECIFICATION Spec
CONSTANTS
  Addr = {a1}
  Slot = {s1}
  NoAddr = NoAddr
  NoSlot = NoSlot
  MaxAid = 2
  AuthTo = 2
  ExpireTo = 1
  MaxTry = 1
  Quiet = {}
INVARIANT
  AidTable
CHECK_DEADLOCK FALSE
