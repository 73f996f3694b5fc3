SPECIFICATION FairSpec
CONSTANTS
  Cmds = {c1, c2, c3}
  NoCmd = NoCmd
  Always = {c3}
  Disc = {c2}
  Sigterm = TRUE
  Interrupts = TRUE
  MaxOpen = 2
INVARIANTS
  TypeOK
  OneOwner
  NoLostWakeup
  NoThreadAfterUnload
PROPERTIES
  CommandsAreServed
  UnloadReturns
CHECK_DEADLOCK FALSE
