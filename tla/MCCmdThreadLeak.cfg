SPECIFICATION Spec
CONSTANTS
  Cmds = {c1}
  NoCmd = NoCmd
  Always = {}
  Disc = {}
  Sigterm = FALSE
  Interrupts = FALSE
  MaxOpen = 1
INVARIANT
  AllResourcesFreed
CHECK_DEADLOCK FALSE
