SPECIFICATION FairSpec
CONSTANTS
  NrBuf = 2
  NrPrealloc = 2
  NrSkb = 4
  MaxErr = 1
  Faults = TRUE
  MaxStop = 1
INVARIANTS
  OneOwner
  RxServed
  ReadsOnce
PROPERTIES
  LeaksKnown
  UnloadEnds
CHECK_DEADLOCK FALSE
