SPECIFICATION FairSpec
CONSTANTS
  NrQueue = 2
  NrFrame = 3
  Low = 1
  NrBuf = 2
  NrExt = 1
  Burst = 2
  Faults = TRUE
  MaxPacket = 3
  MaxScan = 1
  MaxMgmt = 1
  MaxLeave = 1
  MaxEvent = 2
INVARIANTS
  PoolsAccounted
  StoppedHasPacket
  NoStranded
  QueueOrder
PROPERTIES
  StoppedIsWoken
  ImplementsTxQueue
CHECK_DEADLOCK FALSE
