SPECIFICATION FairSpec
CONSTANTS
  NDevices = 3
  NMock = 1
  NThreads = 2
  PollInterval = 0
  MmioEvery = 1
  QueueDepth = 1
INVARIANTS TypeOK DeviceHasOnePoller DestroyedDrained
PROPERTY LoopReturns
CHECK_DEADLOCK FALSE
