SPECIFICATION FairSpec
CONSTANTS
  NDetector = 2
  StoreQueueLen = 1
  SendQueueLen = 2
  MaxReport = 3
  MaxNoMemory = 1
  Nobody = Nobody
  NoReport = NoReport
INVARIANTS OneOwner DetectorOrder CountDrift
PROPERTIES PushReturns QueuedIsStored
