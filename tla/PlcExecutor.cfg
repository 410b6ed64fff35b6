SPECIFICATION FairSpec
CONSTANTS
  NLamp = 2
  InitialList <- First
  Group <- Groups
  MAX_LAMP_GROUP_NUM = 2
  Strategies <- LampStrategies
  Requests <- Messages
  Bags = 2
  retransmission_times = 1
  ToPlcLen = 1
  StateLen = 1
  FromPlcLen = 1
  MaxRequest = 2
  MaxInput = 1
  None = None
INVARIANTS
  FalseSuccessBound
  OneTaskOwner
  NoticesTell
  EachLampOnce
PROPERTY TaskSettles
