SPECIFICATION Spec
CONSTANTS
  NLamp = 3
  InitialList <- Three
  Group <- Groups
  MAX_LAMP_GROUP_NUM = 3
  Strategies <- LampStrategies
  Requests <- GroupMessages
  Bags = 2
  retransmission_times = 0
  ToPlcLen = 1
  StateLen = 1
  FromPlcLen = 1
  MaxRequest = 1
  MaxInput = 0
  None = None
INVARIANT GroupLampsOnly
