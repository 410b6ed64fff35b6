SPECIFICATION FairSpec
CONSTANTS
  Modes = {"INSIDE", "4G", "ETH"}
  TxLen = 1
  RxLen = 1
  NBlock = 1
  Times = 1
  MaxChange = 2
PROPERTY LoginAlwaysSettles
