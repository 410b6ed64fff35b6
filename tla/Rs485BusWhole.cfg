SPECIFICATION Spec
CONSTANTS
  Meters <- ThreeMeters
  SixLoop <- Second
  Others <- Lumeter
  Transparent <- ServersReads
  BusLen = 3
  RespLen = 2
  TransLen = 1
  MaxSend = 2
  MaxCollect = 2
  MaxNoise = 1
  MaxStray = 1
INVARIANT MeterWhole
