SPECIFICATION FairSpec
CONSTANTS
  conc = conc
  relay = relay
  DeviceTask = {conc, relay}
  Concentrator = conc
  NoReport = NoReport
  MaxReport = 2
  SendQueueLen = 1
  MaxRetransmission = 2
  MaxDisconnect = 1
INVARIANTS OneOwner MisackBound
PROPERTIES DeliverySpec EveryReportSettles
