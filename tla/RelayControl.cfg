SPECIFICATION FairSpec
CONSTANTS
  NumModules = 2
  BuiltIn <- InsideFirst
  LowLoops <- Low
  HighLoops <- NoHigh
  loop_channel_bit <- OneEach
  loop_enable <- OneEach
  loop_group <- Group1
  Wired <- OneEach
  Slots <- DayNight
  Plan <- LightAtNight
  LoopRequests <- SwitchOn
  GroupRequests <- GroupOneOn
  TempPlans <- TempSecond
  MmiRequests <- PanelFirst
  RunModes <- AutoTask
  CanForce = TRUE
  CanConfigure = TRUE
  MaxInputs = 3
  MaxLost = 1
  BusSize = 2
INVARIANTS QuietMeansApplied QuietMeansSent
PROPERTIES Settles
