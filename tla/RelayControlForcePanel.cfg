SPECIFICATION FairSpec
CONSTANTS
  NumModules = 2
  BuiltIn <- InsideFirst
  LowLoops <- Low
  HighLoops <- NoHigh
  loop_channel_bit <- OneEach
  loop_enable <- OneEach
  loop_group <- Group1
  Wired <- OneEach
  Slots <- DayNight
  Plan <- LightAtNight
  LoopRequests <- SwitchOn
  GroupRequests <- None
  TempPlans <- None
  MmiRequests <- PanelSecond
  RunModes <- AllModes
  CanForce = TRUE
  CanConfigure = FALSE
  MaxInputs = 3
  MaxLost = 0
  BusSize = 2
PROPERTIES ForceSwitchesOff
