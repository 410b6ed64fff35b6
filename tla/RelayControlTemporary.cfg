SPECIFICATION Spec
CONSTANTS
  NumModules = 2
  BuiltIn <- InsideFirst
  LowLoops <- Low
  HighLoops <- NoHigh
  loop_channel_bit <- OneEach
  loop_enable <- OneEach
  loop_group <- Group1
  Wired <- OneEach
  Slots <- DayNight
  Plan <- LightAtNight
  LoopRequests <- SwitchOn
  GroupRequests <- GroupOneOn
  TempPlans <- TempSecond
  MmiRequests <- None
  RunModes <- AllModes
  CanForce = TRUE
  CanConfigure = TRUE
  MaxInputs = 4
  MaxLost = 0
  BusSize = 2
INVARIANTS OneSource
