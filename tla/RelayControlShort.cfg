SPECIFICATION Spec
CONSTANTS
  NumModules = 2
  BuiltIn <- InsideFirst
  LowLoops <- Low
  HighLoops <- High
  loop_channel_bit <- AllEach
  loop_enable <- AllEach
  loop_group <- Groups
  Wired <- AllEach
  Slots <- DayNight
  Plan <- LightAtNight
  LoopRequests <- SwitchShort
  GroupRequests <- GroupOneOn
  TempPlans <- None
  MmiRequests <- None
  RunModes <- AllModes
  CanForce = TRUE
  CanConfigure = TRUE
  MaxInputs = 4
  MaxLost = 0
  BusSize = 2
PROPERTIES CommandAsAsked
