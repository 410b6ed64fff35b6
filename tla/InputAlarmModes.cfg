SPECIFICATION FairSpec
CONSTANTS
  NDetector = 2
  Kind <- TwoDigital
  Loop <- TwoLoops
  ConfirmTimes <- ConfirmTwoOne
  Zeros <- Normal
  switch_run_mode <- ManualStop
  resume_run_mode <- BothYes
  relay_action <- NoYes
  MaxChange = 5
  MaxCommand = 0
  MaxConfigure = 0
  MaxReboot = 0
  MaxNoMemory = 0
PROPERTIES RunModeRestored
