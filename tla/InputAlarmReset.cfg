SPECIFICATION Spec
CONSTANTS
  NDetector = 1
  Kind <- OneDigital
  Loop <- JustLoop
  ConfirmTimes <- ConfirmTwo
  Zeros <- Normal
  switch_run_mode <- Stop
  resume_run_mode <- Yes
  relay_action <- Yes
  MaxChange = 1
  MaxCommand = 1
  MaxConfigure = 0
  MaxReboot = 1
  MaxNoMemory = 0
INVARIANTS RunModeIsMode
