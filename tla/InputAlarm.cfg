SPECIFICATION FairSpec
CONSTANTS
  NDetector = 3
  Kind <- Mixed
  Loop <- MixedLoops
  ConfirmTimes <- ConfirmMixed
  Zeros <- NormalOrAlarm
  switch_run_mode <- SecondStops
  resume_run_mode <- AllYes
  relay_action <- OnlySecond
  MaxChange = 2
  MaxCommand = 1
  MaxConfigure = 1
  MaxReboot = 1
  MaxNoMemory = 1
INVARIANTS ConfirmedInTwice AbnormalLoopsExact LastReportTells
PROPERTIES Debounced RunModeRestored PersistentAlarmRaised PersistentClearCleared
