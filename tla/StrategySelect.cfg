CONSTANTS
  HOURS = 4
  MINUTES = 2
  DAYS = 3
  NGroup = 2
  MaxInput = 2
  light_on_thre = 3
  light_on_advance_time = 1
  light_on_delay_time = 2
  light_off_thre = 6
  light_off_advance_time = 1
  light_off_delay_time = 1
  Strategies <- MCStrategies
  Appointments <- MCAppointments
  Switches <- MCSwitches
  Suns <- MCSuns
  Lights <- MCLights
  Almanac <- MCAlmanac
SPECIFICATION Spec
PROPERTIES FollowsClock HighestPriority
