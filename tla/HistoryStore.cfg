SPECIFICATION Spec
CONSTANTS
  Keep = 2
  Full = 2
  Batch = 2
  QueueLen = 1
  MaxDay = 4
  LeapDays = {1, 4}
  MaxReport = 3
  MaxQuery = 1
  MaxSetClock = 1
  MaxCrash = 2
  MaxNoMemory = 1
INVARIANTS NamesCount RecordsKept
PROPERTY AnswerExact
CHECK_DEADLOCK FALSE
