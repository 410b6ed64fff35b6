CONSTANTS
  NFrame = 2
  NBlock = 2
  PieceMax = 3
  QueueLen = 1
  Timeout = 1
  MaxLink = 1
SPECIFICATION FairSpec
INVARIANTS ExactStream HandledOnce
PROPERTY Resynchronises
CHECK_DEADLOCK FALSE
