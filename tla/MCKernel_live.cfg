SPECIFICATION FairSpec
CONSTANTS
  Task <- MCTask
  NULL = NULL
  LEVELS = 4
  LEVEL_TASKS = 3
  Period <- MCLivePeriod
  Capacity <- MCCapacity
  MaxKeys = 1
  Speed = 3
  Aftermath = FALSE
PROPERTIES EveryFifoServed CursorBlinks
CHECK_DEADLOCK FALSE
