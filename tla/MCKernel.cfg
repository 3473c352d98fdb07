SPECIFICATION Spec
CONSTANTS
  Task <- MCTask
  NULL = NULL
  LEVELS = 4
  LEVEL_TASKS = 3
  Period <- MCPeriod
  Capacity <- MCCapacity
  MaxKeys = 1
  Speed = 0
  Aftermath = TRUE
INVARIANTS CurrentIsLoaded Schedulable NoLostWakeup HeartbeatsLive
