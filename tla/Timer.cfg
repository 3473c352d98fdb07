SPECIFICATION Spec
CONSTANTS
  N = 4
  UINT32_MAX = 99
  Timeouts = {1, 2}
  MaxTick = 4
INVARIANTS ListExact NoOverdue
PROPERTY ImplementsService
CHECK_DEADLOCK FALSE
