SPECIFICATION Spec
CONSTANTS
  N = 3
  UINT32_MAX = 99
  Timeouts = {1, 2, 3}
  MaxTick = 4
INVARIANT AllConnected
CHECK_DEADLOCK FALSE
