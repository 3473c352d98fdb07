SPECIFICATION Spec
CONSTANTS
  N = 4
  UINT32_MAX = 99
  Timeouts = {1, 2, 3}
  MaxTick = 4
INVARIANT Punctual
CHECK_DEADLOCK FALSE
