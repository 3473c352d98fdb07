SPECIFICATION Spec
CONSTANTS
  N = 4
  UINT32_MAX = 99
  Timeouts = {1, 2}
  MaxTick = 5
  Callers = {c1, c2}
  Cli = {c2}
INVARIANTS RingConnected
CHECK_DEADLOCK FALSE
