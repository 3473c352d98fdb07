SPECIFICATION PartsSpec
CONSTANTS
  Parts = {"path"}
  FrameCount = 6
  MaxRequest = 2
  Layouts <- MCLayouts
  KernelPages <- MCKernelPages
  FirmwarePages <- MCFirmwarePages
  RawPages = 1
  MaxChanges = 4
  Machines <- MCMachines
  NumDevices = 2
  NumFunctions = 2
  MaxDevices = 5
  RingSize = 4
  EventRingSize = 3
  QueueSize = 1
  MaxOutstanding = 2
  MaxCommands = 7
  MaxEvents = 9
  PoolBases = {64, 8192}
  PoolSizes = {64, 100, 500, 1000, 1290, 14000, 16384, 131072}
  PadCounts = {0, 3, 31}
  Data = {d0, d1}
  Zero = d0
  BufLens = {1, 2, 3}
  EIO = EIO
  OK = OK
  Bits = 8
  NtoaBufferSize = 8
  IntBits = 8
  Values <- MCValues
  Texts <- MCTexts
  MaxField = 3
  WideField = 12
  MaxCount = 4
  PathMax = 7
  Paths <- MCPaths
  SectorSize = 3
  Sectors = 9
  Radix = 2
  StackCalls = 3
  MaxRead = 8
INVARIANT SlashesSkipped
CHECK_DEADLOCK FALSE
