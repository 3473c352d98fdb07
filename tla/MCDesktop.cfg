SPECIFICATION Spec
CONSTANTS
  XSize = 3
  YSize = 4
  Width <- MCWidth
  Height <- MCHeight
  Invisible <- MCInvisible
  ConsoleAt <- MCConsoleAt
  WindowAt <- MCWindowAt
  TitleRows = 1
  CounterPixel <- MCCounterPixel
  TextPixel <- MCTextPixel
  TextOrigin <- MCTextOrigin
  Bytes = {250, 9, 56, 1}
  MaxBytes = 6
  MaxDraws = 2
  bufXS = 8
  bufYS = 28
  bufXE = 32
  bufYE = 72
  LineBufferSize = 4
  Scans = {14, 46, 174, 28, 42, 170, 54, 182, 58, 115}
  cls <- MCcls
  whoami <- MCwhoami
  OsName <- MCOsName
  MaxKeys = 7
  FifoSize = 1
  MaxScans = 2
  MaxMoves = 1
INVARIANTS ZMapTop ScreenShowsTop ConsoleText BytesInOrder
PROPERTIES InterruptsServed
CHECK_DEADLOCK FALSE
