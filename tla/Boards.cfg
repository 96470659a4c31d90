CONSTANTS
  q1 = q1
  q2 = q2
  NoPbuf = NoPbuf
  EQ = 2
  NoEvent = NoEvent
  MaxEvents = 3
  MaxGen = 2
  CAPACITY = 8
  PAGE = 2
  BLOCK = 4
  MaxWrites = 2
  Lengths = {2}
  FIFO = 1
  MaxCalls = 3
  SYS_FREQ = 20000000
  Bauds = {115200}
  Formats <- LineFormats
  NULL = NULL
  MAX = 255
  FREQ = 23
  UNIT = 5
  Timeouts = {0, 7, 63, 64}
  MaxStarts = 2
  Tasks = {t1, t2}
  Pins = {0, 1}
  MaxGpioCalls = 2
  RxLengths = {5, 8}
  TxLengths = {5, 6, 8}
  TX_FIFO = 8
  MaxRx = 3
  MaxTx = 4
  Typed = {b1}
  NoByte = NoByte
  Printers = {p1, p2}
  Clocks = {0, 160, 320}
  Rates = {0, 10, 15}
  DefaultRate = 10
SPECIFICATION BoardSpec
INVARIANTS
  RvDriversInvariant
  RvBoardInvariant
  CskyInvariant
  MpsInvariant
CHECK_DEADLOCK FALSE
