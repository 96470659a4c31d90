CONSTANTS
  Clients = {c1, c2}
  Reader = c1
  Bytes = {b1, b2}
  BUF_SIZE = 3
  FIFO_SIZE = 2
  CONSOLE = TRUE
  IDX = 16
SPECIFICATION UCSpec
INVARIANTS
  UartInvariant
  GpuInductive
  GpuChainsWhole
PROPERTIES
  ImplementsByteStream
  UartReaderWakes
  GpuResponseIsOwn
  GpuNotOverwritten
  GpuRefreshGoesOnWithoutEdid
CHECK_DEADLOCK FALSE
