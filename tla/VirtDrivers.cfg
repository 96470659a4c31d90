CONSTANTS
  Readers = {r1, r2}
  LEN = 2
  Nobody = Nobody
  SEC_SIZE = 2
  Sectors = {0, 1, 2}
  Data = {d1, d2}
  Capacities = {2048, 2049, 4095, 4096, 1048576, 4194303, 4194304, 4194305, 8388608}
  ConfBlkSizes = {0, 256, 512, 1000, 4096, 32768, 131072}
  GENS = 3
  IDX = 2
SPECIFICATION PartSpec
INVARIANTS
  RngInvariant
  BlkInvariant
  MmcInvariant
  InitInvariant
PROPERTIES
  ImplementsRequests
  RngReadsReturn
  ImplementsDisk
  BlkReturns
  InitComesToAnEnd
