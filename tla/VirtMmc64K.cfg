CONSTANTS
  Capacities = {8388608}
  ConfBlkSizes = {65536}
SPECIFICATION MmcSpec
INVARIANT RegistersReadBack
