CONSTANTS
  RxLengths = {5, 8}
  TxLengths = {5, 6, 8}
  TX_FIFO = 8
  MaxRx = 3
  MaxTx = 4
SPECIFICATION LanSpec
INVARIANT FrameIsWhole
CHECK_DEADLOCK FALSE
