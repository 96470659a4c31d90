CONSTANTS
  IDX = 2
  TXQ = 2
  RXQ = 1
  NetBufs = {p1}
  Frames = {f1}
  NoBuf = NoBuf
SPECIFICATION FairSpec
PROPERTIES
  TxNextInterruptRecovers
  RxNextInterruptRecovers
CHECK_DEADLOCK FALSE
