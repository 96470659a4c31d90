CONSTANTS
  IDX = 2
  TXQ = 2
  RXQ = 1
  NetBufs = {p1, p2}
  Frames = {f1}
  NoBuf = NoBuf
SPECIFICATION Spec
INVARIANT RxNoLostInterrupt
CHECK_DEADLOCK FALSE
