CONSTANTS
  IDX = 8
  RXQ = 4
  Frames = {f1, f2}
  NoBuf = NoBuf
  t1 = t1
  t2 = t2
  t3 = t3
  d1 = d1
  d2 = d2
  p1 = p1
  o1 = o1
  b0 = b0
  b1 = b1
  b2 = b2
  None = None
  Invalid = Invalid
  Freed = Freed
  InvalidId = 3
  MaxLive = 2
  DefaultZ = 2
  Zorders = {0, 2}
SPECIFICATION PartSpec
INVARIANTS
  RxInvariant
  GrallocInvariant
  DrmInvariant
  LayersAndCamera
PROPERTY ImplementsFrameFifo
CHECK_DEADLOCK FALSE
