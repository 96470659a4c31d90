CONSTANTS
  IDX = 4
  TXQ = 4
  NetBufs = {p1, p2, p3}
  NoBuf = NoBuf
SPECIFICATION TxSpec
SYMMETRY Symm
INVARIANTS
  TxInductive
  TxDeviceReadsWhole
  TxNetBufsAccounted
  TxNoLostKick
PROPERTY ImplementsNetBufQueue
