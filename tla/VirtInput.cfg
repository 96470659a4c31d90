CONSTANTS
  IDX = 4
  QSZ = 2
  BACKLOG = 3
  Values = {e1, e2}
  NoEvent = NoEvent
SPECIFICATION WatchedSpec
INVARIANTS
  InInvariant
PROPERTIES
  ImplementsEventStream
  InNextInterruptRecovers
CHECK_DEADLOCK FALSE
