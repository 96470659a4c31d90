CONSTANTS
  Displays = {d1, d2}
  Callbacks = {c1}
  NoCallback = NoCallback
  Nothing = Nothing
  MaxToggles = 2
SPECIFICATION SessSpec
INVARIANT SessInvariant
PROPERTY EventsReachTheirCallback
CHECK_DEADLOCK FALSE
