SPECIFICATION ServerSpec
CONSTANTS
  c1 = c1
  c2 = c2
  Caller = {c1, c2}
INVARIANTS
  NoForeignSignal
  ConfirmedGone
PROPERTIES
  StopReturns
CHECK_DEADLOCK FALSE
