SPECIFICATION FileSpec
CONSTANTS
  Writer = {w1, w2}
  Reader = {r1}
CHECK_DEADLOCK FALSE
INVARIANTS
  WholeOrNothing
  LandedAsRecorded
PROPERTIES
  RevokedCallsEnd
