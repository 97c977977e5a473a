SPECIFICATION Spec
CONSTANTS
  c1 = c1
  c2 = c2
  o1 = o1
  o2 = o2
  None = None
  Caller = {c1, c2}
  Occurrence = {o1, o2}
INVARIANTS
  AlwaysReachable
  NilMeansGone
  SuccessIsEvidenced
  FailedRunIsCancelled
PROPERTIES
  CallsReturn
CHECK_DEADLOCK FALSE
