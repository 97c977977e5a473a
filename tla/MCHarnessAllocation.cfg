CONSTANTS
  c1 = c1
  c2 = c2
  o1 = o1
  o2 = o2
  None = None
  Caller = {c1, c2}
  Occurrence = {o1}
SPECIFICATION Spec
CHECK_DEADLOCK FALSE
INVARIANTS
  UncertaintyReported
