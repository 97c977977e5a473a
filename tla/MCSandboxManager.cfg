SPECIFICATION Spec
CONSTANTS
  s1 = s1
  s2 = s2
  c1 = c1
  c2 = c2
  Sandbox = {s1, s2}
  Caller = {c1, c2}
INVARIANTS
  NothingForgotten
  NilMeansGone
CHECK_DEADLOCK FALSE
