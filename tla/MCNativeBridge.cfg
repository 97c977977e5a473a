SPECIFICATION Spec
CONSTANTS
  h1 = h1
  h2 = h2
  c1 = c1
  c2 = c2
  Call = {h1, h2}
  Caller = {c1, c2}
  MaxRecords = 1
INVARIANTS
  ConfirmedIsAudited
  NoSilentLoss
PROPERTIES
  StopReturns
