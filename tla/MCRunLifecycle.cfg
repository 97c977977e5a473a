SPECIFICATION Spec
CONSTANTS
  NumTasks = 3
  Concurrency = 2
  MaxIndex = 3
INVARIANTS
  SettledOnReturn
  NilMeansComplete
PROPERTIES
  RunReturns
CHECK_DEADLOCK FALSE
