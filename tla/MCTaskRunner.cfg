SPECIFICATION Spec
CONSTANTS
  NumTasks = 2
  MaxEval = 1
INVARIANTS
  EvaluationIsolated
  NothingForgotten
  CancellationLeaksNothing
PROPERTIES
  ReportsHonest
  AccessSpec
