SPECIFICATION RecorderSpec
CONSTANTS
  c1 = c1
  c2 = c2
  Caller = {c1, c2}
  NumTasks = 2
  MaxSamples = 2
INVARIANTS
  IndexExact
  SourceReleased
