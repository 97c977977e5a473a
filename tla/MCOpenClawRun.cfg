SPECIFICATION Spec
CONSTANTS
  Proc = {"main", "events"}
  MaxDials = 2
  Dials <- MCDials
  QueueSize = 1
  WireSize = 1
  Chunks = 1
  MaxRuns = 1
  MaxEvents <- MCMaxEvents
  MaxDuplicates <- MCMaxDuplicates
CHECK_DEADLOCK FALSE
INVARIANTS
  VerdictMatchesGateway
  InSequence
PROPERTIES
  WindsDown
