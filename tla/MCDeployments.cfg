SPECIFICATION TelemetrySpec
CONSTANTS
  MaxClock = 3
  MaxRate = 3
  Grace = 1
  discoveryFailureBudget = 1
CHECK_DEADLOCK FALSE
INVARIANTS
  EnvironmentConfirmed
  
  TelemetrySurvives
PROPERTIES
  ForeignSurvives
  Contract
  ReadingsBracketed
