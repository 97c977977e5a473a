SPECIFICATION ServiceSpec
CONSTANTS
  s1 = s1
  Sandbox = {s1}
INVARIANTS
  ConfirmedClosed
  EvidenceIntact
  ServiceNilMeansClean
PROPERTIES
  ReleaseIsCarriedOut
  AccessSpec
CHECK_DEADLOCK FALSE
