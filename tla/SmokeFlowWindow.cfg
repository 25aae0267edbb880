SPECIFICATION Spec
CONSTANTS
  Flows <- AllFlows
  From = 1
  Releases <- ThreeReleases
INVARIANTS
  OracleFailureIsPictured
CHECK_DEADLOCK FALSE
