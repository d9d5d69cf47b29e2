SPECIFICATION Spec
CONSTANTS
  Workers = {w1, w2}
  Creates = {c1, c2}
  Stops = {s1}
  Gets = {}
  Pollers = {}
  Ingests = {}
  Adapter = "postgres"
  SlowStart = TRUE
  RuntimeErrors = {"uncertain"}
  MaxFaults = 1
  MaxCrashes = 1
SYMMETRY Symmetry
INVARIANTS CompensatedFailureIsClean SingleLaunch
PROPERTIES ImplementsOutbox
CHECK_DEADLOCK FALSE
