SPECIFICATION Spec
CONSTANTS
  Workers = {w1}
  Creates = {c1, c2}
  Stops = {}
  Gets = {g1}
  Pollers = {g1}
  Ingests = {i1, i2}
  Adapter = "postgres"
  SlowStart = FALSE
  RuntimeErrors = {"uncertain"}
  MaxFaults = 0
  MaxCrashes = 0
SYMMETRY Symmetry
INVARIANTS FramesMatchTelemetry
PROPERTIES TerminalObservationKept
CHECK_DEADLOCK FALSE
