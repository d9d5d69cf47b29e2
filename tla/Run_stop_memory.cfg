SPECIFICATION Spec
CONSTANTS
  Workers = {w1, w2}
  Creates = {c1}
  Stops = {s1, s2}
  Gets = {g1}
  Pollers = {}
  Ingests = {}
  Adapter = "memory"
  SlowStart = FALSE
  RuntimeErrors = {"uncertain", "confirmed"}
  MaxFaults = 1
  MaxCrashes = 0
SYMMETRY Symmetry
INVARIANTS TypeOK NoWorkerOutlivesStop StoppedRecordsCleanup
PROPERTIES FailureSurvivesCleanup
CHECK_DEADLOCK FALSE
