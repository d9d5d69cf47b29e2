SPECIFICATION FairSpec
CONSTANTS
  Workers = {w1}
  Creates = {c1}
  Stops = {s1}
  Gets = {g1}
  Pollers = {g1}
  Ingests = {}
  Adapter = "postgres"
  SlowStart = FALSE
  RuntimeErrors = {"uncertain"}
  MaxFaults = 1
  MaxCrashes = 1
PROPERTIES IntentsArePublished
CHECK_DEADLOCK FALSE
