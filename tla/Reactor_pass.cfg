SPECIFICATION Spec
CONSTANTS
  r1 = r1
  r2 = r2
  Reactors = {r1, r2}
  Keys = {"k1", "k2"}
  Workers = {1}
  Stores <- BothStores
  Caps = {1, 2}
  MaxFaults = 2
INVARIANTS
  TypeOK
  RemovedHasNoContainers
  ActiveIsLaunched
PROPERTIES
  RevokedForGood
  CleanupFinishes
CHECK_DEADLOCK TRUE
