SPECIFICATION Spec
CONSTANTS
  r1 = r1
  r2 = r2
  Reactors = {r1, r2}
  Keys = {"k1", "k2"}
  Workers = {1}
  Stores <- OnlyPostgres
  Caps = {2}
  MaxFaults = 0
PROPERTIES
  ExpiredIsCleanedUp
