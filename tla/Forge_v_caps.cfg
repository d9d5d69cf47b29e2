SPECIFICATION Spec
CONSTANTS
  k1 = k1
  k2 = k2
  r1 = r1
  r2 = r2
  Keys <- TwoKeys
  Reactors <- TwoReactors
  Sessions <- PostgresSession
  StopKeys = {}
  CompleteKeys = {}
  MaxEvents = 2
INVARIANTS
  CapsAreKept
