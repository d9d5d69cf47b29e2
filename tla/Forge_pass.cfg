SPECIFICATION Spec
CONSTANTS
  k1 = k1
  k2 = k2
  r1 = r1
  r2 = r2
  Keys <- TwoKeys
  Reactors <- TwoReactors
  Sessions <- ThreeSessions
  StopKeys <- TwoKeys
  CompleteKeys <- FirstKey
  MaxEvents = 2
INVARIANTS
  TypeOK
  OutcomeIsEarned
  MemoryCapsUnlessReopened
PROPERTIES
  OutcomeIsForGood
  FailureIsRecorded
