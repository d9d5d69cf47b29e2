SPECIFICATION Spec
CONSTANTS
  t1 = t1
  t2 = t2
  Tags <- MCTags
  Measured <- MCMeasured
  Results <- OneResult
  MaxFlushes = 1
  MaxFaults = 1
CHECK_DEADLOCK FALSE
INVARIANTS
  TypeOK
  DeliveredIsCanonical
  CommittedIsDelivered
PROPERTIES
  ProjectedOnce
  GenerationMoves
  ImplementsPublications
  SourcesAreConsumed
