SPECIFICATION Spec
CONSTANTS
  Programs <- AllPrograms
INVARIANTS
  TypeOK
  CleanExitIsDrained
  FailureIsShown
PROPERTIES
  StopsWhenTold
CHECK_DEADLOCK FALSE
