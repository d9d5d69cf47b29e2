SPECIFICATION Spec
CONSTANTS
  Log <- MCLog
  Deployments <- MCDeployments
  MaxFaults = 3
INVARIANTS
  TypeOK
  AcknowledgedIsDelivered
  NothingLostWithoutFault
  CommittedArtifactIsWritten
PROPERTIES
  ImplementsLedger
  AcknowledgedOrHeld
CHECK_DEADLOCK FALSE
