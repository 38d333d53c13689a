CONSTANTS
  Requests <- WithoutPause
  FirstFloors <- Roles
  Serial = FALSE
  MaxRequests = 2
  MaxFaults = 0
SPECIFICATION Spec
INVARIANTS CloseAgreement OutcomeHonest ClosingInvariant
PROPERTIES ClosedIsFinal
CHECK_DEADLOCK FALSE
