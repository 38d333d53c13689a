CONSTANTS
  Requests <- EveryRequest
  FirstFloors <- Roles
  Serial = TRUE
  MaxRequests = 2
  MaxFaults = 1
SPECIFICATION Spec
INVARIANTS TypeOK FloorExclusive FloorInvariant
PROPERTIES TurnsAppliedInOrder TakesTurns
CHECK_DEADLOCK FALSE
