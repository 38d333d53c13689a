CONSTANTS
  Requests <- PauseAndEnd
  FirstFloors <- CallerFirst
  Serial = TRUE
  MaxRequests = 2
  MaxFaults = 0
SPECIFICATION Spec
PROPERTY ClosedIsFinal
CHECK_DEADLOCK FALSE
