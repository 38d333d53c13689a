CONSTANTS
  Requests <- JustSpeak
  FirstFloors <- CallerFirst
  Serial = FALSE
  MaxRequests = 3
  MaxFaults = 0
SPECIFICATION Spec
INVARIANT FloorExclusive
CHECK_DEADLOCK FALSE
