CONSTANTS
  Requests <- JustEnd
  FirstFloors <- CallerFirst
  Serial = TRUE
  MaxRequests = 1
  MaxFaults = 0
SPECIFICATION Spec
INVARIANT NoOrphanRinging
CHECK_DEADLOCK FALSE
