CONSTANTS
  Requests <- SpeakAndPause
  FirstFloors <- CallerFirst
  Serial = TRUE
  MaxRequests = 3
  MaxFaults = 0
SPECIFICATION Spec
INVARIANT FloorsAgree
CHECK_DEADLOCK FALSE
