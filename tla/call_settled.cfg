CONSTANTS
  Requests <- SpeakAndEnd
  FirstFloors <- CallerFirst
  Serial = TRUE
  MaxRequests = 4
  MaxFaults = 1
SPECIFICATION FairSpec
INVARIANTS FloorsAgree GivenUpStaysDown
PROPERTIES InviteSettles EndReachesPeer
CHECK_DEADLOCK FALSE
