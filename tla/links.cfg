CONSTANTS
  MaxLinks = 2
  MaxAsks = 1
  MaxFaults = 1
SPECIFICATION FairSpec
INVARIANTS TypeOK TabledIsOpen NoHalfOpen NothingUnexpected LinkInvariant
PROPERTIES SettledOnce DeadIsDropped Reconnects
CHECK_DEADLOCK FALSE
