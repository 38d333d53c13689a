CONSTANTS
  Sessions = {s, t}
  Workloads <- AllWorkloads
  MaxAsks = 3
  MaxShares = 2
SPECIFICATION FairSpec
INVARIANTS TypeOK EachEventOnce FetchMatches OfferedIsHeld RefsFreed SessionsInvariant
PROPERTIES ReadInOrder RequestsSettle NoticesCatchUp
CHECK_DEADLOCK FALSE
