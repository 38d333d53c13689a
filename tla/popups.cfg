CONSTANTS
  Sessions = {s1, s2}
  Calls = {c1}
  Anyone = Anyone
  MaxToggles = 3
SPECIFICATION FairSpec
INVARIANT TypeOK
INVARIANT PendingIsOffered
INVARIANT ResolvedIsRetired
INVARIANT InviteInvariant
PROPERTY RingingIsShown
CHECK_DEADLOCK FALSE
