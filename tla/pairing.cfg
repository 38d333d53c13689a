CONSTANTS
  Daemons = {a, b, c}
  MaxAttempts = 2
  MaxRemovals = 1
  MaxFaults = 1
SPECIFICATION Spec
INVARIANTS TypeOK PairedBothWays PairedDurably HalfAtAcceptorOnly PairingInvariant
SYMMETRY Symmetry
CHECK_DEADLOCK FALSE
