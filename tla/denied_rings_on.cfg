CONSTANTS
  Sessions = {s1}
  Calls = {c1}
  Anyone = Anyone
  MaxToggles = 1
SPECIFICATION Spec
INVARIANT DenialRetires
CHECK_DEADLOCK FALSE
