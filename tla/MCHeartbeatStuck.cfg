SPECIFICATION Spec
CONSTANTS
  Beats = {b1}
  Timeout = 1
  MaxFaults = 0
  MaxEdits = 1
INVARIANTS
  NeverStuckMissing
