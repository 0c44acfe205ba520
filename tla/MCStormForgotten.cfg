SPECIFICATION Spec
CONSTANTS
  Rows = {r1, r2, r3}
  NoRow = NoRow
  Senders = {s1, s2}
  Flushes = {f1, f2}
  NoFlush = NoFlush
  Limit = 1
  Exclusive = FALSE
  InitialMode = "auto"
  MaxFaults = 0
  MaxEdits = 0
INVARIANTS
  NoRowForgotten
