SPECIFICATION FairSpec
CONSTANTS
  Rows = {r1, r2, r3}
  NoRow = NoRow
  Senders = {s1, s2}
  Flushes = {f1, f2}
  NoFlush = NoFlush
  Limit = 1
  Exclusive = TRUE
  InitialMode = "auto"
  MaxFaults = 1
  MaxEdits = 1
INVARIANTS
  TypeOK
  NoRowForgotten
  DigestedOnce
  StormIsCalmed
PROPERTIES
  EveryParkedRowLeaves
CHECK_DEADLOCK FALSE
