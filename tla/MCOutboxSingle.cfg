SPECIFICATION FairSpec
CONSTANTS
  Rows = {r1, r2}
  Channels = {c1}
  ChannelOf <- OneChannel
  Workers = {w1}
  NoRow = NoRow
  BatchLimit = 2
  MaxAttempts = 3
  BaseBackoff = 1
  MaxBackoff = 3
  LeaseTimeout = 1
  DeliveryTimeout = 1
  MaxFaults = 2
  MaxEdits = 1
INVARIANTS
  TypeOK
  NoAttemptOnSettledRow
  DeliveredWasAccepted
  NeverGivesUpEarly
PROPERTIES
  KeepsPromise
  EveryRowSettles
