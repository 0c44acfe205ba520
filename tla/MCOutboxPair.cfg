SPECIFICATION Spec
CONSTANTS
  Rows = {r1, r2}
  Channels = {c1}
  ChannelOf <- OneChannel
  Workers = {w1, w2}
  NoRow = NoRow
  BatchLimit = 2
  MaxAttempts = 2
  BaseBackoff = 1
  MaxBackoff = 3
  LeaseTimeout = 1
  DeliveryTimeout = 1
  MaxFaults = 0
  MaxEdits = 0
INVARIANTS
  NoAttemptOnSettledRow
