SPECIFICATION LiveSpec
CONSTANTS
  Beats = {b1, b2}
  Timeout = 2
  MaxFaults = 1
  MaxEdits = 3
  Topics = {t1, none}
  Clients = {c1}
  Scopes = {{}, {t1}, {t1, none}}
  QueueSize = 1
  MaxChanges = 2
  MaxMishaps = 2
  Renders = {r1, r2, r3}
  Pool = 2
  Slots = 2
  MaxRenders = 3
  Schedules = {s1}
  Length = 3
  Bump = 1
  Horizon = 8
  MaxLosses = 1
  MaxUpdates = 1
INVARIANTS
  TypeOK
  MissingMeansOneIncident
  OneAlarmPerOutage
  NoSilentStaleness
  ReportedOnce
  OnlyFinishedPeriods
PROPERTIES
  LossIsNoticed
  FeedCatchesUp
  OnlyHungRendersCost
  RenderEnds
  DueIsDispatched
CHECK_DEADLOCK FALSE
