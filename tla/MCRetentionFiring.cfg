SPECIFICATION Spec
CONSTANTS
  e1 = e1
  e2 = e2
  r1 = r1
  r2 = r2
  Events = {e1, e2}
  TestEvents = {e2}
  Rows = {r1, r2}
  EventOf <- MCEventOf
  Digests = {d1}
  NoDigest = NoDigest
  Purges = {sweep, request}
  Sweep = sweep
  BatchSize = 2
  MaxFaults = 0
  MaxRequests = 0
PROPERTY
  FiringIsNeverPurged
