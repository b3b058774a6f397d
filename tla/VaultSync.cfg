SPECIFICATION SpecWriting
CONSTANTS
  u1 = u1
  i1 = i1
  i2 = i2
  r1 = r1
  r2 = r2
  r3 = r3
  Users = {u1, u2}
  Items = {i1, i2}
  Requests = {r1, r2, r3}
  None = None
  MaxVersion = 2
  MaxTime = 2
  Consumers = {c1}
  UserOf <- MCUserOf
INVARIANTS
  SyncIsExact
PROPERTIES
  DeviceNeverGoesBack
  DevicesConverge
CHECK_DEADLOCK FALSE
