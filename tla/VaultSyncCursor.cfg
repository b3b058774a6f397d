SPECIFICATION SpecCursor
CONSTANTS
  u1 = u1
  i1 = i1
  i2 = i2
  r1 = r1
  r2 = r2
  r3 = r3
  Users = {u1}
  Items = {i1, i2}
  Requests = {r1, r2, r3}
  None = None
  MaxVersion = 1
  MaxTime = 3
  Consumers = {c1}
  UserOf <- MCUserOf
PROPERTIES
  TombstoneReachesDevices
CHECK_DEADLOCK FALSE
