SPECIFICATION SpecServer
CONSTANTS
  Users = {u1, u2}
  Calls = {c1, c2}
  Secrets = {s1, s2}
  TicksPerSecond = 2
  TTL = 3
  MaxTime = 6
  MaxTokens = 2
  None = None
INVARIANTS
  RunsForTokenOwner
  EndsInOrder
PROPERTIES
  TokensLastAsTold
  SignalStops
CHECK_DEADLOCK FALSE
