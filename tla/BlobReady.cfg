SPECIFICATION Spec
CONSTANTS
  u1 = u1
  Users = {u1}
  Uploads = {p1}
  Streams = {s1}
  Aborts = {a1}
  Downloads = {}
  Indexes = {0, 1}
  Payloads = {1, 2}
  Plans <- OneChunk
  None = None
INVARIANTS
  ReadyBlobHasObjects
CHECK_DEADLOCK FALSE
