SPECIFICATION SpecSettings
CONSTANTS
  u1 = u1
  Users = {u1, u2}
  Uploads = {p1}
  Streams = {s1, s2}
  Aborts = {a1}
  Downloads = {d1}
  Indexes = {0, 1}
  Payloads = {1, 2}
  Plans <- TwoChunks
  None = None
SYMMETRY Symmetry
INVARIANTS
  OneBlobPerUpload
  ManifestFrozen
  PartsHaveObjects
  SoleWriterIntact
  AnswerMatchesEffect
PROPERTIES
  DecisionIsFinal
CHECK_DEADLOCK FALSE
