SPECIFICATION SpecSettings
CONSTANTS
  c1 = c1
  c2 = c2
  c3 = c3
  f1 = f1
  f2 = f2
  n1 = n1
  None = None
  Commands = {c1, c2, c3}
  Ids = {i1, i2}
  Files = {f1, f2}
  Chunks <- ChunksOf
  Name <- SameName
  Versions = {1, 2}
SYMMETRY Symmetry
INVARIANTS
  ItemsAreReadable
  SuccessIsStored
  ReadSecretsStayFetchable
  ReportedFileIsWhole
CHECK_DEADLOCK FALSE
