SPECIFICATION SpecClient
CONSTANTS
  None = None
  TicksPerSecond = 2
  Secrets = {k1, notBase32}
  Keys = {k1}
  Algorithms = {"SHA1", "SHA256"}
  Periods = {0, 1, 3, 7}
  Mac <- AnyMac
  MaxClock = 130
  Processes = {p1, p2, p3}
  Path = Path
  NoFile = NoFile
  Lengths <- SmallLengths
  ChunkSize = 5
  MaxSize = 500
  MaxMessage = 182
SYMMETRY Symmetry
INVARIANTS
  CodeIsAsSaid
  UploadIsTheFile
PROPERTIES
  SavesAreAtomic
  FieldsSurviveForms
CHECK_DEADLOCK FALSE
