SPECIFICATION SpecSettings
CONSTANTS
  Users = {u1, u2}
  Ids = {i1, i2}
  Types = {"otp", "binary"}
  MaxVersion = 3
  MaxTicks = 1
  None = None
SYMMETRY Symmetry
INVARIANTS
  OneCommandWhileBusy
  ScreenHasItsState
  FormIsOfItsTarget
  ShowsOnlyOwnSecrets
  DetailIsCurrent
PROPERTIES
  ChangesWhatWasOnScreen
CHECK_DEADLOCK FALSE
