SPECIFICATION Spec
CONSTANTS
  Users = {u1, u2}
  Items = {i1}
  Requests = {r1, r2, r3, r4}
  None = None
  MaxVersion = 2
  MaxTime = 3
SYMMETRY Symmetry
INVARIANTS
  TypeOK
  NoUpdateIsLost
  AnswersAreFounded
PROPERTIES
  TombstoneIsFinal
  UpdatedAtNeverBack
  ImplementsStore
CHECK_DEADLOCK FALSE
