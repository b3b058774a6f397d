SPECIFICATION SpecLive
CONSTANTS
  Users = {u1}
  Ids = {i1}
  Types = {"otp", "binary"}
  MaxVersion = 2
  MaxTicks = 2
  None = None
PROPERTIES
  KeysComeBack
  TicksDieOut
CHECK_DEADLOCK FALSE
