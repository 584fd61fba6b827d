SPECIFICATION Spec
CONSTANTS
  i1 = i1
  i2 = i2
  Ids = {i1, i2}
  Foreign = {i2}
  NoId = NoId
  MaxSessions = 2
  MaxIncidents = 2
  MaxUnread = 2
  SetUp = {"reset"}
  ShortVerify = TRUE
  LiveChoices = {TRUE, FALSE}
  ArmIsKept = TRUE
INVARIANTS
  OnlyLiveTouchMatches
CHECK_DEADLOCK FALSE
