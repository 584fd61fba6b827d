SPECIFICATION FairSpec
CONSTANTS
  r1 = r1
  Requests = {r1}
  MaxBoundaries = 1
  Events = {"cancel"}
  Verdicts = {"Match"}
  Purposes = {"verify"}
PROPERTIES
  CancelCompletes
CHECK_DEADLOCK FALSE
