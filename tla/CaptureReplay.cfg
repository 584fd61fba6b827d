SPECIFICATION Spec
CONSTANTS
  r1 = r1
  r2 = r2
  Requests = {r1, r2}
  MaxBoundaries = 1
  Events = {"lock"}
  Verdicts = {"Match"}
  Purposes = {"verify"}
PROPERTIES
  NoStaleReplay
CHECK_DEADLOCK FALSE
