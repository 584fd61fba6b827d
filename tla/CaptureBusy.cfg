SPECIFICATION Spec
CONSTANTS
  r1 = r1
  r2 = r2
  Requests = {r1, r2}
  MaxBoundaries = 1
  Events = {"cancel"}
  Verdicts = {"NoMatch"}
  Purposes = {"verify"}
PROPERTIES
  BusyOnlyBehindLive
CHECK_DEADLOCK FALSE
