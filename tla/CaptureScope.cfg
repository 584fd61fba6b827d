SPECIFICATION Spec
CONSTANTS
  r1 = r1
  Requests = {r1}
  MaxBoundaries = 1
  Events = {"cancel"}
  Verdicts = {"Match"}
  Purposes = {"verify"}
INVARIANTS
  TrackOutlivesCallback
CHECK_DEADLOCK FALSE
