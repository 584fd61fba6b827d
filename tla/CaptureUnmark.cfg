SPECIFICATION Spec
CONSTANTS
  r1 = r1
  Requests = {r1}
  MaxBoundaries = 1
  Events = {"cancel"}
  Verdicts = {"Match"}
  Purposes = {"verify"}
INVARIANTS
  UnmarkBeforeCompletion
CHECK_DEADLOCK FALSE
