SPECIFICATION Spec
CONSTANTS
  r1 = r1
  Requests = {r1}
  MaxBoundaries = 1
  Events = {"lock"}
  Verdicts = {"NoMatch"}
  Purposes = {"verify"}
INVARIANTS
  EndsAsDocumented
CHECK_DEADLOCK FALSE
