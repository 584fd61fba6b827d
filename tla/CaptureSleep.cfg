SPECIFICATION Spec
CONSTANTS
  r1 = r1
  r2 = r2
  Requests = {r1, r2}
  MaxBoundaries = 2
  Events = {"cancel", "suspend", "resume", "lock", "displayOff", "reset"}
  Verdicts = {"Match", "NoMatch"}
  Purposes = {"verify"}
SYMMETRY RequestSymmetry
INVARIANTS
  CompletedOnce
  OneSession
PROPERTIES
  NoStaleMatch
CHECK_DEADLOCK FALSE
