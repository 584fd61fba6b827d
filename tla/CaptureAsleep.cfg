SPECIFICATION Spec
CONSTANTS
  r1 = r1
  Requests = {r1}
  MaxBoundaries = 2
  Events = {"displayOff", "suspend"}
  Verdicts = {"NoMatch"}
  Purposes = {"verify"}
INVARIANTS
  NoSessionDuringSleep
CHECK_DEADLOCK FALSE
