SPECIFICATION FairSpec
CONSTANTS
  r1 = r1
  Requests = {r1}
  MaxBoundaries = 1
  Events = {"ioStop"}
  Verdicts = {"NoMatch"}
  Purposes = {"verify"}
PROPERTIES
  PendingScans
CHECK_DEADLOCK FALSE
