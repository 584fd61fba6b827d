SPECIFICATION FairSpec
CONSTANTS
  r1 = r1
  Requests = {r1}
  MaxBoundaries = 1
  Events = {"purge", "net"}
  Verdicts = {"NoMatch"}
  Purposes = {"enroll"}
PROPERTIES
  ShutdownClosesCaptures
CHECK_DEADLOCK FALSE
