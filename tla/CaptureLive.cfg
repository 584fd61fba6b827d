SPECIFICATION FairSpec
CONSTANTS
  r1 = r1
  Requests = {r1}
  MaxBoundaries = 2
  Events = {"suspend", "resume", "displayOff", "cancel", "shutdown", "unload", "net"}
  Verdicts = {"TransportError"}
  Purposes = {"verify", "enroll"}
INVARIANTS
  EndsOnlyWhenAsked
PROPERTIES
  PendingScans
  CancelCompletes
  StopsEnd
CHECK_DEADLOCK FALSE
