SPECIFICATION Spec
CONSTANTS
  r1 = r1
  r2 = r2
  r3 = r3
  Requests = {r1, r2, r3}
  MaxBoundaries = 1
  Events = {"reset", "displayOff", "shutdown", "veto", "purge", "unload", "bootstrap", "ioStop", "noThread"}
  Verdicts = {"Match", "NotReady"}
  Purposes = {"verify", "enroll", "other"}
SYMMETRY RequestSymmetry
INVARIANTS
  ReplaysAreFew
  UnloadedIsQuiet
CHECK_DEADLOCK FALSE
