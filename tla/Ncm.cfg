SPECIFICATION Spec
CONSTANTS
  Runs = {r1, r2, r3}
  NoRun = NoRun
  Cpus = {c1, c2}
  Reads = 2
  MaxOrphans = 2
  FailThreshold = 1
  MaxResets = 1
  MaxTx = 0
  MaxNbls = 1
SYMMETRY RunCpuSymmetry
INVARIANTS
  RefsExact
  OrphansStayAway
  PausedIsSilent
  EngineExclusive
  PipesOutliveUse
  FailuresAreReal
CHECK_DEADLOCK FALSE
