SPECIFICATION Spec
CONSTANTS
  Runs = {r1}
  NoRun = NoRun
  Cpus = {c1}
  Reads = 1
  MaxOrphans = 1
  FailThreshold = 1
  MaxResets = 2
  MaxTx = 1
  MaxNbls = 0
INVARIANTS
  StuckTxRestartsDevice
CHECK_DEADLOCK FALSE
