SPECIFICATION FairSpec
CONSTANTS
  Runs = {r1}
  NoRun = NoRun
  Cpus = {c1}
  Reads = 1
  MaxOrphans = 1
  FailThreshold = 1
  MaxResets = 1
  MaxTx = 1
  MaxNbls = 0
PROPERTIES
  CallbacksAndResetsEnd
CHECK_DEADLOCK FALSE
