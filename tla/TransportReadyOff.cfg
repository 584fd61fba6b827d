SPECIFICATION Spec
CONSTANTS
  b1 = b1
  b2 = b2
  b3 = b3
  b4 = b4
  Bufs = {b1, b2, b3, b4}
  NoBuf = NoBuf
  TxnMod = 3
  MaxSkip = 2
  MaxQueue = 1
  MaxContexts = 1
  ResumeMayFail = FALSE
  AckReleases = TRUE
SYMMETRY BufSymmetry
INVARIANTS
  ReadyOnlyInD0
