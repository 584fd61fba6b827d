SPECIFICATION FairSpec
CONSTANTS
  b1 = b1
  b2 = b2
  Bufs = {b1, b2}
  NoBuf = NoBuf
  TxnMod = 3
  MaxSkip = 2
  MaxQueue = 1
  MaxContexts = 1
  ResumeMayFail = TRUE
  AckReleases = TRUE
INVARIANTS
  LockedExchange
  OwnReply
PROPERTIES
  DriverFreesOnlyUnknown
  NoResurrection
  EverythingEnds
