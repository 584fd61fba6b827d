SPECIFICATION FairSpec
CONSTANTS
  Ports = 2
  Grace = 1
  Events = {"net", "setting", "unlock", "sleep", "cancel", "restart", "reload", "ioctl", "cli"}
  MaxChanges = 3
INVARIANTS
  PhaseEndsCommitted
  StickyEarned
PROPERTIES
  CommitHasCause
  Reconnects
\* A bridge that is connected may idle for ever.
CHECK_DEADLOCK FALSE
