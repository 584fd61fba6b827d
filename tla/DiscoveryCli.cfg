SPECIFICATION Spec
CONSTANTS
  Ports = 1
  Grace = 0
  Events = {"cli", "net"}
  MaxChanges = 3
INVARIANTS
  ModeIsCommitted
CHECK_DEADLOCK FALSE
