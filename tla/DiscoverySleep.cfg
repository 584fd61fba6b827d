\* A suspend in a phase: after the resume the driver is still in the mode of the phase.
SPECIFICATION Spec
CONSTANTS
  Ports = 1
  Grace = 0
  Events = {"net", "sleep"}
  MaxChanges = 3
INVARIANTS
  ModeIsCommitted
CHECK_DEADLOCK FALSE
