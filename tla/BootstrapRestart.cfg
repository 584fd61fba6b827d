\* The service is stopped and started again.
SPECIFICATION Spec
CONSTANTS
  MaxStarts = 2
  MaxAttempts = 1
  MaxIncidents = 1
  Incidents = {"control"}
PROPERTIES OncePerBoot
CHECK_DEADLOCK FALSE
