\* A stop during the start: RUNNING is written over STOPPED and nobody stops.
SPECIFICATION FairSpec
CONSTANTS
  MaxStarts = 1
  MaxAttempts = 1
  MaxIncidents = 1
  Incidents = {"control"}
PROPERTIES EveryStopEnds
CHECK_DEADLOCK FALSE
