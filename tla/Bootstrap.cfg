\* Two starts in one boot; a control, a crash or a removal; failing Win32 calls.
SPECIFICATION FairSpec
CONSTANTS
  MaxStarts = 2
  MaxAttempts = 1
  MaxIncidents = 2
  Incidents = {"control", "crash", "remove", "api"}
INVARIANTS ReadyMeansUnlocked
PROPERTIES StartsAndStopsEnd OutcomeReported LockRequestsServed
\* The service idles, and in the end the boot is over.
CHECK_DEADLOCK FALSE
