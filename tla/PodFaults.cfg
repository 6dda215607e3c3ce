CONSTANTS
  NumPods = 2
  Looped = {1}
  CrashCount = 1
  MaxFailures = 2
  Counts <- PodCounts
  MaxChanges = 2
  MaxErrors = 1
SPECIFICATION FairSpec
INVARIANTS NoMissedUpdate CrashesVerified 
PROPERTY CallsEnd
CHECK_DEADLOCK FALSE
