SPECIFICATION Spec
CONSTANTS
  Records = {1, 2}
  Retries = 1
  Attempts = 2
  MaxOps = 3
  MaxFailures = 1
INVARIANT GatesHold
INVARIANT SavedMeansStored
PROPERTY EverythingReturns
PROPERTY EvictionLosesNothing
CHECK_DEADLOCK FALSE
