SPECIFICATION Spec
CONSTANTS
  MaxRuns = 3
  MaxCalls = 3
  MaxConvs = 2
  MaxStops = 0
  MaxDepth = 2
PROPERTIES CallerStaysAlive
CHECK_DEADLOCK FALSE
