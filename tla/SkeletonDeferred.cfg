SPECIFICATION Spec
CONSTANTS
  h1 = h1
  h2 = h2
  startupStore = startupStore
  deferredStore = deferredStore
  a = a
  b = b
  Nobody = Nobody
  Gone = Gone
  Absent = Absent
  Torn = Torn
  Hosts <- TwoHosts
  Startup <- OneStartup
  Deferred <- OneDeferred
  Values <- TwoValues
  MaxSnapshots = 3
  Worlds <- TwoWorlds
  Mishaps <- AllMishaps
  MaxMishaps = 0
INVARIANTS StagedReadsSucceed
CHECK_DEADLOCK FALSE
SYMMETRY HostSymmetry
