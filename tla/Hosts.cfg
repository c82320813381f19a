SPECIFICATION PartsSpec
CONSTANTS
  h1 = h1
  h2 = h2
  startupStore = startupStore
  deferredStore = deferredStore
  a = a
  b = b
  Nobody = Nobody
  Gone = Gone
  Absent = Absent
  Torn = Torn
  None = None
  Hosts = {h1, h2}
  Startup = {startupStore}
  Deferred = {deferredStore}
  Values = {a, b}
  Worlds <- TwoWorlds
  MaxSnapshots = 3
  Mishaps = {"crash", "fault", "damage", "lapse"}
  MaxMishaps = 1
  Servers = {1, 2}
  MaxSaves = 2
  McpFaults = 2
  Procs = {"npm"}
  MaxOutput = 2
  CommandFaults = 3
  MaxReads = 4
SYMMETRY Symmetry
INVARIANTS SnapshotsHold ConnectionsHold OutputHolds
PROPERTIES IsRegister ReportsHold
CHECK_DEADLOCK FALSE
