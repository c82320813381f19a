SPECIFICATION PartsSpec
CONSTANTS
  h1 = h1
  h2 = h2
  call = call
  Gone = Gone
  Absent = Absent
  N = 3
  Token = {"x"}
  ReadRole = {"none", "lookup", "work"}
  ModeSet <- EveryMode
  Explicit <- AnyEdges
INVARIANTS EdgesRespected WavesConflictFree CycleNeedsBackEdge StoreWhole
PROPERTIES JobsHeld RecordsStand IsRegister ChildrenHold LockHolds
CHECK_DEADLOCK FALSE
