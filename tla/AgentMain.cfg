SPECIFICATION Spec
CONSTANTS
  MaxRuns = 3
  MaxTools = 2
  Disallowed <- NoTools
  Parallel <- AllTools
  Background <- FirstTool
  UserKinds <- MainKinds
  MaxOps = 1
  SendsAtOnce = 1
  Unloaded <- OnDisk
  MaxCompress = 1
CHECK_DEADLOCK FALSE
INVARIANT OneStream
INVARIANT InputInOrder
INVARIANT NoOrphanStream
INVARIANT EndedRunsAreClosed
PROPERTY InputNotLost
