SPECIFICATION FairSpec
CONSTANTS
  MaxRuns = 2
  MaxTools = 2
  Disallowed <- NoTools
  Parallel <- NoTools
  Background <- FirstTool
  UserKinds <- LiveKinds
  MaxOps = 1
  SendsAtOnce = 1
  Unloaded <- OnDisk
  MaxCompress = 1
CHECK_DEADLOCK FALSE
PROPERTY EndedStaysEnded
PROPERTY QueueMoves
PROPERTY RunsEnd
