SPECIFICATION FairSpec
CONSTANTS
  p1 = p1
  p2 = p2
  a1 = a1
  a2 = a2
  b1 = b1
  NoFile = NoFile
  Proc = {p1, p2}
  Task <- ThreeCalls
  ProcOf <- ThreeCallsProc
  MayCrash = {p2}
  SlowCreate = TRUE
  FileOpsMayFail = TRUE
INVARIANTS InProcessExclusion
PROPERTIES LockHolds DeadOwnerRecovered EveryCallEnds
CHECK_DEADLOCK FALSE
