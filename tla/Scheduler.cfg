SPECIFICATION FairSpec
CONSTANTS
  e1 = e1
  e2 = e2
  e3 = e3
  Event <- ThreeEvents
  MaxIter = 3
CHECK_DEADLOCK FALSE
INVARIANTS LoopHolds
PROPERTIES EveryEventDelivered StopEnds
