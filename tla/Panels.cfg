SPECIFICATION PartsSpec
CONSTANTS
  p1 = p1
  p2 = p2
  talk = talk
  g = g
  None = None
  Panels = {p1, p2}
  Kind <- Chats
  Convs = {talk}
  Default = talk
  Global = g
  MaxChanges = 2
  MaxDeltas = 1
  MaxOpened = 2
  MaxFlight = 2
SYMMETRY Symmetry
INVARIANTS PanelsAgree WindowHolds
PROPERTIES NobodyStarves
CHECK_DEADLOCK FALSE
