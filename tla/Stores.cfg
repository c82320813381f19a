SPECIFICATION PartsSpec
CONSTANTS
  w1 = w1
  w2 = w2
  c1 = c1
  c2 = c2
  p1 = p1
  p2 = p2
  None = None
  Windows = {w1, w2}
  Calls = {c1, c2}
  Roots = {"A", "B"}
  First = "A"
  Dirs = {1, 2}
  MaxWrites = 1
  MaxMoves = 2
  MaxLoads = 1
  MaxFaults = 1
  Panels = {p1, p2}
  ConfigIds = {1, 2}
  MaxEdits = 2
  EditsWhileLoading = FALSE
SYMMETRY Symmetry
INVARIANTS WritesKept AdmissionHolds FormsHold
PROPERTIES SavesHold
CHECK_DEADLOCK FALSE
