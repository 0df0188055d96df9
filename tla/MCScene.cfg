CONSTANTS
  b1 = b1
  b2 = b2
  None = None
  Buildings = {b1, b2}
  Levels <- MCLevels
  Pipes = {p}
  Roads = {r}
  Sites = {s}
  Plots = {q}
  Entries = {e}
  Unposable <- MCUnposable
  Home <- MCHome
  Links <- MCLinks
  Projects = {p1, p2}
  Fields = {f1, f2}
  MaxTouched = 3
  Count = 2
  First = 1
  Heights = {1, 2}
  MaxVisits = 2
SPECIFICATION SceneOnly
CHECK_DEADLOCK FALSE
INVARIANTS
  DrawnAsStored
  ForeignOnlyAfterFailure
PROPERTIES
  OverlayEnds
