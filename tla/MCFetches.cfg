\* Two projects that number their things alike; room for one of two building documents
\* and one save in all; room for two of three volumes, and three topology runs.
CONSTANTS
  None = None
  Projects = {p1, p2}
  Ids = {i1, i2, i3}
  Only = i1
  Limit = 2
  MaxAsks = 3
  Buildings = {b1, b2}
  DetailLimit = 1
  MaxSaves = 1
SYMMETRY Symmetry
SPECIFICATION BothSpec
CHECK_DEADLOCK FALSE
INVARIANTS
  IdleOnlyIfFailedOrDropped
  FindingsOfLastRun
  WaitsOnlyIfDropped
  SavedStays
PROPERTY
  AnswersOwnPage
