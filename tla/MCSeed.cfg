CONSTANTS
  Projects = {p1, p2}
  Loner = Loner
  Nothing = Nothing
  Torn = Torn
  NoNumber = NoNumber
  MaxRuns = 3
  MaxFaults = 1
SYMMETRY Symmetry
SPECIFICATION SeedSpec
ACTION_CONSTRAINT FewMeetings
CHECK_DEADLOCK FALSE
INVARIANTS
  RowsAreOwn
  ReadyIsWhole
  GeneratedBySomeone
