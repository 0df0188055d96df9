\* Two requests, two outages.
SPECIFICATION Spec
CONSTANTS
  Requests = {g1, g2}
  Slugs = {demo, city}
  Demo = demo
  InDatabase = {demo, city}
  Exported = {demo}
  None = None
  NoValue = NoValue
  MaxOutages = 2
SYMMETRY Symmetry
INVARIANTS
  MislabelledOnlyByFailure
  ForeignRowsOnlyInDemo
  CleanRequestsReachDatabase
CHECK_DEADLOCK FALSE
