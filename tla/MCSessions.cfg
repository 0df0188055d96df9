\* Three requests of one browser, two instances, each started again once, a clock that passes the ceiling.
SPECIFICATION Spec
CONSTANTS
  Instances = {one, two}
  Ttl = 2
  Cap = 3
  MaxTime = 4
  MaxRequests = 3
  MaxRestarts = 1
  MaxAir = 2
  None = None
INVARIANTS
  ActiveStaysIn
  OutUnlessForgotten
CHECK_DEADLOCK FALSE
