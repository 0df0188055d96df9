CONSTANTS
  Requests = {r1, r2}
  Readers = {g1, g2}
  Buildings = {b1}
  Fields = {name}
  Unset = Unset
  Imported = Imported
  None = None
SYMMETRY Symmetry
SPECIFICATION MSpec
INVARIANTS
  MemoStaleOnlyIfSpanned
  PayloadStaleOnlyIfInherited
  ShelfNeverStale
CHECK_DEADLOCK FALSE
