\* No overlapping cold loads, atomic renames, a file that is there can be read; one
\* crash, failing writes, and a legacy store whose adoption may fail.
CONSTANTS
  Requests = {r1, r2, r3}
  Readers = {rd1}
  Buildings = {b1}
  Fields = {name, floors}
  Unset = Unset
  Imported = Imported
  Adopts = TRUE
  HasLegacy = TRUE
  RenameFails = FALSE
  InPlaceFails = TRUE
  ReadFails = FALSE
  ColdOverlap = FALSE
  MaxCrashes = 1
SYMMETRY Symmetry
SPECIFICATION Spec
INVARIANTS
  ReadsKeepEveryEdit
  AckedEditsDurable
PROPERTIES
  ImplementsRegister
CHECK_DEADLOCK FALSE
