\* Renames that are refused, reads that fail, a legacy store to adopt, no crash: what is
\* eventually answered, and what becomes of the legacy edits.
CONSTANTS
  Requests = {r1, r2}
  Readers = {rd1}
  Buildings = {b1}
  Fields = {name, floors}
  Unset = Unset
  Imported = Imported
  Adopts = TRUE
  HasLegacy = TRUE
  RenameFails = TRUE
  InPlaceFails = FALSE
  ReadFails = TRUE
  ColdOverlap = FALSE
  MaxCrashes = 0
SPECIFICATION FairSpec
INVARIANT LegacyKept
PROPERTY EveryMutationAnswered
CHECK_DEADLOCK FALSE
