\* Three splits and one backfill of a floor of two flats.
SPECIFICATION FairSpec
CONSTANTS
  FlatCount = 2
  MaxSlot = 5
  FloorOf <- MCSameFloor
  SlotOf <- MCNextSlots
  Slivered <- MCSlivered
  Uncut <- MCUncut
  Splits = {s1, s2, s3}
  Backfills = {b1}
  None = None
INVARIANTS
  OverlapOnlyByRace
  SpaceLostOnlyInSlivers
  SharesNeverOversold
PROPERTIES
  IdentifiersNeverReused
  EverySplitAnswered
CHECK_DEADLOCK FALSE
