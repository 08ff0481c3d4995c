CONSTANTS
  Absent = Absent
  NoDraft = NoDraft
  NoData = NoData
  MaxEdits = 1
SPECIFICATION Spec
INVARIANTS TypeOK OwnSavesAreShown CreatedOnce
PROPERTIES UntouchedFieldsStay TypedTextStays
CHECK_DEADLOCK FALSE
