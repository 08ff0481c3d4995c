CONSTANTS
  NoData = NoData
  NoRow = NoRow
  MaxRows = 2
  MaxLines = 2
  MaxBusy = 1
SPECIFICATION Spec
INVARIANTS TypeOK ListShowsOwnChanges ImportsAddUp RetriesAreSafe
CHECK_DEADLOCK FALSE
