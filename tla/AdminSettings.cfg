CONSTANTS
  NoData = NoData
  Untouched = Untouched
  Locks = {{}, {"switch"}}
  MaxEdits = 2
  MaxRivals = 1
SPECIFICATION Spec
INVARIANTS TypeOK SomeSignInRemains
PROPERTIES UneditedSettingsStay SavesPersist
CHECK_DEADLOCK FALSE
