SPECIFICATION PanelSpec
CONSTANTS
  Connectors = {c1, c2}
  New = New
  NoConnector = NoConnector
  Unborn = Unborn
  Deleted = Deleted
  MaxTyped = 1
  MaxOthers = 1
SYMMETRY Symmetric
CONSTRAINT TwoAtOnce
INVARIANT PanelTypeOK SavesAreOwn
PROPERTY ConfigChangesAreEdits
CHECK_DEADLOCK FALSE
