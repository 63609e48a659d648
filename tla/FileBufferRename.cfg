CONSTANTS
  e1 = e1
  Editors = {e1}
  Bounds <- RenameBounds
  MaxUndo = 1
  MaxDeeds = 2
  MaxReads = 2
SPECIFICATION Spec
PROPERTY NoEditOverwritten
CHECK_DEADLOCK FALSE
