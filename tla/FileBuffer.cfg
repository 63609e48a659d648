CONSTANTS
  e1 = e1
  e2 = e2
  Editors = {e1, e2}
  Bounds <- SmallBounds
  MaxUndo = 1
  MaxDeeds = 4
  MaxReads = 2
SPECIFICATION Spec
INVARIANTS TypeOK DiffFitsBuffer CleanIsStored CleanIsCurrent
PROPERTIES OnlyRenameLosesEdits UpdatesAreAnswered
CHECK_DEADLOCK FALSE
