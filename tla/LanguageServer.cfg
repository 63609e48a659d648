CONSTANTS
  c1 = c1
  Calls = {c1}
  MaxLaunches = 2
  Bounds <- SmallBounds
  MaxDeeds = 4
SPECIFICATION Spec
INVARIANTS TypeOK OneServer StopIsKept DocumentInStep
PROPERTIES AnswersArrive ShutdownEnds
CHECK_DEADLOCK FALSE
