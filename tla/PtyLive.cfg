SPECIFICATION Spec
CONSTANTS
  Windows = FALSE
  HangupIsEof = FALSE
  MaxInputs = 1
  MaxLen = 1
  MaxResizes = 0
  MaxOutput = 1
  Flood = TRUE
  MaxInterrupts = 1
  OutCap = 1
  InCap = 1
  ReadBuffer = 1
  MaxLockedRead = 2
  SyncMax = 2
INVARIANTS
  NoMissedEdge
  RedrawQueued
  ShellNotOrphaned
PROPERTIES
  InputReachesPty
  JoinReturns
  SyncUpdateEnds
  UiNotStarved
  ShellExitReported
CHECK_DEADLOCK FALSE
