SPECIFICATION Spec
CONSTANTS
  Windows = TRUE
  HangupIsEof = TRUE
  MaxInputs = 2
  MaxLen = 2
  MaxResizes = 1
  MaxOutput = 0
  Flood = FALSE
  MaxInterrupts = 1
  OutCap = 1
  InCap = 1
  ReadBuffer = 1
  MaxLockedRead = 1
  SyncMax = 2
INVARIANTS
  TypeOK
  NoLostWakeup
  ShellNotOrphaned
PROPERTIES
  PipeSpec
CHECK_DEADLOCK FALSE
