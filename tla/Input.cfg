\* Two tasks, one of which may be aborted, and one command of the user.
SPECIFICATION FairSpec
CONSTANTS
  c1 = c1
  i1 = i1
  i2 = i2
  None = None
  Failure = Failure
  Cmds = {c1}
  InBand = {i1, i2}
  Zsh = FALSE
  Abortable = {i1}
  MaxClears = 1
PROPERTIES ControllerSpec ExecutorSpec EveryCommandResolves
CHECK_DEADLOCK FALSE
