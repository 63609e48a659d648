\* Two tasks, and one user command that clears the executor.
CONSTANTS
  a = a
  b = b
  Commands = {a, b}
  None = None
  Failure = Failure
  MaxClears = 1
SPECIFICATION Spec
INVARIANTS TypeOK RepliesAreOwn NeverStalls RunnerIsOutstanding ExecuteFollowsCancel
PROPERTIES EveryCommandResolves
CHECK_DEADLOCK FALSE
