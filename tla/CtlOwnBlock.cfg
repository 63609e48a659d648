\* A command of the agent while an in-band one is in flight.
SPECIFICATION Spec
CONSTANTS
  c1 = c1
  i1 = i1
  None = None
  Cmds = {c1}
  Agent = {c1}
  InBand = {i1}
  Zsh = FALSE
  MaxRequests = 0
  MaxTyped = 0
INVARIANT CommandRunsInItsBlock
CHECK_DEADLOCK FALSE
