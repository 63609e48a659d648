\* Two completion requests, and a command of the user.
SPECIFICATION Spec
CONSTANTS
  c1 = c1
  i1 = i1
  None = None
  Cmds = {c1}
  Agent = {}
  InBand = {i1}
  Zsh = FALSE
  MaxRequests = 2
  MaxTyped = 0
INVARIANT PromptIsExclusive
CHECK_DEADLOCK FALSE
