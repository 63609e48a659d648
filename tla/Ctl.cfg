\* Two commands of the user, one of the executor, one completion request and
\* one command typed ahead.
SPECIFICATION FairSpec
CONSTANTS
  c1 = c1
  c2 = c2
  i1 = i1
  None = None
  Cmds = {c1, c2}
  Agent = {}
  InBand = {i1}
  Zsh = TRUE
  MaxRequests = 1
  MaxTyped = 1
INVARIANT TypeOK
INVARIANT InFlightIsExact
INVARIANT OneCommandAtATime
INVARIANT NobodyWaitsForDropped
INVARIANT PromptIsExclusive
PROPERTY SubmittedCommandRuns
PROPERTY QueuedIsWritten
CHECK_DEADLOCK FALSE
