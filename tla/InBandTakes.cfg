\* cancel_command takes a command that is not its own.
CONSTANTS
  a = a
  b = b
  Commands = {a, b}
  None = None
  Failure = Failure
  MaxClears = 0
SPECIFICATION Spec
PROPERTIES ClearsOnlyItsOwn
CHECK_DEADLOCK FALSE
