SPECIFICATION Spec
CONSTANTS
  Subsystems = {player1}
  Services = {"ready"}
  Observers = {}
  MaxScopes = 1
  MaxBindings = 1
  MaxFailures = 1
CHECK_DEADLOCK FALSE
INVARIANT
  RootedContextsKept
