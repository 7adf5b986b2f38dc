SPECIFICATION RetrySpec
CONSTANTS
  Subsystems = {player1}
  Services = {"ready"}
  Observers <- OneObserver
  MaxScopes = 2
  MaxBindings = 2
  MaxFailures = 1
CHECK_DEADLOCK FALSE
INVARIANTS
  ContextsOwned
  HandlesOwned
  SilencedStaysSilent
PROPERTY
  UnbindAllFinishes
