SPECIFICATION Spec
CONSTANTS
  mod1 = mod1
  mod2 = mod2
  component1 = component1
  Sessions <- TwoSessions
  Components <- OneComponent
  Limit = 0
  MaxPerPass = 0
  MaxEvents = 1
  MaxTargets = 2
  MaxSubscriptions = 2
  MaxClones = 0
  Allowed <- SessionsOnly
SYMMETRY Interchangeable
INVARIANT
  StoppedSessionUnbound
PROPERTY
  SessionsIsolated
