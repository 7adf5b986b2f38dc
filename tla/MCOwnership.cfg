SPECIFICATION Spec
CONSTANTS
  mod1 = mod1
  mod2 = mod2
  component1 = component1
  Sessions <- OneSession
  Components <- OneComponent
  Limit = 0
  MaxPerPass = 1
  MaxEvents = 2
  MaxTargets = 1
  MaxSubscriptions = 2
  MaxClones = 1
  Allowed <- OwnershipOnly
INVARIANTS
  OwnershipExact
  UnloadSafe
  PurgedStaysPurged
  AtMostOneLateCall
PROPERTIES
  ImplementsQueue
