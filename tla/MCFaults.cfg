SPECIFICATION FairSpec
CONSTANTS
  mod1 = mod1
  mod2 = mod2
  component1 = component1
  Sessions <- OneSession
  Components <- OneComponent
  Limit = 1
  MaxPerPass = 1
  MaxEvents = 2
  MaxTargets = 2
  MaxSubscriptions = 2
  MaxClones = 0
  Allowed <- FaultsOnly
INVARIANTS
  PolicyPrecedesBinding
  ReportedOnce
PROPERTIES
  ErrorIsFinal
  ImplementsQueue
  FaultIsReported
