SPECIFICATION FairSpec
CONSTANTS
  s1 = s1
  Sessions <- OneSession
  Debugged <- OneSession
  Limit = 1
  TraceLimit = 2
  TraceBudget = 1
  Interval = 2
  MaxExecutes = 4
INVARIANTS
  WarningsExact
  QuietAfterShutdown
PROPERTY
  WarningIsPrinted
