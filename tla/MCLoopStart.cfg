SPECIFICATION Spec
CONSTANTS
  Sessions = {mod1, mod2}
  States = {state1, state2}
  NoSession = NoSession
  Capacity = 2
  MaxTokens = 3
INVARIANTS
  AtMostOneLateCallback
  AliasesExact
PROPERTIES
  OneChance
  RegisteredRuns
