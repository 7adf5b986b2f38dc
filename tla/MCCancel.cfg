SPECIFICATION Spec
CONSTANTS
  Sessions = {mod1, mod2}
  States = {state1, state2}
  NoSession = NoSession
  Capacity = 2
  MaxTokens = 2
CHECK_DEADLOCK FALSE
INVARIANT
  CancelAnswersWhetherItCancelled
