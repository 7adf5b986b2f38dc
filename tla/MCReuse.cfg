SPECIFICATION Spec
CONSTANTS
  Sessions = {mod1}
  slot1 = slot1
  slot2 = slot2
  Indices <- TwoSlots
  Addresses = {1}
  ObservationLimit = 2
  LossLimit = 1
  MaxObjects = 2
  MaxTokens = 3
  MaxReferences = 2
SYMMETRY Interchangeable
CHECK_DEADLOCK FALSE
INVARIANTS
  IndexesAgree
  ValidMeansSameObject
  LossesAccounted
PROPERTIES
  FaultedFailsClosed
  NotificationEndsObservations
