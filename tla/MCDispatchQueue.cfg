SPECIFICATION FairSpec
CONSTANTS
  Owners = {s1, s2}
  Limit = 2
  MaxPerPass = 1
  MaxEvents = 4
INVARIANTS
  TypeOK
  WithinCapacity
  NoLostWakeup
  BacklogCountExact
PROPERTIES
  PassProgress
  AcceptedIsExamined
  ImplementsOrderedDelivery
