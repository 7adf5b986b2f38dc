SPECIFICATION Spec
CONSTANTS
  Bootstraps = {main1, main2, main3}
  Versions <- SomeVersions
  None = None
INVARIANTS
  TypeOK
  OneImplementation
  RetainedStaysLoaded
  ClaimReleased
PROPERTY
  NewestUsableStarts
