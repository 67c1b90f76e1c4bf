SPECIFICATION Spec
CONSTANTS
  Word = 4
  Lead = 0
  WeVersions = {16, 22}
  Lists <- SmallLists
  MaxRetry = 3
  MinBuffer = 32
  LengthMod = 256
  MemoryLimit = 256
  MaxChanges = 2
  MaxFaults = 1
INVARIANTS
  TypeOK
  Patience
  FailsForCause
PROPERTIES
  Termination
  ImplementsScan
CHECK_DEADLOCK FALSE
