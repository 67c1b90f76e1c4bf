SPECIFICATION Spec
CONSTANTS
  Word = 4
  Lead = 0
  WeVersions = {22}
  Lists <- Crowds
  MaxRetry = 3
  MinBuffer = 32
  LengthMod = 128
  MemoryLimit = 256
  MaxChanges = 1
  MaxFaults = 0
INVARIANTS
  EverybodySatisfied
CHECK_DEADLOCK FALSE
