SPECIFICATION Spec
CONSTANTS
  Lists <- SomeLists
  Tables <- SomeTables
  Width = 4
  MaxChanges = 1
  MaxFaults = 1
INVARIANTS
  TypeOK
  EveryAddressOnce
  PrefixesAgree
  StatsOfInterface
CHECK_DEADLOCK FALSE
