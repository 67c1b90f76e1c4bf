SPECIFICATION Spec
CONSTANTS
  Devices = {"wlan0", "eth0"}
  Room = 1
  Headers <- SomeHeaders
  Drivers <- Generations
  MaxCalls = 3
  Sizes <- Boundaries
  Start = 16
  Limit = 1000
  Settings <- SomeSettings
  Supports <- SomeSupports
  Top = 4
  Keep = 2
  MaxFaults = 2
  MaxMeddling = 1
  MaxChanges = 2
INVARIANTS
  TypeOK
  OneReportEach
  Balanced
  FieldsArrive
  OneComplaint
  Satisfied
  Restored
  JoinsLast
PROPERTIES
  Termination
CHECK_DEADLOCK FALSE
