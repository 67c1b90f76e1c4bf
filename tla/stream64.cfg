SPECIFICATION Spec
CONSTANTS
  Word = 8
  Lead = 1
  WeVersions = {22}
  Events <- AllEvents
  MaxEvents = 3
INVARIANTS
  EventsArrive
CHECK_DEADLOCK FALSE
