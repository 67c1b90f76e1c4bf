SPECIFICATION Spec
CONSTANTS
  Word = 4
  Lead = 1
  WeVersions = {18, 22}
  Events <- AllEvents
  MaxEvents = 3
INVARIANTS
  TypeOK
  EventsArrive
  PayloadInEvent
PROPERTIES
  Advances
CHECK_DEADLOCK FALSE
