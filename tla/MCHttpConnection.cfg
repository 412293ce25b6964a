SPECIFICATION HttpSpec
CONSTANTS
  Services = 2
  MaxConns = 4
INVARIANTS
  HttpTypeOK
  NoEarlyCut
  AnsweredNotHeld
PROPERTIES
  ConnectionsEnd
CHECK_DEADLOCK FALSE
