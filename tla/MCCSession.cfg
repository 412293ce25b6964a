SPECIFICATION Spec
CONSTANTS
  Msgs = {m1, m2}
  MAX_SENDQUE = 1
  FRAGS = 2
  MaxAccepted = 5
INVARIANTS
  WireInOrder
  NoStall
  QueueBound
PROPERTY
  ImplementsChannel
CHECK_DEADLOCK FALSE
