SPECIFICATION Spec
CONSTANTS
  Msgs = {m1, m2}
  Histories = {h1}
  Marks = {k1}
  LIMIT = 3
  MaxFails = 1
  None = None
INVARIANTS
  TypeOK
  QueueCounted
  
  HistoryComplete
CHECK_DEADLOCK FALSE
SYMMETRY Symmetry
