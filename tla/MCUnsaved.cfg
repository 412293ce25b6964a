SPECIFICATION Spec
CONSTANTS
  Threads = {t1, t2}
  Conns = {c1, c2}
  Users = {a, b}
  Msgs = {m1}
  MaxRequests = 3
  MaxLost = 1
  None = None
INVARIANTS
  SavedIsDurable
CHECK_DEADLOCK FALSE
