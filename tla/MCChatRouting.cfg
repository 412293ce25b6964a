SPECIFICATION Spec
CONSTANTS
  Servers = {s1, s2}
  Sessions = {x1, x2}
  Uids = {u1}
  Msgs = {m1}
  Garbage = {u1}
  IOFails = TRUE
  MayCrash = FALSE
  None = None
INVARIANTS
  TypeOK
  
  ClearedWhenClosed
SYMMETRY Symmetry
CHECK_DEADLOCK FALSE
