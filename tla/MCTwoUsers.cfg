SPECIFICATION Spec
CONSTANTS
  Servers = {s1, s2}
  Sessions = {x1, x2}
  Uids = {u1, u2}
  Msgs = {m1}
  Garbage = {None}
  IOFails = FALSE
  MayCrash = TRUE
  None = None
INVARIANTS
  NoMisdelivery
  
  
SYMMETRY Symmetry
CHECK_DEADLOCK FALSE
