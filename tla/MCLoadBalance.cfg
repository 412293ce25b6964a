SPECIFICATION Spec
CONSTANTS
  Servers = {s1, s2}
  Uids = {u1}
  Calls = {g1}
  Logins = {h1, h2}
  RedisFails = TRUE
  None = None
INVARIANTS
  ChosenIsLeast
  CountNeverAhead
CHECK_DEADLOCK FALSE
SYMMETRY Symmetry
