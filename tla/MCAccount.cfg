SPECIFICATION Spec
CONSTANTS
  Emails = {e1, e2}
  Names = {n1, n2}
  Passwords = {w1}
  Codes = {c1, c2}
  Requests = {v1, v2}
  Posts = {p1, p2, p3}
  MayExpire = TRUE
  MayFail = TRUE
  None = None
INVARIANTS
  RegisteredIsUnique
  StoredCodeIsMailed
SYMMETRY Symmetry
CHECK_DEADLOCK FALSE
