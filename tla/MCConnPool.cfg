SPECIFICATION Spec
CONSTANTS
  Conns = {c1, c2}
  Threads = {t1, t2, t3}
  Kinds = {"plain", "nested", "leaky"}
  MaxNested = 1
  MayClose = TRUE
  NoThread = NoThread
INVARIANTS
  OneOwner
  NoLostWakeup
PROPERTIES
  FreeIsTaken
  WorkersBecomeFree
CHECK_DEADLOCK FALSE
