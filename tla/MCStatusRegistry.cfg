SPECIFICATION Spec
CONSTANTS
  Servers = {s1}
  HEARTBEAT = 3
  CHECK = 2
  TIMEOUT = 6
  LATENCY = 1
  MaxFailures = 2
  MaxCrashes = 2
  MaxRestarts = 1
INVARIANTS
  TypeOK
  BoundedStaleness
  LiveStaysRegistered
  
PROPERTY
  Reconnects
