SPECIFICATION FramingSpec
CONSTANTS
  Base = 4
  MAX_LENGTH = 2
  Requests <- MCRequests
  Replies <- MCReplies
  MaxSends = 3
  MaxConns = 2
INVARIANTS
  
  
  ClientReceives

  
CHECK_DEADLOCK FALSE
