SPECIFICATION FairSpec
CONSTANTS
  Passwords = {p1, p2}
  None = None
  MaxMoves = 3
INVARIANTS PasswordKept FormAttended
PROPERTY HostGetsIn
CHECK_DEADLOCK FALSE
