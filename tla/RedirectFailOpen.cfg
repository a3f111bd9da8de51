SPECIFICATION FairSpec
CONSTANTS
  Socks = {s1, s2}
  Ports = {p1, p2}
  None = None
  MaxConnections = 2
  MaxStarts = 1
PROPERTY FailOpen
CHECK_DEADLOCK FALSE
