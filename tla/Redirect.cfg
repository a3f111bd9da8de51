SPECIFICATION FairSpec
CONSTANTS
  Socks = {s1, s2, s3}
  Ports = {p1}
  None = None
  MaxConnections = 2
  MaxStarts = 1
INVARIANTS TypeOK OwnDestination MapsOutliveResolvers
PROPERTIES RedirectWhileServing StopEnds
CHECK_DEADLOCK FALSE
