SPECIFICATION FairSpec
CONSTANTS
  Handlers = {h1, h2}
  Ids = {p1, p2}
  TunConfigs = {t1}
  EbpfConfigs = {}
  None = None
  MaxFaults = 0
PROPERTY Answered
CHECK_DEADLOCK FALSE
