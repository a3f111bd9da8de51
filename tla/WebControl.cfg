SPECIFICATION Spec
CONSTANTS
  Handlers = {h1, h2}
  Ids = {p1, p2}
  TunConfigs = {t1, t2}
  EbpfConfigs = {e1}
  None = None
  MaxFaults = 2
SYMMETRY Symmetry
INVARIANTS TypeOK FilesAgree 
CHECK_DEADLOCK FALSE
