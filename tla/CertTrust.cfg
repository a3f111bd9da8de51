SPECIFICATION Spec
CONSTANTS
  CA = {a, b}
  Slots = {s1, s2}
  None = None
  NPoints = 2
  MaxLayers = 2
  MaxFaults = 2
  MaxForeign = 2
  MaxTroubles = 2
INVARIANTS TypeOK NoDangling TrustAgrees
PROPERTIES SharedKept
SYMMETRY Symmetry
