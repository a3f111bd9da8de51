SPECIFICATION Spec
CONSTANTS
  N = 2
  MaxFaults = 1
  MaxForeign = 1
PROPERTIES PendingAdmitsNoForeign
