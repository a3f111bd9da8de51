SPECIFICATION FairSpec
CONSTANTS
  MaxRestarts = 1
  MaxCommands = 2
  MaxSessions = 2
INVARIANTS TypeOK CleanMeansClean MarkerGuards GateMeansQuiet
PROPERTIES LaunchOnClean StopReturns
CHECK_DEADLOCK FALSE
