SPECIFICATION FairSpec
CONSTANTS
  Ctl = {c1, c2}
  MaxEngines = 2
  MaxFaults = 2
INVARIANTS TypeOK RulesJournaled RetryIsNotRefused WatcherSparesLiveEngine
PROPERTIES DeadEngineCleaned
