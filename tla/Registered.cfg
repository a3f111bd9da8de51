SPECIFICATION FairSpec
INVARIANTS TypeOK ExecutionIsConfirmed RecoveryIsFinal
PROPERTIES PromiseSpec PausedEnds
CHECK_DEADLOCK FALSE
