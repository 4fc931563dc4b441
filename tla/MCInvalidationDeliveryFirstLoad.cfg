\* Nothing fails: what is lost here is lost while the first snapshot loads.
SPECIFICATION Spec
CONSTANTS
    MaxRevision = 2
    QueueLimit = 2
    HistoryLimit = 2
    MaxOperations = 0
    MaxBreaks = 0
    MaxFailures = 0
    MaxRefreshes = 0
INVARIANTS
    SettledViewIsCurrent
CHECK_DEADLOCK FALSE
