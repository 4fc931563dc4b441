\* One slot in the queue and one in the history, so that both overflow.
SPECIFICATION FairSpec
CONSTANTS
    MaxRevision = 3
    QueueLimit = 1
    HistoryLimit = 1
    MaxOperations = 1
    MaxBreaks = 2
    MaxFailures = 1
    MaxRefreshes = 1
PROPERTIES
    ViewNeverGoesBack
    DueIsShown
CHECK_DEADLOCK FALSE
