\* Two operations that meet in a branch or create it, retention of one result.
CONSTANTS
    w1 = w1
    w2 = w2
    main = main
    topic = topic
    tracking = tracking
    origin = origin
    o1 = o1
    o2 = o2
    Generations = {w1, w2}
    Refs = {main, topic, tracking}
    Remotes = {origin}
    NoRef = NoRef
    NoRemote = NoRemote
    Ops = {o1, o2}
    Targets <- MCTargets
    TerminalRetention = 1
SPECIFICATION FairSpec
INVARIANTS
    NoInterference
    ClosingAbortsProcesses
    RetentionKeepsUnresolved
    RetryAllowedIsSafe
PROPERTIES
    ImplementsContract
    EveryDispatchSettles
    CloseResolves
    LateExitIsReconciled
CHECK_DEADLOCK FALSE
