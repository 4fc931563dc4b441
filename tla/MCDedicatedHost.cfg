\* Two pages, each of which may be listed again, and three events.
CONSTANTS
    Targets = {t1, t2}
    First = t1
    None = None
    MaxMissing = 2
    MaxEvents = 3
SPECIFICATION HostFairSpec
INVARIANTS MountedUnderBypass NothingIsLeftBehind
PROPERTIES FollowsTarget
CHECK_DEADLOCK FALSE
