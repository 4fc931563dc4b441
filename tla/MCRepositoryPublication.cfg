\* Three reads of two worktrees, two of them at a time, while each fact changes.
CONSTANTS
    Worktrees = {w1, w2}
    Reads = {r1, r2}
    MaxAttempts = 2
    MaxRefsChanges = 1
    MaxWorktreeChanges = 1
    MaxReads = 3
SYMMETRY Symmetry
SPECIFICATION Spec
INVARIANTS CoherentSnapshot
PROPERTIES RevisionIdentifiesSnapshot PublishedNeverGoesBack LatestReadIsCurrent
CHECK_DEADLOCK FALSE
