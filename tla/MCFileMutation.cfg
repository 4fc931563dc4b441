\* A command on two files, and reads of other clients that overlap its own.
CONSTANTS
    Worktrees = {w1}
    Worktree = w1
    Files = {f1, f2}
    Reads = {r1, r2}
    NoRead = NoRead
    MaxAttempts = 1
    MaxRefsChanges = 0
    MaxWorktreeChanges = 1
    MaxReads = 4
SYMMETRY Symmetry
SPECIFICATION MutationSpec
INVARIANTS ReportedSuccessIsReal RejectedChangedNothing
    KnownFailureIsObserved
CHECK_DEADLOCK FALSE
