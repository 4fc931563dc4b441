SPECIFICATION Spec
CONSTANTS
    base = base
    ours = ours
    theirs = theirs
    NoCommit = NoCommit
    Commits = {base, ours, theirs}
    Ancestors <- MCAncestors
    Kinds = {"push", "pull", "publish", "switch"}
    Initially <- MCInitially
    MaxForeign = 1
SYMMETRY Interchangeable
INVARIANTS
    UpstreamAfterPublication
PROPERTIES
    SuccessIsReal
    KnownFailureIsObserved
CHECK_DEADLOCK FALSE
