\* A commit among programs that stage, move HEAD and lock, and a user who edits the draft.
CONSTANTS
    main = main
    other = other
    Branches = {main, other}
    MaxTrees = 2
    MaxCommits = 2
    MaxRevisions = 1
    MaxForeign = 2
SYMMETRY Symmetry
SPECIFICATION Spec
INVARIANTS CommitsInspectedTree SuccessIsOurs KnownOutcomeIsClean
PROPERTIES StagingIsKept
CHECK_DEADLOCK FALSE
