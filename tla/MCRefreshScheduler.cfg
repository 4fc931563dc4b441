\* Two calls of clients among events and polls of two worktrees.
CONSTANTS
    w1 = w1
    w2 = w2
    Worktrees = {w1, w2}
    Selected = w1
    Others <- MCOthers
    Calls = {c1, c2}
    None = None
    Background = Background
    MaxFailures = 1
    MaxChanges = 2
INVARIANTS OperationsRunAlone
SPECIFICATION FairSpec
PROPERTIES CatchesUp DispatchesEnd
CHECK_DEADLOCK FALSE
