\* Two windows on one draft, a commit and a lost call.
CONSTANTS
    w1 = w1
    w2 = w2
    a = a
    b = b
    Windows = {w1, w2}
    Texts <- MCTexts
    Empty = Empty
    NoRevision = NoRevision
    MaxActs <- MCMaxActs
    MaxCommits = 1
    MaxFaults = 1
SPECIFICATION FairSpec
INVARIANTS RevisionNamesShownText CommitTakesShownText
PROPERTIES OnlyCommittedTextIsTaken WindowsComeToRest
CHECK_DEADLOCK FALSE
