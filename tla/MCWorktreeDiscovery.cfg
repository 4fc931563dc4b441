\* Three reads, two of which may overlap, of a main and a linked worktree.
CONSTANTS
    Main = main
    Linked = {p1}
    MaxReads = 3
    MaxActive = 2
    MaxChanges = 2
SPECIFICATION DiscoverySpec
INVARIANTS MutationRunsWhereShown
PROPERTIES IdsFollowRegistrations OneRepositoryIsPublished
CONSTRAINT ReadsRest
CHECK_DEADLOCK FALSE
