CONSTANTS
    Requests = 3
    Slots = 3
    Tokens = 3
    Width = 2
    Launches <- MCLaunches
    Upstream <- MCUpstream
    Commits <- MCCommits
SPECIFICATION Spec
INVARIANTS
    TypeOK
    StateScheduleFree
    OutputsOwned
    CommitScheduleFree
CHECK_DEADLOCK FALSE
