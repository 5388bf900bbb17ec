CONSTANTS
    Requests = 2
    Slots = 3
    Tokens = 3
    Width = 2
    MaxEpoch = 2
    Verifications <- MCVerifications
    Commits <- MCCommits
    Leftovers = {5}
    EarlyRounds = TRUE
    FailingLaunches = {}
SPECIFICATION Spec
INVARIANTS
    TypeOK
    ConsumedOnce
    RecordsCommittable
    RoundsResolvable
PROPERTIES
    OutstandingRetained
    ImplementsRounds
    StrandedForGood
