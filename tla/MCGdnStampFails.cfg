CONSTANTS
    Requests = 1
    Slots = 3
    Tokens = 2
    Width = 2
    MaxEpoch = 3
    Verifications <- MCVerifications
    Commits <- MCCommits
    Leftovers = {0, 5}
    EarlyRounds = FALSE
    FailingLaunches = {"prepare", "recurrent", "stampReady", "apply", "stampConsumed"}
SPECIFICATION Spec
INVARIANT
    ConsumedOnce
