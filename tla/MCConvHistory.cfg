CONSTANTS
    Requests = 2
    Slots = 3
    H = 3
    Drafts = 2
    Tokens = 4
    MaxInputs = 8
    MaxPrefill = 4
    Rows <- MCRows
    FirstSlot = 1
    Legacy = TRUE
    AnyPrefill = FALSE
SPECIFICATION Spec
INVARIANTS
    HistoryExact
    ZeroRoundUndone
CHECK_DEADLOCK FALSE
