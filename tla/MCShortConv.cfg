CONSTANTS
    Requests = 2
    Slots = 3
    H = 3
    Drafts = 2
    Tokens = 4
    MaxInputs = 12
    MaxPrefill = 4
    Rows <- MCRows
    FirstSlot = 0
    Legacy = FALSE
    AnyPrefill = FALSE
SPECIFICATION Spec
INVARIANTS
    TypeOK
    HistoryExact
    ZeroRoundUndone
CHECK_DEADLOCK FALSE
