CONSTANTS
    Requests = 2
    Slots = 3
    H = 3
    Drafts = 2
    Tokens = 4
    MaxInputs = 8
    MaxPrefill = 4
    Rows <- MCRows
    FirstSlot = 0
    Legacy = FALSE
    AnyPrefill = TRUE
SPECIFICATION Spec
INVARIANTS
    HistoryExact
CHECK_DEADLOCK FALSE
