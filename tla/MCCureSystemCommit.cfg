SPECIFICATION MCSpec
CONSTANTS
    Repo = {r1, r2}
    General = general
    Key = {k}
    Value = {u, v}
    LlmRetries = 1
    Item <- MCItem
    MaxItems = 2
    CommitFaults = TRUE
    MaxRows = 2
    MaxMessages = 1
SYMMETRY Symmetry
CHECK_DEADLOCK FALSE
INVARIANTS
    FailedUnitIsUndone
