SPECIFICATION MCSpec
CONSTANTS
    Repo = {r1, r2}
    General = general
    Key = {k}
    Value = {u, v}
    LlmRetries = 1
    Item <- MCItem
    MaxItems = 2
    CommitFaults = FALSE
    MaxRows = 3
    MaxMessages = 2
SYMMETRY Symmetry
CHECK_DEADLOCK FALSE
INVARIANTS
    CureTypeOK
    OneLiveRow
    ChainsSound
    AuditIsExact
    DiffCoversChanges
    NothingLeftOpen
PROPERTIES
    LayersIsolated
    CheckpointEarned
