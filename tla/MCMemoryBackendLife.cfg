SPECIFICATION MCSpec
CONSTANTS
    ExtractEvery = 1
    ExtractLimit = 2
    RewriteEvery = 2
    RewriteLimit = 1
    InjectRecall = TRUE
    LateLanding = TRUE
    Message = {0, 1, 2}
    Step = {1, 2, 3}
    BlankTasks = {}
    Blank <- MCBlank
    MaxStore = 1
    MaxTask = 1
    MaxSearches = 1
    MaxNotes = 0
INVARIANTS
    TypeOK
    NothingLost
    DeadLaneBounded
    OneAttemptPerBoundary
    TailFlushed
PROPERTIES
    DormantAfterFinalize
