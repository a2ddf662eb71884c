SPECIFICATION MCSpec
CONSTANTS
    ExtractEvery = 1
    ExtractLimit = 1
    RewriteEvery = 2
    RewriteLimit = 1
    InjectRecall = TRUE
    LateLanding = FALSE
    Message = {0, 1}
    Step = {1, 2}
    BlankTasks = {1}
    Blank <- MCBlank
    MaxStore = 2
    MaxTask = 2
    MaxSearches = 2
    MaxNotes = 1
INVARIANTS
    CacheCoherent
PROPERTIES
    RecallTransparent
