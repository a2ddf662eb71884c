SPECIFICATION MCQuietSpec
CONSTANTS
    ExtractEvery = 1
    ExtractLimit = 1
    RewriteEvery = 2
    RewriteLimit = 1
    InjectRecall = TRUE
    LateLanding = TRUE
    Message <- MCMessage
    Step <- MCStep
    BlankTasks = {}
    Blank <- MCBlank
    StepLimit = 3
    MaxUnrecorded = 1
PROPERTIES
    CacheHitsAreFresh
