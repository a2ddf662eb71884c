SPECIFICATION MCSpec
CONSTANTS
    ExtractEvery = 2
    ExtractLimit = 1
    RewriteEvery = 0
    RewriteLimit = 1
    InjectRecall = TRUE
    LateLanding = TRUE
    Message <- MCMessage
    Step <- MCStep
    BlankTasks = {}
    Blank <- MCBlank
    StepLimit = 2
    MaxUnrecorded = 1
PROPERTIES
    EveryRunCloses
