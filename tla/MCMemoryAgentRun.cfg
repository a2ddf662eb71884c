SPECIFICATION MCSpec
CONSTANTS
    ExtractEvery = 2
    ExtractLimit = 1
    RewriteEvery = 2
    RewriteLimit = 1
    InjectRecall = TRUE
    LateLanding = FALSE
    Message <- MCMessage
    Step <- MCStep
    BlankTasks = {}
    Blank <- MCBlank
    StepLimit = 3
    MaxUnrecorded = 1
INVARIANTS
    AgentTypeOK
    PromptIsCurrent
    TrajectoryUntouched
    InjectionsCounted
    NoBoundaryMissed
    SearchesBounded
PROPERTIES
    LoopUnchanged
