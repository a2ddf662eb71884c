SPECIFICATION MCSpec
CONSTANTS
    Retries = 0
    Limit = 2
    Message = {1}
    MaxParts = 1
    HookFaults = FALSE
    MaxOps = 2
    MaxCalls = 2
    MaxNoted = 2
    MaxFaults = 1
CHECK_DEADLOCK FALSE
INVARIANTS
    UnderRecordingIsLogged
