SPECIFICATION MCSpec
CONSTANTS
    Retries = 1
    Limit = 2
    Message = {1}
    MaxParts = 2
    HookFaults = TRUE
    MaxOps = 2
    MaxCalls = 1
    MaxNoted = 1
    MaxFaults = 2
CHECK_DEADLOCK FALSE
INVARIANTS
    TraceTypeOK
    InputsMatchBacklog
    RecordedOnce
PROPERTIES
    NothingAfterRefusal
    DisabledTransportIsSilent
