SPECIFICATION MCSpec
CONSTANTS
    Marker = 2
    MinRoom = 4
    MaxBlanks = 1
    PageSize = 2
    MaxListed = 5
    MaxLines = 3
    MaxSize = 6
    MaxTotal = 12
CHECK_DEADLOCK FALSE
INVARIANTS
    RankThenFill
    EveryRowOnce
