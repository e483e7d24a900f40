\* Three requests, a pool of two, a fast, a slow and a hanging gateway.
SPECIFICATION Spec
CONSTANTS
    Interval = 2
    Duration = 6
    PoolSpan = 4
    MinPool = 1
    Timeout = 5
    Responses = {1, 4, 9}
    StallTicks = 1
    MaxStalls = 2
    None = None
INVARIANTS
    TypeOK
    OnSchedule
    EachCountedOnce
    PoolHolds
    PercentileIsNear
PROPERTY
    RunEnds
CHECK_DEADLOCK FALSE
