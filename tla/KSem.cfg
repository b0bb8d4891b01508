\* Three processes share the units of two semaphores, or wait and post as they like.
CONSTANTS
    QueueSize = 4
    ProcMax = 4
    TimeSlice = 1
    IntMin <- MCIntMin
    IntMax = 2
    NULL = NULL
    BootProcs = 4
    Seconds = {}
    TicksPerSecond = 1
    MaxPid = 5
    SemMax = 2
    Values <- MCValues
    MaxCount = 2
    Clients = {"orderly", "wild"}
SPECIFICATION SemSpec
INVARIANTS NoUnitWhileWaiting WaitersPlaced IdsSound UnitsConserved
PROPERTY ImplementsKProc
