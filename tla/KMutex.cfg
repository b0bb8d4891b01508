\* Three processes use two mutexes in good order or as they like.
CONSTANTS
    QueueSize = 4
    ProcMax = 4
    TimeSlice = 1
    IntMin <- MCIntMin
    IntMax = 2
    NULL = NULL
    BootProcs = 4
    Seconds = {1}
    TicksPerSecond = 1
    MaxPid = 5
    MutexMax = 2
    Clients = {"nesting", "wild"}
SPECIFICATION MutexSpec
INVARIANTS LocksCount WaitersPlaced IdsSound MutualExclusion
PROPERTIES WaitersInOrder ImplementsKProc
