\* A process ends while it holds a mutex.
CONSTANTS
    QueueSize = 4
    ProcMax = 4
    TimeSlice = 1
    IntMin <- MCIntMin
    IntMax = 2
    NULL = NULL
    BootProcs = 4
    Seconds = {}
    TicksPerSecond = 1
    MaxPid = 4
    MutexMax = 1
    Clients = {"mortal"}
SPECIFICATION MutexSpec
INVARIANT OwnerHolds
