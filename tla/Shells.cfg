\* Two shells that share a mutex; process 2 runs beside them and makes no calls.
CONSTANTS
    QueueSize = 4
    ProcMax = 4
    TimeSlice = 1
    IntMin <- MCIntMin
    IntMax = 1
    NULL = NULL
    BootProcs = 4
    Seconds = {1}
    TicksPerSecond = 1
    MaxPid = 4
    MutexMax = 3
    Clients = {"wild"}
    Shell = {1, 3}
    Nap <- MCNap
    MaxEarlyTicks = 3
SPECIFICATION ShellFairSpec
INVARIANT InsideOwns
PROPERTY ShellGetsIn
