\* A pong and two pings, of which the pong is the first to run.
CONSTANTS
    QueueSize = 6
    ProcMax = 4
    TimeSlice = 1
    IntMin <- MCIntMin
    IntMax = 2
    NULL = NULL
    BootProcs = 4
    Seconds = {1, 2}
    TicksPerSecond = 1
    MaxPid = 4
    SemMax = 6
    Values = {0, 1}
    MaxCount = 6
    Clients = {"wild"}
    Pings = {2, 3}
    Pongs = {1}
    Delay <- MCDelay
    MaxEarlyTicks = 1
SPECIFICATION PlayFairSpec
INVARIANT UnitsInPlay
PROPERTY PlayGoesOn
