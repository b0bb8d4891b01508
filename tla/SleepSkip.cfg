\* Three user processes sleep one or two ticks.
CONSTANTS
    QueueSize = 4
    ProcMax = 4
    TimeSlice = 1
    IntMin <- MCIntMin
    IntMax = 8
    NULL = NULL
    BootProcs = 4
    Seconds = {1, 2}
    TicksPerSecond = 1
    MaxPid = 4
SPECIFICATION ClockSpec
INVARIANT EveryTickCounts
