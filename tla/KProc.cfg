\* Four entries, three processes at boot: every queue holds up to three.
CONSTANTS
    QueueSize = 4
    ProcMax = 4
    TimeSlice = 2
    IntMin <- MCIntMin
    IntMax = 2
    NULL = NULL
    BootProcs = 3
    Seconds <- MCSeconds
    TicksPerSecond = 1
    MaxPid = 5
SPECIFICATION ClockFairSpec
INVARIANTS TypeOK TableSound Placement NoPanic SliceRespected LatenessExplained
PROPERTIES NoOvertaking BoundedWait ReadyRuns SleeperWakes
