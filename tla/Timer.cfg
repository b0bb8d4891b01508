\* Three entries, six ticks.
SPECIFICATION Spec
CONSTANTS
    QueueSize = 3
    TimersMax = 3
    Intervals = {1, 2, 3}
    Repeats <- MCRepeats
    MaxTicks = 6
INVARIANTS AllocatorSound EveryIntervalRuns
