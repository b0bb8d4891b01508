\* Four cells: the indices wrap at every fill level.
CONSTANTS
    QueueSize = 4
    Item = {1, 2, 3}
SPECIFICATION BufferSpec
INVARIANT IndexSound
PROPERTIES ImplementsFifo RingReadsInOrder
