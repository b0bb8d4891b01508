\* Two TTYs whose buffers hold two characters, one of which echoes.
CONSTANTS
    QueueSize = 2
    Ttys = {0, 1}
    Echo = {1}
    WriteSizes = {1, 2}
    MaxChars = 3
SPECIFICATION FairSpec
INVARIANTS ShownInOrder DisplayCurrent
PROPERTY OutputShown
