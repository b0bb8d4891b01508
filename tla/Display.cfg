\* Three lines of four columns, one of them neither first nor last: every wrap,
\* scroll and tab happens, and backspaces cross lines.  The only printed character
\* is the space, which a cell tells from one that shows nothing.  A process writes
\* to the second of two TTYs, none to TTY 0, which has the process list.
SPECIFICATION Spec
CONSTANTS
    Width = 4
    Height = 3
    TabStop = 2
    Chars = {}
    Ttys = {0, 1}
    Busy = {1}
    Seconds = {2}
    Header = {0}
    Listings <- MCListings
INVARIANTS ScreenTypeOK ShowsText DisplayShows
