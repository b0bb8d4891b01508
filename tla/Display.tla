------------------------------ MODULE Display -------------------------------
(***************************************************************************)
(* The display and those who write to it.  Until interrupts are enabled    *)
(* main writes its messages with vga_putc, with scrolling disabled: the    *)
(* screen of module Screen is then the display itself.  Afterwards it is   *)
(* the screen of the active TTY, which tty_refresh brings up to date and   *)
(* copies to the display cell by cell when its refresh flag is set, and    *)
(* over which the callbacks of test.h draw: the spinner and the seconds in *)
(* the upper right corner, and the process list wherever it has something  *)
(* to say, while TTY 0 is active.                                          *)
(*                                                                         *)
(* A tick runs tty_refresh first and then, of the three, those whose       *)
(* interval is over; each is an action, and none of the three draws while  *)
(* a refresh is still due.  What they draw is one value that no screen     *)
(* has.  Left out: colours, the hardware cursor, which vga_init disables,  *)
(* and the screen that kernel_exit leaves.                                 *)
(***************************************************************************)
EXTENDS Screen

CONSTANTS
    Ttys,      \* the TTYs
    Busy,      \* BOUND: those that a process writes to
    Seconds,   \* the columns of the first row that test_timer writes
    Header,    \* the columns of the first row that the process list has its header in
    Listings   \* the sets of cells below the first row that a process list may write

\* The part of the display that the list writes, once or again.
ListArea == Header \cup (Width .. Width * Height - 1)

\* The seconds and, at the end of the line, the spinner.
Corner == Seconds \cup {Width - 1}

ASSUME DisplayAssumption ==
    /\ 0 \in Ttys /\ Busy \subseteq Ttys
    /\ Seconds \subseteq Columns /\ Header \subseteq Columns
    /\ \A cells \in Listings : cells \subseteq Width .. Width * Height - 1

VARIABLES
    booted,   \* interrupts are enabled
    vga_buf,  \* the video memory
    active,   \* active_tty
    away,     \* the screens of the TTYs; the active one has the variables of Screen
    refresh   \* the TTYs with the refresh flag set

ttys == <<active, away, refresh>>
allVars == <<vars, booted, vga_buf, ttys>>

\* A screen with what its reader expects.
Kept == [x |-> pos_x, y |-> pos_y, buf |-> buf, text |-> text, column |-> column, mangled |-> mangled]

BlankScreen ==
    [x |-> 0, y |-> 0, buf |-> Blank, text |-> <<EmptyLine>>, column |-> 0, mangled |-> FALSE]

Show(screen) ==
    /\ pos_x' = screen.x /\ pos_y' = screen.y /\ buf' = screen.buf
    /\ text' = screen.text /\ column' = screen.column /\ mangled' = screen.mangled

\* tty_init selects TTY 0.
DisplayInit ==
    /\ Init /\ scrolls = FALSE
    /\ booted = FALSE
    /\ vga_buf = Blank
    /\ active = 0 /\ refresh = {0}
    /\ away = [n \in Ttys |-> BlankScreen]

\* vga_puts, vga_printf
vga_putc ==
    /\ ~booted
    /\ Update
    /\ vga_buf' = buf'
    /\ UNCHANGED <<booted, ttys>>

\* vga_clear and interrupts_enable: nothing has been written to a TTY yet.
BootEnds ==
    /\ ~booted /\ booted' = TRUE
    /\ vga_buf' = Blank
    /\ Show(BlankScreen) /\ scrolls' = TRUE
    /\ UNCHANGED ttys

\* ALT and a digit, before the end of the boot as well as after it.
tty_select(n) ==
    /\ n # active
    /\ active' = n
    /\ refresh' = refresh \cup {n}
    /\ IF booted
       THEN Show(away[n]) /\ away' = [away EXCEPT ![active] = Kept, ![n] = BlankScreen]
       ELSE UNCHANGED <<pos_x, pos_y, buf, text, column, mangled, away>>
    /\ UNCHANGED <<scrolls, booted, vga_buf>>

-----------------------------------------------------------------------------
(* tty_refresh                                                             *)

\* Mutant: the line is taken to be a column shorter.
MutNextPosition(p) ==
    IF p.x + 2 < Width THEN [p EXCEPT !.x = @ + 1]
    ELSE [x |-> 0, y |-> IF p.y = Height - 1 THEN p.y ELSE p.y + 1]

NextPosition(p) ==
    IF p.x + 1 < Width THEN [p EXCEPT !.x = @ + 1]
    ELSE [x |-> 0, y |-> IF p.y = Height - 1 THEN p.y ELSE p.y + 1]

\* Where the loop of TTY_BUF_SIZE rounds is in each of them.
Position[i \in Cells] == IF i = 0 THEN [x |-> 0, y |-> 0] ELSE NextPosition(Position[i - 1])

\* The cells that vga_putc_at has written after the last round.
Drawn == {Width * Position[i].y + Position[i].x : i \in Cells}

Copied(from, to) == [c \in Cells |-> IF c \in Drawn THEN from[c] ELSE to[c]]

\* With a character of the output buffer, which sets the flag, or with none; with
\* several, as if each had a tick of its own.
tty_refresh ==
    /\ booted
    /\ \/ active \in Busy /\ Update /\ vga_buf' = Copied(buf', vga_buf)
       \/ active \in refresh /\ UNCHANGED vars /\ vga_buf' = Copied(buf, vga_buf)
    /\ refresh' = refresh \ {active}
    /\ UNCHANGED <<booted, active, away>>

-----------------------------------------------------------------------------
(* test.h                                                                  *)

\* The callback draws over these cells, after the tick's tty_refresh.
Overlay(cells) ==
    /\ booted /\ active \notin refresh
    /\ vga_buf' = [c \in Cells |-> IF c \in cells THEN "overlay" ELSE vga_buf[c]]
    /\ UNCHANGED <<vars, booted, ttys>>

\* vga_putc_at
test_spinner == Overlay({Width - 1})

\* vga_set_xy and vga_printf, which does not reach the end of the line
test_timer == Overlay(Seconds)

\* The header, the rows of the processes, which are as long as their names, and
\* the blanks that take away the rows of processes that have ended.
test_proc_list ==
    /\ active = 0
    /\ \E cells \in Listings : Overlay(Header \cup cells)

Next ==
    \/ vga_putc
    \/ BootEnds
    \/ \E n \in Ttys : tty_select(n)
    \/ tty_refresh
    \/ test_spinner \/ test_timer \/ test_proc_list

Spec == DisplayInit /\ [][Next]_allVars

-----------------------------------------------------------------------------
\* Once the refresh that a selection asks for is made, the display shows the active
\* TTY in every cell, but for the corner that test.h draws over and, on TTY 0 alone,
\* the process list, which leaves nothing behind when another TTY is selected;
\* before the boot ends, it shows what main has written.
DisplayShows ==
    \/ booted /\ active \in refresh
    \/ \A c \in Cells : vga_buf[c] # buf[c] =>
           /\ booted /\ vga_buf[c] = "overlay"
           /\ c \in Corner \/ (active = 0 /\ c \in ListArea)

=============================================================================
