------------------------------- MODULE Screen -------------------------------
(***************************************************************************)
(* A screen: the buffer and the cursor that tty_update keeps for a TTY     *)
(* and vga_putc, which does the same, for the display.  Both call          *)
(* themselves for a tab; the calls they then make are part of the same     *)
(* step.  A TTY scrolls; the display does only if scrolling_enabled.       *)
(*                                                                         *)
(* The observer is what a reader of the screen expects: a text of at most  *)
(* TTY_HEIGHT lines that loses its first line when it grows beyond that,   *)
(* or, without scrolling, has its last line written over; nothing any more *)
(* once a backspace has spoiled it.  It says nothing of the display, of    *)
(* rows or of cells.                                                       *)
(***************************************************************************)
EXTENDS Integers, Sequences

CONSTANTS
    Width, Height,  \* TTY_WIDTH and VGA_WIDTH, TTY_HEIGHT and VGA_HEIGHT
    TabStop,        \* the 4 spaces of a tab
    Chars           \* the characters that are printed, a space aside

NUL == "nul"
Space == "space"

ASSUME ScreenAssumption ==
    /\ Height \in Nat \ {0, 1}
    /\ TabStop \in Nat \ {0} /\ Width \in Nat /\ Width > TabStop + 1
    /\ NUL \notin Chars

VARIABLES
    pos_x, pos_y, buf,  \* of tty_t, or vga_pos_x, vga_pos_y and the video memory
    scrolls,            \* is there scrolling
    text,               \* OBSERVER: the lines of the text, the last one being written
    column,             \* OBSERVER: the column the next character is for
    mangled             \* OBSERVER: a backspace has moved a visible character or left a visible line

vars == <<pos_x, pos_y, buf, scrolls, text, column, mangled>>

Cells == 0 .. Width * Height - 1
Columns == 0 .. Width - 1
EmptyLine == [c \in Columns |-> NUL]

Blank == [c \in Cells |-> NUL]

Init ==
    /\ pos_x = 0 /\ pos_y = 0
    /\ buf = Blank
    /\ scrolls \in BOOLEAN
    /\ text = <<EmptyLine>> /\ column = 0 /\ mangled = FALSE

-----------------------------------------------------------------------------
(* tty_update and vga_putc, as functions of the screen                     *)

Now == [x |-> pos_x, y |-> pos_y, buf |-> buf]
Here(s) == Width * s.y + s.x

\* Mutant: the last line is not cleared when the screen scrolls.
MutScroll(b) == [c \in Cells |-> IF c + Width \in Cells THEN b[c + Width] ELSE b[c]]

scroll_up(b) == [c \in Cells |-> IF c + Width \in Cells THEN b[c + Width] ELSE NUL]

NewLine(s) ==
    IF s.y = Height - 1
    THEN [s EXCEPT !.x = 0, !.buf = IF scrolls THEN scroll_up(@) ELSE @]
    ELSE [s EXCEPT !.x = 0, !.y = @ + 1]

Write(s, c) ==
    LET t == [s EXCEPT !.buf[Here(s)] = c, !.x = @ + 1]
    IN  IF t.x = Width THEN NewLine(t) ELSE t

\* Mutant: a tab is written however near the end of the line is.
MutTabFits(s) == TRUE

\* The constant 75 of the code leaves the last column free.
TabFits(s) == s.x < Width - TabStop - 1

Tab(s) ==
    IF TabFits(s)
    THEN [s EXCEPT !.x = @ + TabStop,
                   !.buf = [c \in Cells |->
                       IF c \in Here(s) .. Here(s) + TabStop - 1 THEN Space ELSE @[c]]]
    ELSE NewLine(s)

Back(s) == IF s.x = 0 THEN [s EXCEPT !.x = Width - 1, !.y = @ - 1] ELSE [s EXCEPT !.x = @ - 1]

AtOrigin(s) == s.x = 0 /\ s.y = 0

\* The cell under the cursor moves one back.
Backspace(s) ==
    IF AtOrigin(s)
    THEN s
    ELSE [Back(s) EXCEPT !.buf[Here(s) - 1] = s.buf[Here(s)], !.buf[Here(s)] = NUL]

CarriageReturn(s) == [s EXCEPT !.x = 0]

Becomes(s) == pos_x' = s.x /\ pos_y' = s.y /\ buf' = s.buf

-----------------------------------------------------------------------------
(* What the text becomes                                                   *)

Grow(t) ==
    CASE Len(t) < Height -> Append(t, EmptyLine)
      [] Len(t) = Height -> IF scrolls THEN Append(Tail(t), EmptyLine) ELSE t

Put(t, col, c) == [t EXCEPT ![Len(t)][col] = c]

\* The text after n times the character c.
Typed(t, col, c, n) ==
    LET last == [k \in Columns |-> IF k \in col .. col + n - 1 THEN c ELSE t[Len(t)][k]]
        new == [t EXCEPT ![Len(t)] = last]
    IN  IF col + n = Width THEN Grow(new) ELSE new

Expect(t, col, spoiled) ==
    /\ mangled' = (mangled \/ spoiled)
    /\ text' = IF mangled' THEN <<EmptyLine>> ELSE t
    /\ column' = IF mangled' THEN 0 ELSE col

ExpectWrite(c) == Expect(Typed(text, column, c, 1), (column + 1) % Width, FALSE)

ExpectNewLine == Expect(Grow(text), 0, FALSE)

ExpectTab ==
    IF column + TabStop + 1 < Width
    THEN Expect(Typed(text, column, Space, TabStop), column + TabStop, FALSE)
    ELSE ExpectNewLine

\* The character under the cursor moves, and from the start of a line the cursor
\* goes up, whatever the line shows: a text has no such line any more.
BackspaceMangles ==
    \/ ~AtOrigin(Now) /\ buf[Here(Now)] # NUL
    \/ column = 0 /\ Len(text) > 1 /\ text[Len(text)] # EmptyLine

\* At the start of a line the last column of the line above is erased.  What is
\* erased shows nothing, as a cell that was never written.
Erased(t, col) ==
    IF col > 0 THEN Put(t, col - 1, NUL)
    ELSE IF Len(t) > 1 THEN Put(SubSeq(t, 1, Len(t) - 1), Width - 1, NUL)
    ELSE t

ExpectBackspace ==
    Expect(Erased(text, column),
           IF column > 0 THEN column - 1 ELSE IF Len(text) > 1 THEN Width - 1 ELSE 0,
           BackspaceMangles)

ExpectReturn == Expect(text, 0, FALSE)

-----------------------------------------------------------------------------
\* tty_update or vga_putc of some character.
Update ==
    /\ \/ \E c \in Chars \cup {Space} : Becomes(Write(Now, c)) /\ ExpectWrite(c)
       \/ Becomes(Tab(Now)) /\ ExpectTab
       \/ Becomes(Backspace(Now)) /\ ExpectBackspace
       \/ Becomes(CarriageReturn(Now)) /\ ExpectReturn
       \/ Becomes(NewLine(Now)) /\ ExpectNewLine
    /\ UNCHANGED scrolls

-----------------------------------------------------------------------------
\* Type correctness of a screen: whatever is written, the cursor is inside, so
\* the cell written next is a cell of the buffer.
ScreenTypeOK ==
    /\ pos_x \in Columns /\ pos_y \in 0 .. Height - 1
    /\ DOMAIN buf = Cells
    /\ \A c \in Cells : buf[c] \in Chars \cup {NUL, Space}

\* As long as no backspace has moved a visible character, nor gone up from a line
\* that shows one, the screen shows the text and nothing else: wrapping, tabs,
\* returns to the start of a line and backspaces across lines included.  The text
\* is what the code means it to be, and in two places not what a header says: a
\* display without scrolling, that of the boot (vga.c:53), has its last line
\* written over where vga.h:135 has it scroll, and a backspace leaves the character
\* NUL (vga.c:272) where vga.h:140 has it print a space.
ShowsText ==
    ~mangled =>
        /\ pos_x = column /\ pos_y = Len(text) - 1
        /\ \A c \in Cells :
               LET row == c \div Width + 1
               IN  buf[c] = IF row <= Len(text) THEN text[row][c % Width] ELSE NUL

=============================================================================
