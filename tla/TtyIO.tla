------------------------------- MODULE TtyIO --------------------------------
(***************************************************************************)
(* The way of characters between keyboard, processes and display: tty.c,   *)
(* the io calls of ksyscall.c and keyboard_irq_handler.  Each TTY has two  *)
(* ring buffers (module RingBuf); the processes attached to it write to    *)
(* the one and read from the other, and a timer callback takes the output  *)
(* of the active TTY, and of no other, to the screen.  All of it runs in   *)
(* the kernel, so a call is one step.                                      *)
(*                                                                         *)
(* What a character is makes no difference here, only which one it is: the *)
(* characters offered to a buffer are 1, 2, 3 and so on.                   *)
(***************************************************************************)
EXTENDS QueueOps

CONSTANTS
    Ttys,        \* 0 .. TTY_MAX - 1
    Echo,        \* the TTYs with the echo flag; tty_init clears it on all
    WriteSizes,  \* the sizes that processes give to io_write
    MaxChars     \* BOUND: characters offered to a buffer

ASSUME TtyAssumption ==
    /\ 0 \in Ttys /\ Ttys \subseteq Nat
    /\ Echo \subseteq Ttys
    /\ WriteSizes \subseteq Nat /\ MaxChars \in Nat

IO == {"in", "out"}
PROC_IO_IN == "in"
PROC_IO_OUT == "out"

VARIABLES
    io,          \* the ring buffers of each TTY, as sequences
    screen,      \* the characters that tty_update has put on each TTY
    refresh,     \* the TTYs with the refresh flag
    active_tty,
    vga,         \* the TTY that was drawn last, and what it showed
    written,     \* OBSERVER: how many characters each buffer was offered
    spoilt       \* OBSERVER: the buffers that were full when offered one, or flushed

ttyVars == <<io, screen, refresh, active_tty, vga>>
vars == <<ttyVars, written, spoilt>>

\* Before the first tick nothing has been drawn: tty_select(0) asked for it.
Init ==
    /\ io = [t \in Ttys |-> [b \in IO |-> <<>>]]
    /\ screen = [t \in Ttys |-> <<>>]
    /\ refresh = {0}
    /\ active_tty = 0
    /\ vga = [tty |-> 0, shows |-> <<0>>]
    /\ written = [t \in Ttys |-> [b \in IO |-> 0]]
    /\ spoilt = {}

-----------------------------------------------------------------------------
(* Buffers                                                                 *)

\* How many of n characters fit: ringbuf_write refuses the others.
Room(q, n) == IF n < QueueSize - Len(q) THEN n ELSE QueueSize - Len(q)

\* Each buffer in bs of TTY t is offered its next n characters, one by one.
Offer(t, bs, n) ==
    /\ \A b \in bs : written[t][b] + n <= MaxChars
    /\ io' = [io EXCEPT ![t] = [b \in IO |->
                IF b \in bs THEN @[b] \o [i \in 1 .. Room(@[b], n) |-> written[t][b] + i]
                ELSE @[b]]]
    /\ written' = [written EXCEPT ![t] = [b \in IO |-> IF b \in bs THEN @[b] + n ELSE @[b]]]
    /\ spoilt' = spoilt \cup {<<t, b>> : b \in {c \in bs : Room(io[t][c], n) < n}}

-----------------------------------------------------------------------------
(* The keyboard                                                            *)

\* keyboard_irq_handler and tty_input
tty_input ==
    /\ Offer(active_tty, IF active_tty \in Echo THEN IO ELSE {PROC_IO_IN}, 1)
    /\ UNCHANGED <<screen, refresh, active_tty, vga>>

\* Mutant: the other TTY is not drawn until something is written to it.
MutSelected(n) == refresh

\* The TTYs to refresh after n was selected.
Selected(n) == IF active_tty = n THEN refresh ELSE refresh \cup {n}

\* ALT and a digit
tty_select(n) ==
    /\ active_tty' = n
    /\ refresh' = Selected(n)
    /\ UNCHANGED <<io, screen, vga, written, spoilt>>

-----------------------------------------------------------------------------
(* System calls of a process attached to TTY t                             *)

ksyscall_io_write(t, b, n) ==
    /\ Offer(t, {b}, n)
    /\ UNCHANGED <<screen, refresh, active_tty, vga>>

Emptied(t, b) == [io EXCEPT ![t][b] = <<>>]

\* What is left after n characters goes too: the call ends with a flush.
ksyscall_io_read(t, b) ==
    /\ io' = Emptied(t, b)
    /\ spoilt' = IF io[t][b] # <<>> THEN spoilt \cup {<<t, b>>} ELSE spoilt
    /\ UNCHANGED <<screen, refresh, active_tty, vga, written>>

ksyscall_io_flush(t, b) ==
    /\ io' = Emptied(t, b)
    /\ spoilt' = IF io[t][b] # <<>> THEN spoilt \cup {<<t, b>>} ELSE spoilt
    /\ UNCHANGED <<screen, refresh, active_tty, vga, written>>

-----------------------------------------------------------------------------
(* The timer callback                                                      *)

\* Mutants: the loop stops one character early, before or after the flush.
MutTaken(q) == [shown |-> IF q = <<>> THEN q ELSE <<Head(q)>>, left |-> <<>>]
MutLeft(q) == [shown |-> SubSeq(q, 1, Len(q) - 1),
                left |-> IF q = <<>> THEN q ELSE <<q[Len(q)]>>]

\* The characters that a refresh takes from the buffer, and those it leaves.
Taken(q) == [shown |-> q, left |-> <<>>]

tty_refresh ==
    LET t == active_tty
        q == Taken(io[t][PROC_IO_OUT])
    IN  /\ screen' = [screen EXCEPT ![t] = @ \o q.shown]
        /\ io' = [io EXCEPT ![t][PROC_IO_OUT] = q.left]
        /\ vga' = IF q.shown # <<>> \/ t \in refresh
                  THEN [tty |-> t, shows |-> screen'[t]] ELSE vga
        /\ refresh' = refresh \ {t}
        /\ UNCHANGED <<active_tty, written, spoilt>>

IoCall(t, b) ==
    \/ \E n \in WriteSizes : ksyscall_io_write(t, b, n)
    \/ ksyscall_io_read(t, b)
    \/ ksyscall_io_flush(t, b)

Next ==
    \/ tty_input
    \/ \E n \in Ttys : tty_select(n)
    \/ \E t \in Ttys, b \in IO : IoCall(t, b)
    \/ tty_refresh

Spec == Init /\ [][Next]_vars

\* The timer interrupt, and with it the callback, comes again and again.
FairSpec == Spec /\ WF_vars(tty_refresh)

-----------------------------------------------------------------------------
(* Properties                                                              *)

(***************************************************************************)
(* A TTY that was never offered more than its buffer holds, and was not    *)
(* flushed, shows what its processes wrote, in their order: switching to   *)
(* other TTYs for any time, and input that comes meanwhile, lose nothing.  *)
(***************************************************************************)
ShownInOrder ==
    \A t \in Ttys : <<t, PROC_IO_OUT>> \notin spoilt =>
        screen[t] \o io[t][PROC_IO_OUT] = [i \in 1 .. written[t][PROC_IO_OUT] |-> i]

(***************************************************************************)
(* The display shows the active TTY as it stands, or the next tick draws   *)
(* it: however TTYs are selected back and forth between two ticks, no      *)
(* stale screen stays.                                                     *)
(***************************************************************************)
DisplayCurrent ==
    \/ active_tty \in refresh
    \/ vga = [tty |-> active_tty, shows |-> screen[active_tty]]

\* Output reaches the screen of a TTY that stays selected.
OutputShown ==
    \A t \in Ttys :
        io[t][PROC_IO_OUT] # <<>> ~> io[t][PROC_IO_OUT] = <<>> \/ active_tty # t

=============================================================================
