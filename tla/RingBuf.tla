------------------------------ MODULE RingBuf -------------------------------
(***************************************************************************)
(* The ring buffer of ringbuf.c, between a process and its TTY.  It is     *)
(* only touched with interrupts disabled, so a call is one step.  Unlike   *)
(* queue.c it takes a head of -1 for empty, and it does not clear what is  *)
(* read.                                                                   *)
(*                                                                         *)
(* ringbuf_write_mem and ringbuf_read_mem have no caller and are left out. *)
(***************************************************************************)
EXTENDS Integers, Sequences

CONSTANTS
    QueueSize,  \* RINGBUF_SIZE, at least 1
    Item        \* the bytes that callers write, integers

VARIABLES
    head, tail, size, data,  \* ringbuf_t
    reply                    \* what the last call answered

bufVars == <<head, tail, size, data>>

Cells == 0 .. QueueSize - 1
Wrap(c) == c % QueueSize

Init ==
    /\ head = -1 /\ tail = -1
    /\ size = 0
    /\ data = [c \in Cells |-> 0]
    /\ reply = [rc |-> 0, out |-> <<>>]

ringbuf_is_empty == head = -1

ringbuf_is_full == size = QueueSize

ringbuf_init ==
    /\ head' = -1 /\ tail' = -1
    /\ size' = 0
    /\ data' = [c \in Cells |-> 0]

ringbuf_write(byte) ==
    /\ IF ringbuf_is_full
       THEN /\ reply' = [rc |-> -1, out |-> <<>>]
            /\ UNCHANGED bufVars
       ELSE LET cell == Wrap(tail + 1) IN
            /\ head' = IF ringbuf_is_empty THEN 0 ELSE head
            /\ tail' = cell
            /\ data' = [data EXCEPT ![cell] = byte]
            /\ size' = size + 1
            /\ reply' = [rc |-> 0, out |-> <<>>]

\* Mutant: the last byte is no special case.
MutAdvance ==
    /\ head' = Wrap(head + 1)
    /\ size' = size - 1
    /\ UNCHANGED <<tail, data>>

Advance ==
    IF head = tail
    THEN ringbuf_init
    ELSE /\ head' = Wrap(head + 1)
         /\ size' = size - 1
         /\ UNCHANGED <<tail, data>>

ringbuf_read ==
    /\ IF ringbuf_is_empty
       THEN /\ reply' = [rc |-> -1, out |-> <<>>]
            /\ UNCHANGED bufVars
       ELSE /\ reply' = [rc |-> 0, out |-> <<data[head]>>]
            /\ Advance

ringbuf_flush ==
    /\ ringbuf_init
    /\ reply' = [rc |-> 0, out |-> <<>>]

Next == ringbuf_read \/ ringbuf_flush \/ \E byte \in Item : ringbuf_write(byte)

Spec == Init /\ [][Next]_<<bufVars, reply>>

-----------------------------------------------------------------------------
(* Properties                                                              *)

Contents == [i \in 1 .. size |-> data[Wrap(head + i - 1)]]

Fifo == INSTANCE FifoQueue WITH contents <- Contents

\* A flush is the one thing that a FIFO queue does not have.
Flushed == size' = 0 /\ reply'.out = <<>>

\* The bytes that a TTY or a process reads are those written, in their order:
\* none is lost, repeated or reordered when the indices wrap round, except by
\* a flush, which drops them all.
ReadsInOrder == Fifo!Init /\ [][Fifo!Next \/ Flushed]_<<Contents, reply>>

=============================================================================
