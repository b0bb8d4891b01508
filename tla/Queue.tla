------------------------------- MODULE Queue --------------------------------
(***************************************************************************)
(* The circular array of queue.c and its three indices.  Every queue of    *)
(* the kernel is only touched with interrupts disabled, so a call is one   *)
(* step.                                                                   *)
(***************************************************************************)
EXTENDS Integers, Sequences

CONSTANTS
    QueueSize,  \* QUEUE_SIZE
    Item        \* the integers that callers queue

ASSUME QueueAssumption == QueueSize \in Nat \ {0} /\ Item \subseteq Int

VARIABLES
    head, tail, size, items,  \* queue_t
    reply                     \* what the last call answered

queueVars == <<head, tail, size, items>>

Cells == 0 .. QueueSize - 1

\* Indices go round the array.
Wrap(c) == c % QueueSize

\* What queue_out leaves in a cell, and what queue_init does.
Junk == {0, -1}

Init ==
    /\ head = -1 /\ tail = -1
    /\ size = 0
    /\ items = [c \in Cells |-> -1]
    /\ reply = [rc |-> 0, out |-> <<>>]

queue_is_empty == size = 0

\* Mutant: one item too many.
MutIsFull == size > QueueSize

queue_is_full == size = QueueSize

queue_in(item) ==
    IF queue_is_full
    THEN /\ reply' = [rc |-> -1, out |-> <<>>]
         /\ UNCHANGED queueVars
    ELSE LET cell == Wrap(tail + 1) IN
         /\ head' = IF queue_is_empty THEN 0 ELSE head
         /\ tail' = cell
         /\ items' = [items EXCEPT ![cell] = item]
         /\ size' = size + 1
         /\ reply' = [rc |-> 0, out |-> <<>>]

\* The last item is gone: the indices start again.
Reset ==
    /\ head' = -1 /\ tail' = -1
    /\ size' = 0
    /\ items' = [c \in Cells |-> -1]

\* Mutant: no special case for the last item.
MutAdvance ==
    /\ head' = Wrap(head + 1)
    /\ items' = [items EXCEPT ![head] = 0]
    /\ size' = size - 1
    /\ UNCHANGED tail

Advance ==
    IF head = tail
    THEN Reset
    ELSE /\ head' = Wrap(head + 1)
         /\ items' = [items EXCEPT ![head] = 0]
         /\ size' = size - 1
         /\ UNCHANGED tail

queue_out ==
    IF queue_is_empty
    THEN /\ reply' = [rc |-> -1, out |-> <<>>]
         /\ UNCHANGED queueVars
    ELSE /\ reply' = [rc |-> 0, out |-> <<items[head]>>]
         /\ Advance

Next == queue_out \/ \E item \in Item : queue_in(item)

Spec == Init /\ [][Next]_<<queueVars, reply>>

-----------------------------------------------------------------------------
(* Properties                                                              *)

(***************************************************************************)
(* The three indices agree at every fill level: size is the distance from  *)
(* head to tail round the array, an empty queue has both at -1 (queue_in   *)
(* restarts at cell 0 and relies on it), and every cell outside that       *)
(* stretch is free of queued items.                                        *)
(***************************************************************************)
IndexSound ==
    /\ size \in 0 .. QueueSize
    /\ items \in [Cells -> Item \cup Junk]
    /\ size = 0 => /\ head = -1 /\ tail = -1
                   /\ \A c \in Cells : items[c] \in Junk
    /\ size > 0 => /\ head \in Cells
                   /\ tail = Wrap(head + size - 1)
                   /\ \A i \in size .. QueueSize - 1 :
                         items[Wrap(head + i)] \in Junk

Fifo == INSTANCE FifoQueue
        WITH contents <- [i \in 1 .. size |-> items[Wrap(head + i - 1)]]

\* The array is the bounded FIFO queue that the rest of the kernel relies on:
\* nothing is lost, repeated or reordered when the indices wrap round.
ImplementsFifo == Fifo!Spec

=============================================================================
