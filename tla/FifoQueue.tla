------------------------------ MODULE FifoQueue ------------------------------
(***************************************************************************)
(* What queue.c promises: a bounded FIFO queue.  Every process queue of    *)
(* the kernel (run queue, sleep queue, wait queues, allocators) is one.    *)
(***************************************************************************)
EXTENDS QueueOps

CONSTANT Item  \* the integers that callers queue

VARIABLES
    contents,  \* the queued items, the oldest first
    reply      \* what the last call answered: return code and items given out

Init ==
    /\ contents = <<>>
    /\ reply = [rc |-> 0, out |-> <<>>]

In(item) ==
    /\ contents' = queue_in(contents, item)
    /\ reply' = [rc |-> IF queue_is_full(contents) THEN -1 ELSE 0, out |-> <<>>]

OutEmpty ==
    /\ contents = <<>>
    /\ reply' = [rc |-> -1, out |-> <<>>]
    /\ UNCHANGED contents

Out ==
    /\ contents # <<>>
    /\ contents' = Tail(contents)
    /\ reply' = [rc |-> 0, out |-> <<Head(contents)>>]

Next == OutEmpty \/ Out \/ \E item \in Item : In(item)

Spec == Init /\ [][Next]_<<contents, reply>>

=============================================================================
