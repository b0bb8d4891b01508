------------------------------ MODULE QueueOps ------------------------------
(***************************************************************************)
(* The queue of queue.c as its callers see it: a bounded sequence, the     *)
(* oldest item first.  Head and Tail are queue_out.  Module Queue shows    *)
(* that the circular array implements these operators.                     *)
(***************************************************************************)
EXTENDS Integers, Sequences, Functions

CONSTANT QueueSize  \* QUEUE_SIZE

ASSUME QueueSizeAssumption == QueueSize \in Nat \ {0}

queue_is_full(q) == Len(q) = QueueSize

\* A full queue refuses the item (the call returns -1) and stays as it is.
queue_in(q, item) == IF queue_is_full(q) THEN q ELSE Append(q, item)

=============================================================================
