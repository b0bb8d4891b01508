------------------------------ MODULE MCBuffers ------------------------------
(***************************************************************************)
(* The two circular arrays of the kernel on one small instance: that of    *)
(* queue.c (Queue) and, beside it, that of ringbuf.c (RingBuf).  A         *)
(* behaviour uses one of them and leaves the other alone: they share       *)
(* nothing, and orders between their calls tell nothing.                   *)
(***************************************************************************)
EXTENDS Queue

VARIABLES
    ring_head, ring_tail, ring_size, ring_data, ring_reply,
    used  \* which of the two

ringVars == <<ring_head, ring_tail, ring_size, ring_data, ring_reply>>

Ring == INSTANCE RingBuf
        WITH head <- ring_head, tail <- ring_tail, size <- ring_size,
             data <- ring_data, reply <- ring_reply

BufferInit == Init /\ Ring!Init /\ used \in {"queue", "ringbuf"}

BufferNext ==
    \/ used = "queue" /\ Next /\ UNCHANGED <<ringVars, used>>
    \/ used = "ringbuf" /\ Ring!Next /\ UNCHANGED <<queueVars, reply, used>>

BufferSpec == BufferInit /\ [][BufferNext]_<<queueVars, reply, ringVars, used>>

-----------------------------------------------------------------------------

\* Bytes leave a ring buffer in the order they came (RingBuf.ReadsInOrder).
RingReadsInOrder == Ring!ReadsInOrder

=============================================================================
