---------------------------- MODULE BufferProofs ----------------------------
(***************************************************************************)
(* Proofs about the circular arrays of Queue and RingBuf for every         *)
(* QueueSize: their indices stay sound, and both implement the FIFO queue  *)
(* of FifoQueue, a ring buffer up to flushes.                              *)
(***************************************************************************)
EXTENDS MCBuffers, SequenceTheorems, TLAPS

-----------------------------------------------------------------------------
(* Going round the array                                                   *)

\* The remainder is at most one subtraction.
LEMMA WrapOnce ==
    ASSUME NEW a \in 0 .. 2 * QueueSize - 1
    PROVE  Wrap(a) = IF a < QueueSize THEN a ELSE a - QueueSize
  BY QueueAssumption DEF Wrap

\* Two different distances below QueueSize lead to two different cells.
LEMMA CellsDiffer ==
    ASSUME NEW h \in Cells, NEW i \in Cells, NEW j \in Cells
    PROVE  /\ Wrap(h + i) \in Cells
           /\ Wrap(h + i) = Wrap(h + j) => i = j
  <1>1. h + i \in 0 .. 2 * QueueSize - 1 /\ h + j \in 0 .. 2 * QueueSize - 1
    BY QueueAssumption DEF Cells
  <1> QED
    BY <1>1, WrapOnce, QueueAssumption DEF Cells

\* The step from one cell to the next, taken before or after.
LEMMA NextCell ==
    ASSUME NEW h \in Cells, NEW i \in 0 .. QueueSize - 2
    PROVE  /\ Wrap(Wrap(h + i) + 1) = Wrap(h + i + 1)
           /\ Wrap(Wrap(h + 1) + i) = Wrap(h + i + 1)
           /\ Wrap(h + 1) \in Cells
  <1>1. /\ h + i \in 0 .. 2 * QueueSize - 1
        /\ h + i + 1 \in 0 .. 2 * QueueSize - 1
        /\ h + 1 \in 0 .. 2 * QueueSize - 1
    BY QueueAssumption DEF Cells
  <1>2. Wrap(h + i) = IF h + i < QueueSize THEN h + i ELSE h + i - QueueSize
    BY <1>1, WrapOnce, QueueAssumption DEF Cells
  <1>3. Wrap(h + i + 1) = IF h + i + 1 < QueueSize THEN h + i + 1 ELSE h + i + 1 - QueueSize
    BY <1>1, WrapOnce, QueueAssumption DEF Cells
  <1>4. Wrap(h + 1) = IF h + 1 < QueueSize THEN h + 1 ELSE h + 1 - QueueSize
    BY <1>1, WrapOnce, QueueAssumption DEF Cells
  <1>5. Wrap(h + i) + 1 \in 0 .. 2 * QueueSize - 1
    BY <1>2, QueueAssumption DEF Cells
  <1>6. Wrap(h + 1) + i \in 0 .. 2 * QueueSize - 1
    BY <1>4, QueueAssumption DEF Cells
  <1>7. Wrap(Wrap(h + i) + 1) = Wrap(h + i + 1)
    BY <1>2, <1>3, <1>5, WrapOnce, QueueAssumption DEF Cells
  <1>8. Wrap(Wrap(h + 1) + i) = Wrap(h + i + 1)
    BY <1>3, <1>4, <1>6, WrapOnce, QueueAssumption DEF Cells
  <1> QED
    BY <1>4, <1>7, <1>8, QueueAssumption DEF Cells

-----------------------------------------------------------------------------
(* The indices                                                             *)

LEMMA InitSound == Init => IndexSound
  BY QueueAssumption DEF Init, IndexSound, Junk, Cells

LEMMA InSound ==
    ASSUME IndexSound, NEW item \in Item, queue_in(item)
    PROVE  IndexSound'
  <1>1. CASE queue_is_full
    BY <1>1 DEF queue_in, queueVars, IndexSound
  <1>2. CASE queue_is_empty /\ ~queue_is_full
    <2>1. Wrap(tail + 1) = 0 /\ 0 \in Cells
      BY <1>2, WrapOnce, QueueAssumption DEF queue_is_empty, IndexSound, Cells
    <2>2. head' = 0 /\ tail' = 0 /\ size' = 1 /\ items' = [items EXCEPT ![0] = item]
      BY <1>2, <2>1 DEF queue_in, queue_is_empty
    <2>3. \A i \in Cells : Wrap(i) = i
      BY WrapOnce, QueueAssumption DEF Cells
    <2>4. \A i \in 1 .. QueueSize - 1 : items'[Wrap(head' + i)] \in Junk
      BY <1>2, <2>2, <2>3, QueueAssumption DEF IndexSound, queue_is_empty, Cells
    <2>5. tail' = Wrap(head' + size' - 1)
      BY <2>1, <2>2, <2>3
    <2> QED
      BY <1>2, <2>1, <2>2, <2>4, <2>5, QueueAssumption DEF IndexSound
  <1>3. CASE ~queue_is_empty /\ ~queue_is_full
    <2>1. /\ head \in Cells /\ size \in 1 .. QueueSize - 1
          /\ tail = Wrap(head + size - 1)
      BY <1>3, QueueAssumption DEF IndexSound, queue_is_empty, queue_is_full
    <2>2. Wrap(tail + 1) = Wrap(head + size) /\ Wrap(head + size) \in Cells
      <3>1. size - 1 \in 0 .. QueueSize - 2 /\ size \in Cells /\ head + (size - 1) = head + size - 1
                /\ head + (size - 1) + 1 = head + size
        BY <2>1, QueueAssumption DEF Cells
      <3> QED
        BY <2>1, <3>1, NextCell, CellsDiffer
    <2>3. /\ head' = head /\ size' = size + 1 /\ tail' = Wrap(head' + size' - 1)
          /\ items' = [items EXCEPT ![Wrap(head + size)] = item]
      BY <1>3, <2>1, <2>2, QueueAssumption DEF queue_in, queue_is_empty, Cells
    <2>4. \A i \in size' .. QueueSize - 1 : items'[Wrap(head' + i)] \in Junk
      <3>1. \A i \in size + 1 .. QueueSize - 1 : i \in Cells /\ i # size /\ i \in size .. QueueSize - 1
        BY <2>1 DEF Cells
      <3>2. \A i \in size + 1 .. QueueSize - 1 : Wrap(head + i) # Wrap(head + size)
        BY <2>1, <3>1, CellsDiffer DEF Cells
      <3>3. \A i \in size + 1 .. QueueSize - 1 : items[Wrap(head + i)] \in Junk
        BY <2>1, <3>1 DEF IndexSound
      <3> QED
        BY <2>1, <2>3, <3>1, <3>2, <3>3, CellsDiffer DEF IndexSound
    <2> QED
      BY <2>1, <2>2, <2>3, <2>4, QueueAssumption DEF IndexSound
  <1> QED
    BY <1>1, <1>2, <1>3

LEMMA OutSound ==
    ASSUME IndexSound, queue_out
    PROVE  IndexSound'
  <1>1. CASE queue_is_empty
    BY <1>1 DEF queue_out, queueVars, IndexSound
  <1>2. CASE ~queue_is_empty /\ head = tail
    BY <1>2, QueueAssumption DEF queue_out, Advance, Reset, IndexSound, Junk, Cells
  <1>3. CASE ~queue_is_empty /\ head # tail
    <2>1. /\ head \in Cells /\ size \in 1 .. QueueSize
          /\ tail = Wrap(head + size - 1)
      BY <1>3, QueueAssumption DEF IndexSound, queue_is_empty
    <2>2. size # 1
      BY <1>3, <2>1, WrapOnce, QueueAssumption DEF Cells
    <2>3. /\ head' = Wrap(head + 1) /\ size' = size - 1 /\ tail' = tail
          /\ items' = [items EXCEPT ![head] = 0]
      BY <1>3 DEF queue_out, Advance
    <2>4. head' \in Cells /\ tail' = Wrap(head' + size' - 1)
      <3>1. size - 2 \in 0 .. QueueSize - 2 /\ head + (size - 2) + 1 = head + size - 1
        BY <2>1, <2>2, QueueAssumption DEF Cells
      <3>2. Wrap(head + 1) \in Cells /\ Wrap(Wrap(head + 1) + (size - 2)) = Wrap(head + size - 1)
        BY <2>1, <3>1, NextCell
      <3>3. Wrap(head + 1) + (size - 2) = Wrap(head + 1) + (size - 1) - 1
        BY <2>1, <3>2 DEF Cells
      <3> QED
        BY <2>1, <2>3, <3>2, <3>3
    <2>5. \A i \in size' .. QueueSize - 1 : items'[Wrap(head' + i)] \in Junk
      <3> SUFFICES ASSUME NEW i \in size - 1 .. QueueSize - 1
                   PROVE  items'[Wrap(Wrap(head + 1) + i)] \in Junk
        BY <2>3
      <3>1. CASE i = QueueSize - 1
        <4>1. Wrap(Wrap(head + 1) + i) = head
          <5>1. Wrap(head + 1) = IF head + 1 < QueueSize THEN head + 1 ELSE 0
            BY <2>1, WrapOnce, QueueAssumption DEF Cells
          <5> QED
            BY <2>1, <3>1, <5>1, WrapOnce, QueueAssumption DEF Cells
        <4> QED
          BY <2>1, <2>3, <4>1 DEF IndexSound, Junk
      <3>2. CASE i # QueueSize - 1
        <4>1. i \in 0 .. QueueSize - 2 /\ i + 1 \in size .. QueueSize - 1 /\ i + 1 \in Cells
                 /\ head + (i + 1) = head + i + 1
          BY <2>1, <3>2, QueueAssumption DEF Cells
        <4>2. Wrap(Wrap(head + 1) + i) = Wrap(head + (i + 1)) /\ Wrap(head + (i + 1)) \in Cells
          BY <2>1, <4>1, NextCell, CellsDiffer
        <4>3. items[Wrap(head + (i + 1))] \in Junk
          BY <2>1, <4>1 DEF IndexSound
        <4> QED
          BY <2>1, <2>3, <4>2, <4>3 DEF IndexSound, Junk
      <3> QED
        BY <3>1, <3>2
    <2> QED
      BY <2>1, <2>2, <2>3, <2>4, <2>5, QueueAssumption DEF IndexSound, Junk
  <1> QED
    BY <1>1, <1>2, <1>3

\* The indices of a queue agree at every fill level, whatever the capacity.
THEOREM IndicesSound == Spec => []IndexSound
  <1>1. IndexSound /\ [Next]_<<queueVars, reply>> => IndexSound'
    <2>1. ASSUME IndexSound, UNCHANGED <<queueVars, reply>> PROVE IndexSound'
      BY <2>1 DEF IndexSound, queueVars
    <2> QED
      BY <2>1, InSound, OutSound DEF Next
  <1> QED
    BY InitSound, <1>1, PTL DEF Spec

-----------------------------------------------------------------------------
(* The circular array implements the FIFO queue                            *)

\* The refinement mapping: the queue in FIFO order.
contents == [i \in 1 .. size |-> items[Wrap(head + i - 1)]]

LEMMA ContentsType ==
    ASSUME IndexSound
    PROVE  /\ contents \in Seq(Item \cup Junk)
           /\ Len(contents) = size
  <1>1. size \in Nat
    BY QueueAssumption DEF IndexSound
  <1>2. \A i \in 1 .. size : items[Wrap(head + i - 1)] \in Item \cup Junk
    <2> SUFFICES ASSUME NEW i \in 1 .. size PROVE items[Wrap(head + i - 1)] \in Item \cup Junk
      OBVIOUS
    <2>1. i - 1 \in Cells /\ head \in Cells /\ head + (i - 1) = head + i - 1
      BY <1>1, QueueAssumption DEF IndexSound, Cells
    <2> QED
      BY <2>1, CellsDiffer DEF IndexSound
  <1> QED
    BY <1>1, <1>2 DEF contents

\* Sequences as functions on their positions.
LEMMA SeqFunctions ==
    ASSUME NEW S, NEW q \in Seq(S), NEW e
    PROVE  /\ Append(q, e) = [i \in 1 .. Len(q) + 1 |-> IF i = Len(q) + 1 THEN e ELSE q[i]]
           /\ q # <<>> => Tail(q) = [i \in 1 .. Len(q) - 1 |-> q[i + 1]]
  <1>1. ASSUME q # <<>> PROVE Tail(q) = [i \in 1 .. Len(q) - 1 |-> q[i + 1]]
    <2>1. /\ Tail(q) \in Seq(S) /\ Len(Tail(q)) = Len(q) - 1
          /\ \A i \in 1 .. Len(q) - 1 : Tail(q)[i] = q[i + 1]
      BY <1>1, HeadTailProperties
    <2>2. Tail(q) = [i \in 1 .. Len(q) - 1 |-> Tail(q)[i]]
      BY <2>1, LenProperties
    <2> QED
      BY <2>1, <2>2
  <1>2. Append(q, e) = [i \in 1 .. Len(q) + 1 |-> IF i = Len(q) + 1 THEN e ELSE q[i]]
    <2>1. q \in Seq(S \cup {e}) /\ e \in S \cup {e} /\ Len(q) \in Nat
      BY LenProperties
    <2>2. /\ Append(q, e) \in Seq(S \cup {e}) /\ Len(Append(q, e)) = Len(q) + 1
          /\ \A i \in 1 .. Len(q) : Append(q, e)[i] = q[i]
          /\ Append(q, e)[Len(q) + 1] = e
      BY <2>1, AppendProperties
    <2>3. Append(q, e) = [i \in 1 .. Len(q) + 1 |-> Append(q, e)[i]]
      BY <2>2, LenProperties
    <2> QED
      BY <2>1, <2>2, <2>3
  <1> QED
    BY <1>1, <1>2

LEMMA InitRefines == Init => Fifo!Init
  BY DEF Init, Fifo!Init

LEMMA InRefines ==
    ASSUME IndexSound, IndexSound', NEW item \in Item, queue_in(item)
    PROVE  Fifo!In(item)
  <1>0. size \in Nat /\ QueueSize \in Nat
    BY QueueAssumption DEF IndexSound
  <1>1. CASE queue_is_full
    <2>1. UNCHANGED <<head, tail, size, items>> /\ reply' = [rc |-> -1, out |-> <<>>]
      BY <1>1 DEF queue_in, queueVars
    <2>2. contents' = contents
      BY <2>1 DEF contents
    <2> QED
      BY <1>1, <2>1, <2>2, ContentsType
      DEF Fifo!In, Fifo!queue_in, Fifo!queue_is_full, queue_is_full, contents
  <1>2. CASE ~queue_is_full
    <2>1. reply' = [rc |-> 0, out |-> <<>>] /\ size' = size + 1
      BY <1>2 DEF queue_in
    <2>2. contents' = Append(contents, item)
      <3>1. CASE queue_is_empty
        <4>1. Wrap(tail + 1) = 0 /\ 0 \in Cells /\ Wrap(0) = 0
          BY <3>1, WrapOnce, QueueAssumption DEF queue_is_empty, IndexSound, Cells
        <4>2. head' = 0 /\ size' = 1 /\ items' = [items EXCEPT ![0] = item] /\ size = 0
          BY <1>2, <3>1, <4>1 DEF queue_in, queue_is_empty
        <4>3. items'[0] = item
          BY <4>1, <4>2 DEF IndexSound
        <4>4. contents' = [i \in 1 .. 1 |-> items'[Wrap(0 + i - 1)]]
          BY <4>2 DEF contents
        <4>5. contents' = [i \in 1 .. 1 |-> item]
          BY <4>1, <4>3, <4>4
        <4>6. contents = <<>>
          BY <4>2, ContentsType
        <4> QED
          BY <4>5, <4>6
      <3>2. CASE ~queue_is_empty
        <4>1. /\ head \in Cells /\ size \in 1 .. QueueSize - 1
              /\ tail = Wrap(head + size - 1)
          BY <1>2, <3>2, QueueAssumption DEF IndexSound, queue_is_empty, queue_is_full
        <4>2. Wrap(tail + 1) = Wrap(head + size) /\ Wrap(head + size) \in Cells
          <5>1. size - 1 \in 0 .. QueueSize - 2 /\ size \in Cells
                   /\ head + (size - 1) = head + size - 1 /\ head + (size - 1) + 1 = head + size
            BY <4>1, QueueAssumption DEF Cells
          <5> QED
            BY <4>1, <5>1, NextCell, CellsDiffer
        <4>3. head' = head /\ items' = [items EXCEPT ![Wrap(head + size)] = item]
          BY <1>2, <3>2, <4>2 DEF queue_in
        <4>4. \A i \in 1 .. size : items'[Wrap(head + i - 1)] = items[Wrap(head + i - 1)]
          <5> SUFFICES ASSUME NEW i \in 1 .. size
                       PROVE  items'[Wrap(head + i - 1)] = items[Wrap(head + i - 1)]
            OBVIOUS
          <5>1. i - 1 \in Cells /\ size \in Cells /\ i - 1 # size /\ head + (i - 1) = head + i - 1
            BY <4>1, QueueAssumption DEF Cells
          <5>2. Wrap(head + i - 1) # Wrap(head + size) /\ Wrap(head + i - 1) \in Cells
            BY <4>1, <5>1, CellsDiffer
          <5> QED
            BY <4>2, <4>3, <5>2 DEF IndexSound
        <4>5. items'[Wrap(head + (size + 1) - 1)] = item
          <5>1. head + (size + 1) - 1 = head + size
            BY <4>1 DEF Cells
          <5> QED
            BY <4>2, <4>3, <5>1 DEF IndexSound
        <4>6. contents' = [i \in 1 .. size + 1 |-> IF i = size + 1 THEN item ELSE contents[i]]
          BY <1>0, <2>1, <4>3, <4>4, <4>5 DEF contents
        <4> QED
          BY <4>6, ContentsType, SeqFunctions
      <3> QED
        BY <3>1, <3>2
    <2> QED
      BY <1>2, <2>1, <2>2, ContentsType
      DEF Fifo!In, Fifo!queue_in, Fifo!queue_is_full, queue_is_full, contents
  <1> QED
    BY <1>1, <1>2

LEMMA OutRefines ==
    ASSUME IndexSound, IndexSound', queue_out
    PROVE  Fifo!OutEmpty \/ Fifo!Out
  <1>0. size \in Nat /\ size' \in Nat
    BY QueueAssumption DEF IndexSound
  <1>1. CASE queue_is_empty
    <2>1. UNCHANGED <<head, tail, size, items>> /\ reply' = [rc |-> -1, out |-> <<>>]
      BY <1>1 DEF queue_out, queueVars
    <2>2. contents' = contents
      BY <2>1 DEF contents
    <2>3. contents = <<>>
      BY <1>1, ContentsType DEF queue_is_empty
    <2> QED
      BY <2>1, <2>2, <2>3 DEF Fifo!OutEmpty, contents
  <1>2. CASE ~queue_is_empty
    <2>1. /\ head \in Cells /\ size \in 1 .. QueueSize
          /\ tail = Wrap(head + size - 1) /\ Wrap(head) = head
      BY <1>2, WrapOnce, QueueAssumption DEF IndexSound, queue_is_empty, Cells
    <2>2. contents # <<>> /\ Head(contents) = items[head] /\ contents[1] = items[head]
      <3>1. head + 1 - 1 = head
        BY <2>1 DEF Cells
      <3>2. contents[1] = items[head]
        BY <2>1, <3>1 DEF contents
      <3> QED
        BY <2>1, <3>2, ContentsType
    <2>3. reply' = [rc |-> 0, out |-> <<Head(contents)>>]
      BY <1>2, <2>2 DEF queue_out
    <2>4. contents' = Tail(contents)
      <3>1. CASE head = tail
        <4>1. size = 1
          BY <2>1, <3>1, WrapOnce, QueueAssumption DEF Cells
        <4>2. size' = 0
          BY <1>2, <3>1 DEF queue_out, Advance, Reset
        <4>3. contents' = <<>>
          BY <4>2 DEF contents
        <4>4. Tail(contents) = <<>>
          BY <4>1, ContentsType, SeqFunctions
        <4> QED
          BY <4>3, <4>4
      <3>2. CASE head # tail
        <4>1. size # 1
          BY <3>2, <2>1, WrapOnce, QueueAssumption DEF Cells
        <4>2. /\ head' = Wrap(head + 1) /\ size' = size - 1
              /\ items' = [items EXCEPT ![head] = 0]
          BY <1>2, <3>2 DEF queue_out, Advance
        <4>3. \A i \in 1 .. size - 1 :
                 items'[Wrap(head' + i - 1)] = items[Wrap(head + (i + 1) - 1)]
          <5> SUFFICES ASSUME NEW i \in 1 .. size - 1
                       PROVE  items'[Wrap(head' + i - 1)] = items[Wrap(head + (i + 1) - 1)]
            OBVIOUS
          <5>1. /\ i - 1 \in 0 .. QueueSize - 2 /\ i \in Cells /\ 0 \in Cells /\ i # 0
                /\ head + (i - 1) + 1 = head + i /\ head + (i + 1) - 1 = head + i
                /\ head + 0 = head
            BY <2>1, <4>1, QueueAssumption DEF Cells
          <5>2. Wrap(head + 1) \in Cells /\ Wrap(Wrap(head + 1) + (i - 1)) = Wrap(head + i)
            BY <2>1, <5>1, NextCell
          <5>3. Wrap(head + 1) + (i - 1) = Wrap(head + 1) + i - 1
            BY <5>2 DEF Cells
          <5>4. Wrap(head + i) # head /\ Wrap(head + i) \in Cells
            BY <2>1, <5>1, CellsDiffer
          <5> QED
            BY <4>2, <5>1, <5>2, <5>3, <5>4 DEF IndexSound
        <4>4. contents' = [i \in 1 .. size - 1 |-> contents[i + 1]]
          <5>1. contents' = [i \in 1 .. size - 1 |-> items[Wrap(head + (i + 1) - 1)]]
            BY <4>2, <4>3 DEF contents
          <5>2. \A i \in 1 .. size - 1 : contents[i + 1] = items[Wrap(head + (i + 1) - 1)]
            BY <1>0 DEF contents
          <5> QED
            BY <5>1, <5>2
        <4> QED
          BY <2>2, <4>4, ContentsType, SeqFunctions
      <3> QED
        BY <3>1, <3>2
    <2> QED
      BY <2>2, <2>3, <2>4 DEF Fifo!Out, contents
  <1> QED
    BY <1>1, <1>2

\* The circular array is a FIFO queue of bounded length: queue_in and queue_out
\* answer, keep and give out what the abstract queue does, for every capacity.
THEOREM QueueRefinesFifo == Spec => ImplementsFifo
  <1>1. IndexSound /\ IndexSound' /\ [Next]_<<queueVars, reply>> => [Fifo!Next]_<<contents, reply>>
    <2> SUFFICES ASSUME IndexSound, IndexSound', [Next]_<<queueVars, reply>>
                 PROVE  [Fifo!Next]_<<contents, reply>>
      OBVIOUS
    <2>1. CASE UNCHANGED <<queueVars, reply>>
      BY <2>1 DEF queueVars, contents
    <2>2. CASE queue_out
      BY <2>2, OutRefines DEF Fifo!Next
    <2>3. CASE \E item \in Item : queue_in(item)
      BY <2>3, InRefines DEF Fifo!Next
    <2> QED
      BY <2>1, <2>2, <2>3 DEF Next
  <1> QED
    BY InitRefines, <1>1, IndicesSound, PTL DEF Spec, ImplementsFifo, Fifo!Spec, contents

-----------------------------------------------------------------------------
(* The ring buffer                                                         *)

\* The contents of the ring buffer, the oldest byte first.
ring_contents == [i \in 1 .. ring_size |-> ring_data[Wrap(ring_head + i - 1)]]

\* The indices agree here too, but what is read stays in its cell.
RingSound ==
    /\ ring_size \in 0 .. QueueSize
    /\ ring_data \in [Cells -> Item \cup {0}]
    /\ ring_size = 0 => ring_head = -1 /\ ring_tail = -1
    /\ ring_size > 0 => ring_head \in Cells /\ ring_tail = Wrap(ring_head + ring_size - 1)

LEMMA RingDefs ==
    /\ Ring!Cells = Cells /\ \A c : Ring!Wrap(c) = Wrap(c)
    /\ Ring!Contents = ring_contents /\ Ring!Contents' = ring_contents'
  BY DEF Ring!Cells, Ring!Wrap, Ring!Contents, Cells, Wrap, ring_contents

LEMMA RingContentsType ==
    ASSUME RingSound
    PROVE  /\ ring_contents \in Seq(Item \cup {0})
           /\ Len(ring_contents) = ring_size
  <1>1. ring_size \in Nat
    BY QueueAssumption DEF RingSound
  <1>2. \A i \in 1 .. ring_size : ring_data[Wrap(ring_head + i - 1)] \in Item \cup {0}
    <2> SUFFICES ASSUME NEW i \in 1 .. ring_size
                 PROVE  ring_data[Wrap(ring_head + i - 1)] \in Item \cup {0}
      OBVIOUS
    <2>1. i - 1 \in Cells /\ ring_head \in Cells /\ ring_head + (i - 1) = ring_head + i - 1
      BY <1>1, QueueAssumption DEF RingSound, Cells
    <2> QED
      BY <2>1, CellsDiffer DEF RingSound
  <1> QED
    BY <1>1, <1>2 DEF ring_contents

\* A ring buffer whose indices are sound is empty when ringbuf_is_empty says so.
LEMMA RingEmpty ==
    ASSUME RingSound
    PROVE  /\ Ring!ringbuf_is_empty <=> ring_size = 0
           /\ ring_size = 0 => ring_contents = <<>>
  <1>1. -1 \notin Cells
    BY QueueAssumption DEF Cells
  <1> QED
    BY <1>1, QueueAssumption, RingContentsType DEF RingSound, Ring!ringbuf_is_empty

LEMMA RingInitSound == Ring!Init => RingSound /\ Ring!Fifo!Init
  <1> SUFFICES ASSUME Ring!Init PROVE RingSound /\ Ring!Fifo!Init
    OBVIOUS
  <1>1. RingSound
    BY QueueAssumption, RingDefs DEF Ring!Init, RingSound
  <1>2. Ring!Contents = <<>>
    BY <1>1, RingEmpty, RingDefs DEF Ring!Init
  <1> QED
    BY <1>1, <1>2 DEF Ring!Init, Ring!Fifo!Init

LEMMA RingWrite ==
    ASSUME RingSound, NEW byte \in Item, Ring!ringbuf_write(byte)
    PROVE  RingSound' /\ Ring!Fifo!In(byte)
  <1>0. ring_size \in Nat /\ QueueSize \in Nat
    BY QueueAssumption DEF RingSound
  <1>1. CASE Ring!ringbuf_is_full
    <2>1. /\ UNCHANGED <<ring_head, ring_tail, ring_size, ring_data>>
          /\ ring_reply' = [rc |-> -1, out |-> <<>>] /\ ring_size = QueueSize
      BY <1>1 DEF Ring!ringbuf_write, Ring!bufVars, Ring!ringbuf_is_full
    <2>2. ring_contents' = ring_contents
      BY <2>1 DEF ring_contents
    <2>3. Ring!Contents' = Ring!Contents /\ Len(Ring!Contents) = QueueSize
      BY <2>1, <2>2, RingDefs, RingContentsType
    <2>4. Ring!Fifo!In(byte)
      BY <2>1, <2>3 DEF Ring!Fifo!In, Ring!Fifo!queue_in, Ring!Fifo!queue_is_full
    <2> QED
      BY <2>1, <2>4 DEF RingSound
  <1>2. CASE ~Ring!ringbuf_is_full
    <2>1. /\ ring_head' = IF ring_size = 0 THEN 0 ELSE ring_head
          /\ ring_tail' = Wrap(ring_tail + 1) /\ ring_size' = ring_size + 1
          /\ ring_data' = [ring_data EXCEPT ![Wrap(ring_tail + 1)] = byte]
          /\ ring_reply' = [rc |-> 0, out |-> <<>>] /\ ring_size # QueueSize
      BY <1>2, RingDefs, RingEmpty DEF Ring!ringbuf_write, Ring!ringbuf_is_full
    <2>2. ring_head' \in Cells /\ Wrap(ring_tail + 1) = Wrap(ring_head' + ring_size)
      <3>1. CASE ring_size = 0
        <4>1. ring_tail = -1 /\ ring_head' = 0 /\ 0 \in Cells
          BY <2>1, <3>1, QueueAssumption DEF RingSound, Cells
        <4> QED
          BY <3>1, <4>1
      <3>2. CASE ring_size # 0
        <4>1. /\ ring_head \in Cells /\ ring_tail = Wrap(ring_head + (ring_size - 1))
              /\ ring_size - 1 \in 0 .. QueueSize - 2
              /\ ring_head + (ring_size - 1) + 1 = ring_head + ring_size
          BY <1>0, <2>1, <3>2 DEF RingSound, Cells
        <4> QED
          BY <2>1, <3>2, <4>1, NextCell
      <3> QED
        BY <3>1, <3>2
    <2>3. ring_size \in Cells /\ Wrap(ring_tail + 1) \in Cells
      <3>1. ring_size \in Cells
        BY <1>0, <2>1 DEF RingSound, Cells
      <3> QED
        BY <2>2, <3>1, CellsDiffer
    <2>4. RingSound'
      <3>1. ring_size' \in 0 .. QueueSize /\ ring_size' > 0 /\ ring_head' + ring_size' - 1 = ring_head' + ring_size
        BY <1>0, <2>1, <2>2 DEF RingSound, Cells
      <3>2. ring_data' \in [Cells -> Item \cup {0}]
        BY <2>1, <2>3 DEF RingSound
      <3> QED
        BY <2>1, <2>2, <3>1, <3>2 DEF RingSound
    <2>5. \A i \in 1 .. ring_size :
             ring_data'[Wrap(ring_head' + i - 1)] = ring_data[Wrap(ring_head + i - 1)]
      <3> SUFFICES ASSUME NEW i \in 1 .. ring_size
                   PROVE  ring_data'[Wrap(ring_head' + i - 1)] = ring_data[Wrap(ring_head + i - 1)]
        OBVIOUS
      <3>1. /\ ring_head' = ring_head
            /\ i - 1 \in Cells /\ i - 1 # ring_size /\ ring_head + (i - 1) = ring_head + i - 1
        BY <1>0, <2>1, <2>2, <2>3 DEF Cells
      <3>2. Wrap(ring_head + i - 1) # Wrap(ring_head + ring_size) /\ Wrap(ring_head + i - 1) \in Cells
        BY <2>2, <2>3, <3>1, CellsDiffer
      <3> QED
        BY <2>1, <2>2, <2>3, <3>1, <3>2 DEF RingSound
    <2>6. ring_data'[Wrap(ring_head' + (ring_size + 1) - 1)] = byte
      <3>1. ring_head' + (ring_size + 1) - 1 = ring_head' + ring_size
        BY <1>0, <2>2 DEF Cells
      <3> QED
        BY <2>1, <2>2, <2>3, <3>1 DEF RingSound
    <2>7. ring_contents' = [i \in 1 .. ring_size + 1 |->
                              IF i = ring_size + 1 THEN byte ELSE ring_contents[i]]
      BY <1>0, <2>1, <2>5, <2>6 DEF ring_contents
    <2>8. ring_contents' = Append(ring_contents, byte)
      BY <2>7, RingContentsType, SeqFunctions
    <2>9. Ring!Contents' = Append(Ring!Contents, byte) /\ Len(Ring!Contents) # QueueSize
      BY <2>1, <2>8, RingDefs, RingContentsType
    <2>10. Ring!Fifo!In(byte)
      BY <2>1, <2>9 DEF Ring!Fifo!In, Ring!Fifo!queue_in, Ring!Fifo!queue_is_full
    <2> QED
      BY <2>4, <2>10
  <1> QED
    BY <1>1, <1>2

LEMMA RingRead ==
    ASSUME RingSound, Ring!ringbuf_read
    PROVE  RingSound' /\ (Ring!Fifo!OutEmpty \/ Ring!Fifo!Out)
  <1>0. ring_size \in Nat /\ QueueSize \in Nat
    BY QueueAssumption DEF RingSound
  <1>1. CASE Ring!ringbuf_is_empty
    <2>1. /\ UNCHANGED <<ring_head, ring_tail, ring_size, ring_data>>
          /\ ring_reply' = [rc |-> -1, out |-> <<>>] /\ ring_contents = <<>>
      BY <1>1, RingEmpty DEF Ring!ringbuf_read, Ring!bufVars
    <2>2. ring_contents' = ring_contents
      BY <2>1 DEF ring_contents
    <2>3. Ring!Fifo!OutEmpty
      BY <2>1, <2>2, RingDefs DEF Ring!Fifo!OutEmpty
    <2> QED
      BY <2>1, <2>3 DEF RingSound
  <1>2. CASE ~Ring!ringbuf_is_empty
    <2>1. /\ ring_head \in Cells /\ ring_size \in 1 .. QueueSize /\ Wrap(ring_head) = ring_head
          /\ ring_tail = Wrap(ring_head + (ring_size - 1))
          /\ ring_reply' = [rc |-> 0, out |-> <<ring_data[ring_head]>>]
          /\ Ring!Advance
      <3>1. ring_size # 0
        BY <1>2, RingEmpty
      <3>2. /\ ring_head \in Cells /\ ring_size \in 1 .. QueueSize
            /\ ring_tail = Wrap(ring_head + ring_size - 1)
        BY <1>0, <3>1 DEF RingSound
      <3>3. Wrap(ring_head) = ring_head /\ ring_head + ring_size - 1 = ring_head + (ring_size - 1)
        BY <3>2, WrapOnce, QueueAssumption DEF Cells
      <3>4. ring_reply' = [rc |-> 0, out |-> <<ring_data[ring_head]>>] /\ Ring!Advance
        BY <1>2 DEF Ring!ringbuf_read
      <3> QED
        BY <3>2, <3>3, <3>4
    <2>2. ring_contents # <<>> /\ Head(ring_contents) = ring_data[ring_head]
      <3>1. ring_head + 1 - 1 = ring_head
        BY <2>1 DEF Cells
      <3>2. ring_contents[1] = ring_data[ring_head]
        BY <2>1, <3>1 DEF ring_contents
      <3> QED
        BY <2>1, <3>2, RingContentsType
    <2>3. CASE ring_head = ring_tail
      <3>1. ring_size = 1
        <4>1. 0 \in Cells /\ ring_size - 1 \in Cells /\ ring_head + 0 = ring_head
          BY <2>1, QueueAssumption DEF Cells
        <4>2. ring_size - 1 = 0
          BY <2>1, <2>3, <4>1, CellsDiffer
        <4> QED
          BY <2>1, <4>2
      <3>2. /\ ring_head' = -1 /\ ring_tail' = -1 /\ ring_size' = 0
            /\ ring_data' = [c \in Cells |-> 0]
        BY <2>1, <2>3, RingDefs DEF Ring!Advance, Ring!ringbuf_init
      <3>3. RingSound'
        BY <3>2, QueueAssumption DEF RingSound
      <3>4. ring_contents' = <<>>
        BY <3>2 DEF ring_contents
      <3>5. Tail(ring_contents) = <<>>
        BY <3>1, RingContentsType, SeqFunctions
      <3>6. Ring!Fifo!Out
        BY <2>1, <2>2, <3>4, <3>5, RingDefs DEF Ring!Fifo!Out
      <3> QED
        BY <3>3, <3>6
    <2>4. CASE ring_head # ring_tail
      <3>1. ring_size # 1
        <4>1. ring_size = 1 => ring_head + (ring_size - 1) = ring_head
          BY <2>1 DEF Cells
        <4> QED
          BY <2>1, <2>4, <4>1
      <3>2. /\ ring_head' = Wrap(ring_head + 1) /\ ring_size' = ring_size - 1
            /\ ring_data' = ring_data /\ ring_tail' = ring_tail
        BY <2>1, <2>4, RingDefs DEF Ring!Advance
      <3>3. /\ ring_size - 2 \in 0 .. QueueSize - 2
            /\ ring_head + (ring_size - 2) + 1 = ring_head + (ring_size - 1)
        BY <1>0, <2>1, <3>1 DEF Cells
      <3>4. /\ Wrap(ring_head + 1) \in Cells
            /\ Wrap(Wrap(ring_head + 1) + (ring_size - 2)) = Wrap(ring_head + (ring_size - 1))
        BY <2>1, <3>3, NextCell
      <3>5. RingSound'
        <4>1. Wrap(ring_head + 1) + (ring_size - 2) = ring_head' + ring_size' - 1
          BY <2>1, <3>2, <3>4 DEF Cells
        <4>2. ring_size' \in 0 .. QueueSize /\ ring_size' # 0
          BY <1>0, <2>1, <3>1, <3>2
        <4> QED
          BY <2>1, <3>2, <3>4, <4>1, <4>2 DEF RingSound
      <3>6. \A i \in 1 .. ring_size - 1 :
               ring_data'[Wrap(ring_head' + i - 1)] = ring_contents[i + 1]
        <4> SUFFICES ASSUME NEW i \in 1 .. ring_size - 1
                     PROVE  ring_data'[Wrap(ring_head' + i - 1)] = ring_contents[i + 1]
          OBVIOUS
        <4>1. /\ i - 1 \in 0 .. QueueSize - 2 /\ i + 1 \in 1 .. ring_size
              /\ ring_head + (i - 1) + 1 = ring_head + (i + 1) - 1
          BY <1>0, <2>1, <3>1 DEF Cells
        <4>2. Wrap(Wrap(ring_head + 1) + (i - 1)) = Wrap(ring_head + (i + 1) - 1)
          BY <2>1, <4>1, NextCell
        <4>3. Wrap(ring_head + 1) + (i - 1) = ring_head' + i - 1
          BY <3>2, <3>4 DEF Cells
        <4>4. ring_contents[i + 1] = ring_data[Wrap(ring_head + (i + 1) - 1)]
          BY <4>1 DEF ring_contents
        <4> QED
          BY <3>2, <4>2, <4>3, <4>4
      <3>7. ring_contents' = [i \in 1 .. ring_size - 1 |-> ring_contents[i + 1]]
        BY <3>2, <3>6 DEF ring_contents
      <3>8. ring_contents' = Tail(ring_contents)
        BY <2>2, <3>7, RingContentsType, SeqFunctions
      <3>9. Ring!Fifo!Out
        BY <2>1, <2>2, <3>8, RingDefs DEF Ring!Fifo!Out
      <3> QED
        BY <3>5, <3>9
    <2> QED
      BY <2>3, <2>4
  <1> QED
    BY <1>1, <1>2

LEMMA RingFlush ==
    ASSUME RingSound, Ring!ringbuf_flush
    PROVE  RingSound' /\ Ring!Flushed
  <1>1. /\ ring_head' = -1 /\ ring_tail' = -1 /\ ring_size' = 0
        /\ ring_data' = [c \in Cells |-> 0]
        /\ ring_reply' = [rc |-> 0, out |-> <<>>]
    BY RingDefs DEF Ring!ringbuf_flush, Ring!ringbuf_init
  <1> QED
    BY <1>1, QueueAssumption DEF RingSound, Ring!Flushed

\* A ring buffer gives out the bytes that were written, in their order, or drops
\* them all in a flush, for every capacity and although ringbuf_read leaves
\* what it has read in its cell.
THEOREM RingRefinesFifo == BufferSpec => RingReadsInOrder
  <1>1. BufferInit => RingSound /\ Ring!Fifo!Init
    BY RingInitSound DEF BufferInit
  <1>2. RingSound /\ [BufferNext]_<<queueVars, reply, ringVars, used>>
           => /\ RingSound'
              /\ [Ring!Fifo!Next \/ Ring!Flushed]_<<Ring!Contents, ring_reply>>
    <2> SUFFICES ASSUME RingSound, [BufferNext]_<<queueVars, reply, ringVars, used>>
                 PROVE  /\ RingSound'
                        /\ [Ring!Fifo!Next \/ Ring!Flushed]_<<Ring!Contents, ring_reply>>
      OBVIOUS
    <2>1. CASE UNCHANGED ringVars
      <3>1. UNCHANGED <<ring_head, ring_tail, ring_size, ring_data, ring_reply>>
        BY <2>1 DEF ringVars
      <3>2. ring_contents' = ring_contents
        BY <3>1 DEF ring_contents
      <3> QED
        BY <3>1, <3>2, RingDefs DEF RingSound
    <2>2. CASE Ring!ringbuf_read
      BY <2>2, RingRead DEF Ring!Fifo!Next
    <2>3. CASE Ring!ringbuf_flush
      BY <2>3, RingFlush
    <2>4. ASSUME NEW byte \in Item, Ring!ringbuf_write(byte)
          PROVE  RingSound' /\ Ring!Fifo!Next
      BY <2>4, RingWrite DEF Ring!Fifo!Next
    <2> QED
      BY <2>1, <2>2, <2>3, <2>4 DEF BufferNext, Ring!Next
  <1> QED
    BY <1>1, <1>2, PTL DEF BufferSpec, RingReadsInOrder, Ring!ReadsInOrder

=============================================================================
