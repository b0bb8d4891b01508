------------------------------ MODULE TtyProofs ------------------------------
(***************************************************************************)
(* Proofs about TtyIO: for any number of TTYs, buffers of any size, any    *)
(* choice of TTYs that echo and any sizes of the writes.                   *)
(***************************************************************************)
EXTENDS TtyIO, SequenceTheorems, TLAPS

\* The types of the state, and buffers within their bounds: Room is then a number.
TtyTypes ==
    /\ io \in [Ttys -> [IO -> Seq(Nat)]]
    /\ \A t \in Ttys, b \in IO : Len(io[t][b]) <= QueueSize
    /\ screen \in [Ttys -> Seq(Nat)]
    /\ written \in [Ttys -> [IO -> Nat]]
    /\ active_tty \in Ttys

TtyInv == TtyTypes /\ ShownInOrder /\ DisplayCurrent

-----------------------------------------------------------------------------
(* Sequences of numbered characters                                        *)

\* The characters that follow the first m ones.
Following(m, n) == [i \in 1 .. n |-> m + i]

LEMMA NextCharacters ==
    ASSUME NEW m \in Nat, NEW n \in Nat
    PROVE  /\ Following(m, n) \in Seq(Nat) /\ Len(Following(m, n)) = n
           /\ Following(0, m) \o Following(m, n) = Following(0, m + n)
<1>1. \A k, j \in Nat : /\ Following(k, j) \in Seq(Nat) /\ Len(Following(k, j)) = j
                        /\ \A i \in 1 .. j : Following(k, j)[i] = k + i
  BY DEF Following
<1> DEFINE a == Following(0, m)
           b == Following(m, n)
           c == Following(0, m + n)
<1>2. /\ a \in Seq(Nat) /\ b \in Seq(Nat) /\ c \in Seq(Nat)
      /\ Len(a) = m /\ Len(b) = n /\ Len(c) = m + n
      /\ \A i \in 1 .. m : a[i] = i
      /\ \A i \in 1 .. n : b[i] = m + i
      /\ \A i \in 1 .. m + n : c[i] = i
  <2>1. 0 \in Nat /\ m + n \in Nat /\ \A i \in Nat : 0 + i = i
    OBVIOUS
  <2>2. a \in Seq(Nat) /\ Len(a) = m /\ \A i \in 1 .. m : a[i] = 0 + i
    BY <1>1, <2>1
  <2>3. b \in Seq(Nat) /\ Len(b) = n /\ \A i \in 1 .. n : b[i] = m + i
    BY <1>1
  <2>4. c \in Seq(Nat) /\ Len(c) = m + n /\ \A i \in 1 .. m + n : c[i] = 0 + i
    BY <1>1, <2>1
  <2> HIDE DEF a, b, c
  <2> QED
    BY <2>1, <2>2, <2>3, <2>4
<1> HIDE DEF a, b, c
<1>3. /\ a \o b \in Seq(Nat) /\ Len(a \o b) = m + n
      /\ \A i \in 1 .. m + n : (a \o b)[i] = IF i <= m THEN a[i] ELSE b[i - m]
  BY <1>2, ConcatProperties, SMTT(20)
<1>4. \A i \in 1 .. m + n : (a \o b)[i] = c[i]
  <2> SUFFICES ASSUME NEW i \in 1 .. m + n PROVE (a \o b)[i] = c[i]
    OBVIOUS
  <2>1. CASE i <= m
    BY <1>2, <1>3, <2>1
  <2>2. CASE ~(i <= m)
    <3>1. i - m \in 1 .. n /\ m + (i - m) = i
      BY <2>2
    <3> QED
      BY <1>2, <1>3, <2>2, <3>1
  <2> QED
    BY <2>1, <2>2
<1>5. a \o b = c
  BY <1>2, <1>3, <1>4, SeqEqual
<1> QED
  BY <1>2, <1>5 DEF a, b, c

-----------------------------------------------------------------------------
(* The buffers                                                             *)

LEMMA RoomFacts ==
    ASSUME NEW q \in Seq(Nat), Len(q) <= QueueSize, NEW n \in Nat
    PROVE  /\ Room(q, n) \in Nat /\ Room(q, n) <= n
           /\ Len(q) + Room(q, n) <= QueueSize
BY QueueSizeAssumption DEF Room

\* The buffer b of TTY t after it was offered n characters.
Offered(t, b, n) == io[t][b] \o Following(written[t][b], Room(io[t][b], n))

LEMMA OfferFacts ==
    ASSUME TtyTypes, NEW t \in Ttys, NEW bs \in SUBSET IO, NEW n \in Nat, Offer(t, bs, n)
    PROVE  /\ io' \in [Ttys -> [IO -> Seq(Nat)]]
           /\ \A u \in Ttys, b \in IO : Len(io'[u][b]) <= QueueSize
           /\ written' \in [Ttys -> [IO -> Nat]]
           /\ \A u \in Ttys, b \in IO :
                 /\ u = t /\ b \in bs => /\ io'[u][b] = Offered(u, b, n)
                                         /\ written'[u][b] = written[u][b] + n
                 /\ ~(u = t /\ b \in bs) => /\ io'[u][b] = io[u][b]
                                            /\ written'[u][b] = written[u][b]
<1>1. /\ io \in [Ttys -> [IO -> Seq(Nat)]] /\ written \in [Ttys -> [IO -> Nat]]
      /\ \A u \in Ttys, b \in IO : Len(io[u][b]) <= QueueSize
  BY DEF TtyTypes
<1>2. /\ io' = [io EXCEPT ![t] = [b \in IO |->
                   IF b \in bs THEN Offered(t, b, n) ELSE io[t][b]]]
      /\ written' = [written EXCEPT ![t] = [b \in IO |->
                   IF b \in bs THEN written[t][b] + n ELSE written[t][b]]]
  BY <1>1 DEF Offer, Offered, Following
<1>3. ASSUME NEW b \in IO
      PROVE  Offered(t, b, n) \in Seq(Nat) /\ Len(Offered(t, b, n)) <= QueueSize
  <2> DEFINE q == io[t][b]
             k == Room(q, n)
             f == Following(written[t][b], k)
  <2>1. q \in Seq(Nat) /\ Len(q) <= QueueSize /\ written[t][b] \in Nat
    BY <1>1
  <2>2. k \in Nat /\ Len(q) + k <= QueueSize
    BY <2>1, RoomFacts
  <2> HIDE DEF k
  <2>3. f \in Seq(Nat) /\ Len(f) = k
    BY <2>1, <2>2, NextCharacters
  <2> HIDE DEF q, f
  <2>4. q \o f \in Seq(Nat) /\ Len(q \o f) = Len(q) + Len(f)
    BY <2>1, <2>3, ConcatProperties
  <2> QED
    BY <2>2, <2>3, <2>4 DEF Offered, q, k, f
<1>4. \A u \in Ttys, b \in IO :
         /\ io'[u][b] = IF u = t /\ b \in bs THEN Offered(u, b, n) ELSE io[u][b]
         /\ written'[u][b] = IF u = t /\ b \in bs THEN written[u][b] + n ELSE written[u][b]
  BY <1>1, <1>2
<1>5. io' \in [Ttys -> [IO -> Seq(Nat)]] /\ written' \in [Ttys -> [IO -> Nat]]
  BY <1>1, <1>2, <1>3
<1>6. ASSUME NEW u \in Ttys, NEW b \in IO PROVE Len(io'[u][b]) <= QueueSize
  <2>1. CASE u = t /\ b \in bs
    <3>1. io'[u][b] = Offered(t, b, n)
      BY <1>4, <2>1
    <3> QED
      BY <1>3, <3>1
  <2>2. CASE ~(u = t /\ b \in bs)
    <3>1. io'[u][b] = io[u][b]
      BY <1>4, <2>2
    <3> QED
      BY <1>1, <3>1
  <2> QED
    BY <2>1, <2>2
<1> QED
  BY <1>4, <1>5, <1>6

\* An offer that fits continues what the TTY shows and what waits to be shown.
LEMMA OfferKeeps ==
    ASSUME TtyInv, NEW t \in Ttys, NEW bs \in SUBSET IO, NEW n \in Nat, Offer(t, bs, n),
           UNCHANGED <<screen, refresh, active_tty, vga>>
    PROVE  TtyInv'
<1>1. \A u \in Ttys, b \in IO :
         /\ u = t /\ b \in bs => /\ io'[u][b] = Offered(u, b, n)
                                 /\ written'[u][b] = written[u][b] + n
         /\ ~(u = t /\ b \in bs) => /\ io'[u][b] = io[u][b]
                                    /\ written'[u][b] = written[u][b]
  BY OfferFacts DEF TtyInv
<1>2. TtyTypes'
  BY OfferFacts DEF TtyInv, TtyTypes
<1>3. DisplayCurrent'
  BY DEF TtyInv, DisplayCurrent
<1>4. ASSUME NEW u \in Ttys, <<u, "out">> \notin spoilt'
      PROVE  screen'[u] \o io'[u]["out"] = [i \in 1 .. written'[u]["out"] |-> i]
  <2>1. "out" \in IO
    BY DEF IO
  <2>2. <<u, "out">> \notin spoilt /\ (u = t /\ "out" \in bs => ~(Room(io[t]["out"], n) < n))
    BY <1>4, <2>1 DEF Offer
  <2>3. screen[u] \o io[u]["out"] = Following(0, written[u]["out"])
    <3>1. screen[u] \o io[u]["out"] = [i \in 1 .. written[u]["out"] |-> i]
      BY <2>2 DEF TtyInv, ShownInOrder, PROC_IO_OUT
    <3>2. written[u]["out"] \in Nat
      BY <2>1 DEF TtyInv, TtyTypes
    <3>3. \A i \in 1 .. written[u]["out"] : 0 + i = i
      BY <3>2
    <3> QED
      BY <3>1, <3>3 DEF Following
  <2>4. screen'[u] \o io'[u]["out"] = Following(0, written'[u]["out"])
    <3>1. CASE u = t /\ "out" \in bs
      <4> DEFINE q == io[t]["out"]
                 w == written[t]["out"]
      <4>1. /\ q \in Seq(Nat) /\ Len(q) <= QueueSize /\ w \in Nat /\ screen[t] \in Seq(Nat)
        BY <2>1 DEF TtyInv, TtyTypes
      <4>2. Room(q, n) = n
        BY <2>2, <3>1, <4>1, RoomFacts
      <4>3. io'[t]["out"] = q \o Following(w, n) /\ written'[t]["out"] = w + n
        <5>1. io'[t]["out"] = Offered(t, "out", n) /\ written'[t]["out"] = w + n
          BY <1>1, <2>1, <3>1
        <5> QED
          BY <4>2, <5>1 DEF Offered
      <4> HIDE DEF q, w
      <4>4. Following(w, n) \in Seq(Nat) /\ Following(0, w) \o Following(w, n) = Following(0, w + n)
        BY <4>1, NextCharacters
      <4>5. screen[t] \o (q \o Following(w, n)) = (screen[t] \o q) \o Following(w, n)
        <5> DEFINE s == screen[t]
                   f == Following(w, n)
        <5>1. s \in Seq(Nat) /\ q \in Seq(Nat) /\ f \in Seq(Nat)
          BY <4>1, <4>4
        <5> HIDE DEF s, f
        <5>2. (s \o q) \o f = s \o (q \o f)
          BY <5>1, ConcatAssociative, SMTT(20)
        <5> QED
          BY <5>2 DEF s, f
      <4>6. screen[t] \o q = Following(0, w)
        BY <2>3, <3>1 DEF q, w
      <4> QED
        BY <3>1, <4>3, <4>4, <4>5, <4>6
    <3>2. CASE ~(u = t /\ "out" \in bs)
      BY <1>1, <2>1, <2>3, <3>2
    <3> QED
      BY <3>1, <3>2
  <2>5. Following(0, written'[u]["out"]) = [i \in 1 .. written'[u]["out"] |-> i]
    <3>1. written'[u]["out"] \in Nat
      BY <1>2, <2>1 DEF TtyTypes
    <3>2. \A i \in 1 .. written'[u]["out"] : 0 + i = i
      BY <3>1
    <3> QED
      BY <3>2 DEF Following
  <2> QED
    BY <2>4, <2>5
<1> QED
  BY <1>2, <1>3, <1>4 DEF TtyInv, ShownInOrder, PROC_IO_OUT

\* A flush takes nothing that nobody will miss: then the TTY counts as spoilt.
LEMMA EmptyKeeps ==
    ASSUME TtyInv, NEW t \in Ttys, NEW b \in IO, io' = Emptied(t, b),
           spoilt' = IF io[t][b] # <<>> THEN spoilt \cup {<<t, b>>} ELSE spoilt,
           UNCHANGED <<screen, refresh, active_tty, vga, written>>
    PROVE  TtyInv'
<1>1. /\ io \in [Ttys -> [IO -> Seq(Nat)]]
      /\ \A u \in Ttys, c \in IO : Len(io[u][c]) <= QueueSize
  BY DEF TtyInv, TtyTypes
<1>2. <<>> \in Seq(Nat) /\ Len(<<>>) <= QueueSize
  BY QueueSizeAssumption
<1>3. \A u \in Ttys, c \in IO : io'[u][c] = IF u = t /\ c = b THEN <<>> ELSE io[u][c]
  BY <1>1 DEF Emptied
<1>4. io' \in [Ttys -> [IO -> Seq(Nat)]]
  BY <1>1, <1>2 DEF Emptied
<1>5. TtyTypes'
  BY <1>1, <1>2, <1>3, <1>4 DEF TtyInv, TtyTypes
<1>6. DisplayCurrent'
  BY DEF TtyInv, DisplayCurrent
<1>7. ASSUME NEW u \in Ttys, <<u, "out">> \notin spoilt'
      PROVE  screen'[u] \o io'[u]["out"] = [i \in 1 .. written'[u]["out"] |-> i]
  <2>1. "out" \in IO
    BY DEF IO
  <2>2. <<u, "out">> \notin spoilt
    BY <1>7
  <2>3. io'[u]["out"] = io[u]["out"]
    BY <1>3, <1>7, <2>1
  <2> QED
    BY <2>2, <2>3 DEF TtyInv, ShownInOrder, PROC_IO_OUT
<1> QED
  BY <1>5, <1>6, <1>7 DEF TtyInv, ShownInOrder, PROC_IO_OUT

-----------------------------------------------------------------------------
(* The display                                                             *)

LEMMA SelectKeeps ==
    ASSUME TtyInv, NEW n \in Ttys, tty_select(n)
    PROVE  TtyInv'
<1>1. TtyTypes' /\ ShownInOrder'
  BY DEF TtyInv, TtyTypes, ShownInOrder, tty_select
<1>2. DisplayCurrent'
  BY DEF TtyInv, DisplayCurrent, tty_select, Selected
<1> QED
  BY <1>1, <1>2 DEF TtyInv

\* What leaves the buffer of the active TTY comes to the end of its screen.
LEMMA RefreshKeeps ==
    ASSUME TtyInv, tty_refresh
    PROVE  TtyInv'
<1> DEFINE t == active_tty
           q == io[t]["out"]
<1>1. /\ io \in [Ttys -> [IO -> Seq(Nat)]] /\ screen \in [Ttys -> Seq(Nat)]
      /\ \A u \in Ttys, c \in IO : Len(io[u][c]) <= QueueSize
      /\ written \in [Ttys -> [IO -> Nat]]
      /\ t \in Ttys /\ "out" \in IO /\ q \in Seq(Nat) /\ screen[t] \in Seq(Nat)
  BY DEF TtyInv, TtyTypes, IO
<1>2. /\ screen' = [screen EXCEPT ![t] = @ \o q]
      /\ io' = [io EXCEPT ![t]["out"] = <<>>]
      /\ vga' = IF q # <<>> \/ t \in refresh THEN [tty |-> t, shows |-> screen'[t]] ELSE vga
      /\ refresh' = refresh \ {t}
      /\ UNCHANGED <<active_tty, written, spoilt>>
  BY DEF tty_refresh, Taken, PROC_IO_OUT
<1>3. screen[t] \o q \in Seq(Nat) /\ (q = <<>> => screen[t] \o q = screen[t])
  BY <1>1, ConcatProperties, ConcatEmptySeq
<1> HIDE DEF t, q
<1>4. <<>> \in Seq(Nat) /\ Len(<<>>) <= QueueSize
  BY QueueSizeAssumption
<1>5. /\ \A u \in Ttys, c \in IO : io'[u][c] = IF u = t /\ c = "out" THEN <<>> ELSE io[u][c]
      /\ \A u \in Ttys : screen'[u] = IF u = t THEN screen[t] \o q ELSE screen[u]
  BY <1>1, <1>2
<1>6. io' \in [Ttys -> [IO -> Seq(Nat)]] /\ screen' \in [Ttys -> Seq(Nat)]
  BY <1>1, <1>2, <1>3, <1>4
<1>7. TtyTypes'
  <2>1. \A u \in Ttys, c \in IO : Len(io'[u][c]) <= QueueSize
    BY <1>1, <1>4, <1>5
  <2> QED
    BY <1>1, <1>2, <1>6, <2>1 DEF TtyTypes, t
<1>8. ASSUME NEW u \in Ttys, <<u, "out">> \notin spoilt'
      PROVE  screen'[u] \o io'[u]["out"] = [i \in 1 .. written'[u]["out"] |-> i]
  <2>1. screen[u] \o io[u]["out"] = [i \in 1 .. written'[u]["out"] |-> i]
    BY <1>2, <1>8 DEF TtyInv, ShownInOrder, PROC_IO_OUT
  <2>2. screen'[u] \o io'[u]["out"] = screen[u] \o io[u]["out"]
    <3>1. CASE u = t
      <4>1. (screen[t] \o q) \o <<>> = screen[t] \o q
        BY <1>3, ConcatEmptySeq
      <4> QED
        BY <1>1, <1>5, <3>1, <4>1 DEF q
    <3>2. CASE u # t
      BY <1>1, <1>5, <3>2
    <3> QED
      BY <3>1, <3>2
  <2> QED
    BY <2>1, <2>2
<1>9. DisplayCurrent'
  <2>1. CASE q # <<>> \/ t \in refresh
    BY <1>2, <2>1 DEF DisplayCurrent, t
  <2>2. CASE ~(q # <<>> \/ t \in refresh)
    <3>1. vga = [tty |-> t, shows |-> screen[t]]
      BY <2>2 DEF TtyInv, DisplayCurrent, t
    <3>2. screen'[t] = screen[t] /\ vga' = vga /\ active_tty' = t
      BY <1>1, <1>2, <1>3, <1>5, <2>2 DEF t
    <3> QED
      BY <3>1, <3>2 DEF DisplayCurrent
  <2> QED
    BY <2>1, <2>2
<1> QED
  BY <1>7, <1>8, <1>9 DEF TtyInv, ShownInOrder, PROC_IO_OUT

-----------------------------------------------------------------------------
(* The theorems                                                            *)

LEMMA TtyInitInv == Init => TtyInv
<1> SUFFICES ASSUME Init PROVE TtyInv
  OBVIOUS
<1>1. /\ io = [t \in Ttys |-> [b \in IO |-> <<>>]] /\ screen = [t \in Ttys |-> <<>>]
      /\ written = [t \in Ttys |-> [b \in IO |-> 0]]
      /\ active_tty = 0 /\ 0 \in Ttys /\ refresh = {0}
  BY TtyAssumption DEF Init
<1>2. <<>> \in Seq(Nat) /\ Len(<<>>) <= QueueSize
  BY QueueSizeAssumption
<1>3. TtyTypes
  BY <1>1, <1>2 DEF TtyTypes
<1>4. ShownInOrder
  <2>1. "out" \in IO
    BY DEF IO
  <2>2. <<>> \o <<>> = <<>> /\ [i \in 1 .. 0 |-> i] = <<>>
    <3>1. [i \in 1 .. 0 |-> i] \in Seq(Nat) /\ Len([i \in 1 .. 0 |-> i]) = 0
      OBVIOUS
    <3> QED
      BY <3>1
  <2> QED
    BY <1>1, <2>1, <2>2 DEF ShownInOrder, PROC_IO_OUT
<1> QED
  BY <1>1, <1>3, <1>4 DEF TtyInv, DisplayCurrent

LEMMA TtyNextInv == TtyInv /\ [Next]_vars => TtyInv'
<1> SUFFICES ASSUME TtyInv, [Next]_vars PROVE TtyInv'
  OBVIOUS
<1>1. "in" \in IO /\ "out" \in IO
  BY DEF IO
<1>2. CASE tty_input
  <2> DEFINE bs == IF active_tty \in Echo THEN IO ELSE {"in"}
  <2>1. bs \in SUBSET IO /\ active_tty \in Ttys /\ 1 \in Nat
    BY <1>1 DEF TtyInv, TtyTypes
  <2>2. Offer(active_tty, bs, 1) /\ UNCHANGED <<screen, refresh, active_tty, vga>>
    BY <1>2 DEF tty_input, PROC_IO_IN
  <2> HIDE DEF bs
  <2> QED
    BY <2>1, <2>2, OfferKeeps
<1>3. ASSUME NEW n \in Ttys, tty_select(n) PROVE TtyInv'
  BY <1>3, SelectKeeps
<1>4. ASSUME NEW t \in Ttys, NEW b \in IO, IoCall(t, b) PROVE TtyInv'
  <2>1. ASSUME NEW n \in WriteSizes, ksyscall_io_write(t, b, n) PROVE TtyInv'
    <3>1. n \in Nat /\ {b} \in SUBSET IO
      BY TtyAssumption
    <3>2. Offer(t, {b}, n) /\ UNCHANGED <<screen, refresh, active_tty, vga>>
      BY <2>1 DEF ksyscall_io_write
    <3> QED
      BY <3>1, <3>2, OfferKeeps
  <2>2. CASE ksyscall_io_read(t, b) \/ ksyscall_io_flush(t, b)
    <3>1. /\ io' = Emptied(t, b)
          /\ spoilt' = IF io[t][b] # <<>> THEN spoilt \cup {<<t, b>>} ELSE spoilt
          /\ UNCHANGED <<screen, refresh, active_tty, vga, written>>
      BY <2>2 DEF ksyscall_io_read, ksyscall_io_flush
    <3> QED
      BY <3>1, EmptyKeeps
  <2> QED
    BY <1>4, <2>1, <2>2 DEF IoCall
<1>5. CASE tty_refresh
  BY <1>5, RefreshKeeps
<1>6. CASE UNCHANGED vars
  BY <1>6 DEF vars, ttyVars, TtyInv, TtyTypes, ShownInOrder, DisplayCurrent
<1> QED
  BY <1>2, <1>3, <1>4, <1>5, <1>6 DEF Next

\* The invariant that the theorems below take their parts from.
THEOREM TtySafety == Spec => []TtyInv
BY TtyInitInv, TtyNextInv, PTL DEF Spec

(***************************************************************************)
(* Output that fits its buffer and is not flushed reaches the screen of    *)
(* its own TTY, all of it and in the order of the writes, whatever TTYs    *)
(* are selected between the writes and the ticks that refresh.             *)
(***************************************************************************)
THEOREM OutputInOrder == Spec => []ShownInOrder
<1>1. TtyInv => ShownInOrder
  BY DEF TtyInv
<1> QED
  BY <1>1, TtySafety, PTL

(***************************************************************************)
(* Between two ticks the display is that of the selected TTY, or the next  *)
(* tick redraws it: tty_select never forgets the refresh flag.             *)
(***************************************************************************)
THEOREM DisplayFollows == Spec => []DisplayCurrent
<1>1. TtyInv => DisplayCurrent
  BY DEF TtyInv
<1> QED
  BY <1>1, TtySafety, PTL

=============================================================================
