----------------------------- MODULE TimerProofs -----------------------------
(***************************************************************************)
(* Proofs about Timer, for any number of timers, any intervals and repeats *)
(* and any number of ticks.                                                *)
(***************************************************************************)
EXTENDS Timer, FiniteSetTheorems, SequenceTheorems, TLAPS

-----------------------------------------------------------------------------
(* The allocator                                                           *)

\* Append adds one element; it keeps the queue free of duplicates.
LEMMA AppendFacts ==
    ASSUME NEW S, NEW q \in Seq(S), NEW x \in S
    PROVE  /\ Append(q, x) \in Seq(S)
           /\ Range(Append(q, x)) = Range(q) \cup {x}
           /\ IsInjective(q) /\ x \notin Range(q) => IsInjective(Append(q, x))
<1> DEFINE r == Append(q, x)
<1>1. /\ r \in Seq(S)
      /\ Len(r) = Len(q) + 1
      /\ \A i \in 1 .. Len(q) : r[i] = q[i]
      /\ r[Len(q) + 1] = x
      /\ DOMAIN r = 1 .. Len(q) + 1
      /\ DOMAIN q = 1 .. Len(q)
      /\ Len(q) \in Nat
  OBVIOUS
<1>2. Range(r) = Range(q) \cup {x}
  <2> HIDE DEF r
  <2>1. ASSUME NEW y \in Range(r) PROVE y \in Range(q) \cup {x}
    BY <1>1, <2>1 DEF Range
  <2>2. ASSUME NEW y \in Range(q) PROVE y \in Range(r)
    <3>1. PICK i \in 1 .. Len(q) : y = q[i]
      BY <1>1 DEF Range
    <3> QED
      BY <3>1, <1>1 DEF Range
  <2>3. x \in Range(r)
    BY <1>1 DEF Range
  <2> QED
    BY <2>1, <2>2, <2>3
<1>3. ASSUME IsInjective(q), x \notin Range(q) PROVE IsInjective(r)
  <2> HIDE DEF r
  <2>1. ASSUME NEW i \in DOMAIN r, NEW j \in DOMAIN r, r[i] = r[j], i # j
        PROVE  FALSE
    <3>1. \A k \in 1 .. Len(q) : r[k] # x
      BY <1>1, <1>3 DEF Range
    <3>2. i \in 1 .. Len(q) /\ j \in 1 .. Len(q)
      BY <1>1, <2>1, <3>1
    <3> QED
      BY <1>1, <1>3, <2>1, <3>2 DEF IsInjective
  <2> QED
    BY <2>1 DEF IsInjective
<1> QED
  BY <1>1, <1>2, <1>3

\* Dequeuing removes exactly the first element from a queue without duplicates.
LEMMA TailFacts ==
    ASSUME NEW S, NEW q \in Seq(S), q # <<>>, IsInjective(q)
    PROVE  /\ Head(q) \in S
           /\ Head(q) \in Range(q)
           /\ Tail(q) \in Seq(S)
           /\ IsInjective(Tail(q))
           /\ Range(Tail(q)) = Range(q) \ {Head(q)}
<1> DEFINE t == Tail(q)
<1>1. /\ t \in Seq(S)
      /\ Len(q) \in Nat \ {0}
      /\ Head(q) = q[1]
      /\ DOMAIN q = 1 .. Len(q)
      /\ DOMAIN t = 1 .. Len(q) - 1
      /\ \A i \in 1 .. Len(q) - 1 : t[i] = q[i + 1]
      /\ Len(t) = Len(q) - 1
  BY HeadTailProperties, EmptySeq
<1>2. Head(q) \in S /\ Head(q) \in Range(q)
  BY <1>1 DEF Range
<1> HIDE DEF t
<1>3. IsInjective(t)
  <2>1. ASSUME NEW i \in DOMAIN t, NEW j \in DOMAIN t, t[i] = t[j] PROVE i = j
    <3>1. i + 1 \in DOMAIN q /\ j + 1 \in DOMAIN q /\ q[i + 1] = q[j + 1]
      BY <1>1, <2>1
    <3>2. i + 1 = j + 1
      BY <3>1 DEF IsInjective
    <3> QED
      BY <3>2, <1>1
  <2> QED
    BY <2>1 DEF IsInjective
<1>4. Range(t) = Range(q) \ {Head(q)}
  <2>1. ASSUME NEW y \in Range(t) PROVE y \in Range(q) /\ y # Head(q)
    <3>1. PICK i \in 1 .. Len(q) - 1 : y = q[i + 1]
      BY <1>1 DEF Range
    <3>2. i + 1 \in DOMAIN q /\ 1 \in DOMAIN q /\ i + 1 # 1
      BY <1>1
    <3> QED
      BY <3>1, <3>2, <1>1 DEF Range, IsInjective
  <2>2. ASSUME NEW y \in Range(q), y # Head(q) PROVE y \in Range(t)
    <3>1. PICK i \in 1 .. Len(q) : y = q[i]
      BY <1>1 DEF Range
    <3>2. i - 1 \in DOMAIN t /\ t[i - 1] = y
      BY <3>1, <2>2, <1>1
    <3> QED
      BY <3>2 DEF Range
  <2> QED
    BY <2>1, <2>2
<1> QED
  BY <1>1, <1>2, <1>3, <1>4 DEF t

\* An allocator of n ids has room for one that comes back.
LEMMA RoomForId ==
    ASSUME NEW n \in Nat, n <= QueueSize, NEW q \in Seq(0 .. n - 1), IsInjective(q),
           NEW m \in 0 .. n - 1, m \notin Range(q)
    PROVE  ~ queue_is_full(q)
<1> DEFINE Others == (0 .. n - 1) \ {m}
           k == Len(q)
<1>1. IsFiniteSet(Others) /\ Cardinality(Others) = n - 1
  <2>1. 0 \in Int /\ n - 1 \in Int /\ n # 0
    OBVIOUS
  <2>2. IsFiniteSet(0 .. n - 1) /\ Cardinality(0 .. n - 1) = n
    BY <2>1, FS_Interval
  <2> QED
    BY <2>2, FS_RemoveElement
<1>2. k \in Nat /\ DOMAIN q = 1 .. k
  OBVIOUS
<1>3. q \in [1 .. k -> Others]
  BY <1>2 DEF Range
<1>4. q \in Injection(1 .. k, Others)
  BY <1>2, <1>3 DEF Injection, IsInjective
<1> HIDE DEF Others, k
<1>5. IsFiniteSet(1 .. k) /\ Cardinality(1 .. k) = k
  BY <1>2, FS_Interval
<1>6. k <= n - 1
  BY <1>1, <1>4, <1>5, FS_Injection
<1>7. k # QueueSize
  BY <1>2, <1>6, QueueSizeAssumption
<1> QED
  BY <1>7 DEF queue_is_full, k

-----------------------------------------------------------------------------
(* Multiples of an interval                                                *)

LEMMA DivisionUnique ==
    ASSUME NEW k \in Nat \ {0}, NEW a \in Int, NEW r \in 0 .. k - 1,
           NEW c \in Int, c = k * a + r
    PROVE  c \div k = a /\ c % k = r
<1> DEFINE b == c \div k
           t == c % k
<1>1. b \in Int /\ t \in 0 .. k - 1 /\ c = k * b + t
  OBVIOUS
<1> HIDE DEF b, t
<1>2. k * (a - b) = t - r
  BY <1>1
<1>3. a - b < 1
  <2>1. ASSUME a - b >= 1 PROVE FALSE
    <3>1. k * (a - b) >= k
      BY <1>1, <2>1
    <3> QED
      BY <1>1, <1>2, <3>1
  <2> QED
    BY <1>1, <2>1
<1>4. b - a < 1
  <2>1. ASSUME b - a >= 1 PROVE FALSE
    <3>1. k * (b - a) >= k
      BY <1>1, <2>1
    <3>2. k * (b - a) = r - t
      BY <1>1, <1>2
    <3> QED
      BY <1>1, <3>1, <3>2
  <2> QED
    BY <1>1, <2>1
<1>5. a = b
  BY <1>1, <1>3, <1>4
<1>6. r = t
  BY <1>1, <1>5
<1> QED
  BY <1>5, <1>6 DEF b, t

\* A tick reaches one more multiple of k exactly if it is one.
LEMMA NextMultiple ==
    ASSUME NEW k \in Nat \ {0}, NEW c \in Nat
    PROVE  (c + 1) \div k = IF (c + 1) % k = 0 THEN (c \div k) + 1 ELSE c \div k
<1> DEFINE a == c \div k
           r == c % k
<1>1. a \in Int /\ r \in 0 .. k - 1 /\ c = k * a + r
  OBVIOUS
<1> HIDE DEF a, r
<1>2. CASE r + 1 < k
  <2>1. r + 1 \in 0 .. k - 1 /\ c + 1 = k * a + (r + 1) /\ r + 1 # 0
    BY <1>1, <1>2
  <2>2. (c + 1) \div k = a /\ (c + 1) % k = r + 1
    BY <1>1, <2>1, DivisionUnique
  <2> QED
    BY <2>1, <2>2 DEF a
<1>3. CASE r + 1 = k
  <2>1. 0 \in 0 .. k - 1 /\ c + 1 = k * (a + 1) + 0
    BY <1>1, <1>3
  <2>2. (c + 1) \div k = a + 1 /\ (c + 1) % k = 0
    BY <1>1, <2>1, DivisionUnique
  <2> QED
    BY <2>2 DEF a
<1> QED
  BY <1>1, <1>2, <1>3

\* Between b and a lie as many multiples of k as (a - b) \div k, or one more if b
\* is none.
LEMMA MultiplesBetween ==
    ASSUME NEW k \in Nat \ {0}, NEW a \in Nat, NEW b \in Nat
    PROVE  \/ (a \div k) - (b \div k) = (a - b) \div k
           \/ (a \div k) - (b \div k) = ((a - b) \div k) + 1 /\ b % k # 0
<1> DEFINE p == a \div k
           r == a % k
           q == b \div k
           t == b % k
<1>1. p \in Int /\ r \in 0 .. k - 1 /\ a = k * p + r
  OBVIOUS
<1>2. q \in Int /\ t \in 0 .. k - 1 /\ b = k * q + t
  OBVIOUS
<1> HIDE DEF p, q, r, t
<1>3. CASE t <= r
  <2>1. r - t \in 0 .. k - 1 /\ p - q \in Int /\ a - b \in Int
    BY <1>1, <1>2, <1>3
  <2>2. a - b = k * (p - q) + (r - t)
    BY <1>1, <1>2
  <2>3. ASSUME NEW c \in Int, NEW x \in Int, NEW y \in 0 .. k - 1, c = k * x + y
        PROVE  c \div k = x
    BY <2>3, DivisionUnique
  <2>4. (a - b) \div k = p - q
    BY <2>1, <2>2, <2>3
  <2> QED
    BY <2>4 DEF p, q
<1>4. CASE ~(t <= r)
  <2>1. r - t + k \in 0 .. k - 1 /\ p - q - 1 \in Int /\ a - b \in Int /\ t # 0
    BY <1>1, <1>2, <1>4
  <2>2. a - b = k * (p - q - 1) + (r - t + k)
    BY <1>1, <1>2
  <2>3. ASSUME NEW c \in Int, NEW x \in Int, NEW y \in 0 .. k - 1, c = k * x + y
        PROVE  c \div k = x
    BY <2>3, DivisionUnique
  <2>4. (a - b) \div k = p - q - 1
    BY <2>1, <2>2, <2>3
  <2>5. p - q = ((a - b) \div k) + 1
    BY <1>1, <1>2, <2>4
  <2> QED
    BY <2>1, <2>5 DEF p, q, t
<1> QED
  BY <1>3, <1>4

-----------------------------------------------------------------------------
(* The invariant                                                           *)

PassTypes ==
    /\ timer_ticks \in Nat
    /\ entry \in 0 .. TimersMax
    /\ calling \in BOOLEAN

TableTypes ==
    /\ registered \subseteq Ids
    /\ interval \in [Ids -> Nat] /\ repeat \in [Ids -> Int]
    /\ timer_allocator \in Seq(Ids)
    /\ asked \in [Ids -> Int] /\ since \in [Ids -> Nat] /\ runs \in [Ids -> Int]

\* A pass of the handler is one of a tick, and its callback is that of a timer.
PassSound ==
    /\ entry # TimersMax => timer_ticks # 0
    /\ calling => entry \in registered

\* The handler divides by an interval only if it is not 0, and what is to run for
\* ever keeps the repeat that says so: it is never counted down and never spent.
TimersSound ==
    \A i \in registered : interval[i] # 0 /\ (asked[i] = -1 => repeat[i] = -1)

\* What the handler does: it calls at the multiples of the interval.
RunsAtMultiples ==
    \A i \in registered : asked[i] = -1 =>
        runs[i] = (Seen(i) \div interval[i]) - (since[i] \div interval[i])

TimerInv ==
    PassTypes /\ TableTypes /\ PassSound /\ AllocatorSound /\ TimersSound /\ RunsAtMultiples

LEMMA IdTypes ==
    /\ TimersMax \in Nat /\ TimersMax <= QueueSize /\ QueueSize \in Nat
    /\ TimersMax \notin Ids
    /\ \A i \in Ids : i \in Nat /\ i < TimersMax
BY TimersAssumption, QueueSizeAssumption DEF Ids

LEMMA InitTimerInv == Init => TimerInv
<1> SUFFICES ASSUME Init PROVE TimerInv
  OBVIOUS
<1>1. TimersMax \in Nat /\ DOMAIN timer_allocator = 1 .. TimersMax
  BY IdTypes DEF Init
<1>2. \A i \in 1 .. TimersMax : timer_allocator[i] = i - 1 /\ i - 1 \in Ids
  BY <1>1 DEF Init, Ids
<1>3. timer_allocator \in Seq(Ids)
  BY <1>1, <1>2 DEF Init
<1>4. IsInjective(timer_allocator)
  BY <1>1, <1>2 DEF IsInjective
<1>5. Range(timer_allocator) = Ids
  <2>1. ASSUME NEW m \in Ids PROVE m \in Range(timer_allocator)
    <3>1. m + 1 \in 1 .. TimersMax /\ m = (m + 1) - 1
      BY <1>1 DEF Ids
    <3> QED
      BY <1>1, <1>2, <3>1 DEF Range
  <2>2. Range(timer_allocator) \subseteq Ids
    BY <1>1, <1>2 DEF Range
  <2> QED
    BY <2>1, <2>2
<1>6. registered = {} /\ \A i \in Ids : interval[i] = 0 /\ repeat[i] = 0
  BY DEF Init, Zeros
<1>7. PassTypes /\ PassSound
  <2>1. timer_ticks = 0 /\ entry = TimersMax /\ calling = FALSE
    BY DEF Init
  <2>2. calling \in BOOLEAN /\ ~calling
    BY <2>1
  <2>3. timer_ticks \in Nat /\ entry \in 0 .. TimersMax
    BY <1>1, <2>1
  <2> QED
    BY <2>1, <2>2, <2>3 DEF PassTypes, PassSound
<1>8. TableTypes
  BY <1>3 DEF TableTypes, Init, Zeros
<1>9. AllocatorSound
  BY <1>4, <1>5, <1>6 DEF AllocatorSound
<1> QED
  BY <1>6, <1>7, <1>8, <1>9 DEF TimerInv, TimersSound, RunsAtMultiples

\* Seen is a tick.
LEMMA SeenType ==
    ASSUME PassTypes, PassSound, NEW i \in Ids
    PROVE  Seen(i) \in Nat
<1>1. timer_ticks \in Nat /\ (entry # TimersMax => timer_ticks - 1 \in Nat)
  BY DEF PassTypes, PassSound
<1>2. entry <= i => entry # TimersMax
  BY IdTypes
<1> QED
  BY <1>1, <1>2, IdTypes DEF Seen, PassTypes

LEMMA RegisterKeeps ==
    ASSUME TimerInv, NEW every \in Intervals, NEW times \in Repeats,
           timer_callback_register(every, times)
    PROVE  TimerInv'
<1> USE DEF TimerInv
<1>1. /\ timer_allocator \in Seq(Ids) /\ timer_allocator # <<>>
      /\ IsInjective(timer_allocator) /\ Range(timer_allocator) = Ids \ registered
  BY DEF TableTypes, AllocatorSound, timer_callback_register
<1>2. PICK i \in Ids :
             /\ i = Head(timer_allocator) /\ i \notin registered
             /\ Tail(timer_allocator) \in Seq(Ids) /\ IsInjective(Tail(timer_allocator))
             /\ Range(Tail(timer_allocator)) = (Ids \ registered) \ {i}
  BY <1>1, TailFacts
<1>3. /\ registered' = registered \cup {i}
      /\ interval' = [interval EXCEPT ![i] = every]
      /\ repeat' = [repeat EXCEPT ![i] = times]
      /\ asked' = [asked EXCEPT ![i] = times]
      /\ since' = [since EXCEPT ![i] = Seen(i)]
      /\ runs' = [runs EXCEPT ![i] = 0]
      /\ timer_allocator' = Tail(timer_allocator)
      /\ timer_ticks' = timer_ticks /\ entry' = entry /\ calling' = calling
  BY <1>2 DEF timer_callback_register, pass
<1>4. every \in Nat /\ every # 0 /\ times \in Int
  BY ArgumentAssumption
<1>5. Seen(i) \in Nat
  BY <1>2, SeenType
<1>6. PassTypes' /\ PassSound'
  BY <1>3 DEF PassTypes, PassSound
<1>7. TableTypes'
  <2>1. registered \subseteq Ids
    BY DEF TableTypes
  <2>2. interval' \in [Ids -> Nat]
    BY <1>3, <1>4 DEF TableTypes
  <2>3. repeat' \in [Ids -> Int] /\ asked' \in [Ids -> Int]
    BY <1>3, <1>4 DEF TableTypes
  <2>4. since' \in [Ids -> Nat]
    BY <1>3, <1>5 DEF TableTypes
  <2>5. runs' \in [Ids -> Int]
    <3>1. runs \in [Ids -> Int] /\ 0 \in Int
      BY DEF TableTypes
    <3> QED
      BY <1>3, <3>1
  <2> QED
    BY <1>2, <1>3, <2>1, <2>2, <2>3, <2>4, <2>5 DEF TableTypes
<1>8. AllocatorSound'
  BY <1>2, <1>3 DEF AllocatorSound, TableTypes
<1>9. /\ interval'[i] = every /\ repeat'[i] = times /\ asked'[i] = times
      /\ since'[i] = Seen(i) /\ runs'[i] = 0
  BY <1>2, <1>3 DEF TableTypes
<1>10. \A j \in registered : /\ j \in Ids /\ j # i
                             /\ interval'[j] = interval[j] /\ repeat'[j] = repeat[j]
                             /\ asked'[j] = asked[j] /\ since'[j] = since[j]
                             /\ runs'[j] = runs[j]
  BY <1>2, <1>3 DEF TableTypes
<1>11. TimersSound'
  BY <1>3, <1>4, <1>9, <1>10 DEF TimersSound
<1>12. \A j \in Ids : Seen(j)' = Seen(j)
  BY <1>3 DEF Seen
<1>13. Seen(i) \div every \in Int
  BY <1>4, <1>5
<1>14. runs'[i] = (Seen(i)' \div interval'[i]) - (since'[i] \div interval'[i])
  BY <1>2, <1>9, <1>12, <1>13
<1>15. RunsAtMultiples'
  BY <1>3, <1>10, <1>12, <1>14 DEF RunsAtMultiples
<1> QED
  BY <1>6, <1>7, <1>8, <1>11, <1>15

\* Freeing an entry, by a call or by the handler, touches no other.
LEMMA FreedEntry ==
    ASSUME TableTypes, AllocatorSound, TimersSound,
           NEW i \in registered, timer_callback_unregister(i)
    PROVE  /\ TableTypes' /\ AllocatorSound' /\ TimersSound'
           /\ registered' = registered \ {i}
           /\ \A j \in registered' :
                  /\ j \in registered /\ j \in Ids /\ j # i
                  /\ interval'[j] = interval[j] /\ asked'[j] = asked[j]
                  /\ since'[j] = since[j] /\ runs'[j] = runs[j]
<1>1. /\ timer_allocator \in Seq(Ids) /\ IsInjective(timer_allocator)
      /\ Range(timer_allocator) = Ids \ registered /\ i \in Ids
  BY DEF TableTypes, AllocatorSound
<1>2. /\ registered' = registered \ {i}
      /\ interval' = [interval EXCEPT ![i] = 0] /\ repeat' = [repeat EXCEPT ![i] = 0]
      /\ timer_allocator' = queue_in(timer_allocator, i)
      /\ asked' = [asked EXCEPT ![i] = 0] /\ since' = [since EXCEPT ![i] = 0]
      /\ runs' = [runs EXCEPT ![i] = 0]
  BY DEF timer_callback_unregister, GiveBack
<1>3. ~ queue_is_full(timer_allocator)
  <2>1. TimersMax \in Nat /\ TimersMax <= QueueSize
    BY IdTypes
  <2>2. /\ timer_allocator \in Seq(0 .. TimersMax - 1) /\ i \in 0 .. TimersMax - 1
        /\ i \notin Range(timer_allocator)
    BY <1>1 DEF Ids
  <2> QED
    BY <1>1, <2>1, <2>2, RoomForId
<1>4. timer_allocator' = Append(timer_allocator, i)
  BY <1>2, <1>3 DEF queue_in
<1>5. /\ timer_allocator' \in Seq(Ids) /\ IsInjective(timer_allocator')
      /\ Range(timer_allocator') = (Ids \ registered) \cup {i}
  BY <1>1, <1>4, AppendFacts
<1>6. \A j \in Ids : /\ interval'[j] = IF j = i THEN 0 ELSE interval[j]
                     /\ repeat'[j] = IF j = i THEN 0 ELSE repeat[j]
                     /\ asked'[j] = IF j = i THEN 0 ELSE asked[j]
                     /\ since'[j] = IF j = i THEN 0 ELSE since[j]
                     /\ runs'[j] = IF j = i THEN 0 ELSE runs[j]
  BY <1>2 DEF TableTypes
<1>7. interval' \in [Ids -> Nat] /\ repeat' \in [Ids -> Int]
  BY <1>2 DEF TableTypes
<1>8. asked' \in [Ids -> Int] /\ since' \in [Ids -> Nat] /\ runs' \in [Ids -> Int]
  <2>1. 0 \in Int /\ 0 \in Nat
    OBVIOUS
  <2> QED
    BY <1>2, <2>1 DEF TableTypes
<1>9. TableTypes'
  BY <1>2, <1>5, <1>7, <1>8 DEF TableTypes
<1>10. AllocatorSound'
  BY <1>1, <1>2, <1>5, <1>6 DEF AllocatorSound, TableTypes
<1>11. \A j \in registered' : j \in registered /\ j \in Ids /\ j # i
  BY <1>2 DEF TableTypes
<1>12. TimersSound'
  BY <1>6, <1>11 DEF TimersSound
<1> QED
  BY <1>2, <1>6, <1>9, <1>10, <1>11, <1>12

LEMMA UnregisterKeeps ==
    ASSUME TimerInv, NEW i \in Ids, Unregister(i)
    PROVE  TimerInv'
<1> USE DEF TimerInv
<1>1. /\ i \in registered /\ i # entry /\ timer_callback_unregister(i)
      /\ timer_ticks' = timer_ticks /\ entry' = entry /\ calling' = calling
  BY DEF Unregister, pass
<1>2. /\ TableTypes' /\ AllocatorSound' /\ TimersSound'
      /\ registered' = registered \ {i}
      /\ \A j \in registered' :
             /\ j \in registered /\ j \in Ids /\ j # i
             /\ interval'[j] = interval[j] /\ asked'[j] = asked[j]
             /\ since'[j] = since[j] /\ runs'[j] = runs[j]
  BY <1>1, FreedEntry
<1>3. PassTypes' /\ PassSound'
  BY <1>1, <1>2 DEF PassTypes, PassSound
<1>4. \A j \in Ids : Seen(j)' = Seen(j)
  BY <1>1 DEF Seen
<1>5. RunsAtMultiples'
  BY <1>2, <1>4 DEF RunsAtMultiples
<1> QED
  BY <1>2, <1>3, <1>5

LEMMA HandlerKeeps ==
    ASSUME TimerInv, timer_irq_handler
    PROVE  TimerInv'
<1> USE DEF TimerInv
<1>1. /\ entry = TimersMax /\ timer_ticks' = timer_ticks + 1 /\ entry' = 0
      /\ calling' = calling
      /\ UNCHANGED <<registered, interval, repeat, timer_allocator, asked, since, runs>>
  BY DEF timer_irq_handler, table, observers
<1>2. calling = FALSE
  BY <1>1, IdTypes DEF PassSound, PassTypes, TableTypes
<1>3. PassTypes' /\ PassSound'
  BY <1>1, <1>2, IdTypes DEF PassTypes, PassSound
<1>4. TableTypes' /\ AllocatorSound' /\ TimersSound'
  BY <1>1 DEF TableTypes, AllocatorSound, TimersSound
<1>5. ASSUME NEW j \in Ids PROVE Seen(j)' = Seen(j)
  BY <1>1, <1>2, IdTypes DEF Seen, PassTypes
<1>6. RunsAtMultiples'
  BY <1>1, <1>5 DEF RunsAtMultiples, TableTypes
<1> QED
  BY <1>3, <1>4, <1>6

LEMMA NoCallbackKeeps ==
    ASSUME TimerInv, NoCallback
    PROVE  TimerInv'
<1> USE DEF TimerInv
<1>1. /\ entry \in Ids /\ entry \notin registered /\ entry' = entry + 1
      /\ UNCHANGED <<timer_ticks, calling, registered, interval, repeat, timer_allocator,
                     asked, since, runs>>
  BY DEF NoCallback, table, observers
<1>2. calling = FALSE
  BY <1>1 DEF PassSound, PassTypes
<1>3. entry + 1 \in 0 .. TimersMax /\ entry # TimersMax
  BY <1>1, IdTypes
<1>4. PassTypes' /\ PassSound'
  BY <1>1, <1>2, <1>3 DEF PassTypes, PassSound
<1>5. TableTypes' /\ AllocatorSound' /\ TimersSound'
  BY <1>1 DEF TableTypes, AllocatorSound, TimersSound
<1>6. ASSUME NEW j \in registered PROVE Seen(j)' = Seen(j)
  <2>1. j \in Nat /\ j # entry /\ entry \in Nat
    BY <1>1, IdTypes DEF TableTypes
  <2> QED
    BY <1>1, <1>2, <2>1 DEF Seen
<1>7. RunsAtMultiples'
  BY <1>1, <1>6 DEF RunsAtMultiples
<1> QED
  BY <1>4, <1>5, <1>7

LEMMA RunKeeps ==
    ASSUME TimerInv, RunCallback
    PROVE  TimerInv'
<1> USE DEF TimerInv
<1>1. /\ entry \in registered /\ ~calling /\ Due(entry) /\ calling' = TRUE
      /\ runs' = [runs EXCEPT ![entry] = @ + 1]
      /\ UNCHANGED <<timer_ticks, entry, registered, interval, repeat, timer_allocator,
                     asked, since>>
  BY DEF RunCallback, table
<1>2. entry \in Ids /\ entry # TimersMax
  BY <1>1, IdTypes DEF TableTypes
<1>3. PassTypes' /\ PassSound'
  BY <1>1 DEF PassTypes, PassSound
<1>4. runs[entry] + 1 \in Int
  BY <1>2 DEF TableTypes
<1>5. TableTypes'
  BY <1>1, <1>4 DEF TableTypes
<1>6. AllocatorSound' /\ TimersSound'
  BY <1>1 DEF AllocatorSound, TimersSound
<1>7. \A j \in registered \ {entry} : j \in Ids /\ runs'[j] = runs[j] /\ Seen(j)' = Seen(j)
  <2>1. ASSUME NEW j \in registered, j # entry
        PROVE  j \in Ids /\ runs'[j] = runs[j] /\ Seen(j)' = Seen(j)
    <3>1. j \in Ids
      BY DEF TableTypes
    <3> QED
      BY <1>1, <2>1, <3>1 DEF Seen, TableTypes
  <2> QED
    BY <2>1
<1>8. ASSUME asked[entry] = -1
      PROVE  runs'[entry] = (Seen(entry)' \div interval[entry]) - (since[entry] \div interval[entry])
  <2> DEFINE k == interval[entry]
             c == timer_ticks - 1
  <2>1. Seen(entry) = c /\ Seen(entry)' = timer_ticks
    BY <1>1, <1>2, IdTypes DEF Seen
  <2>2. k \in Nat \ {0} /\ c \in Nat /\ c + 1 = timer_ticks /\ since[entry] \in Nat
    BY <1>1, <1>2 DEF TableTypes, TimersSound, PassTypes, PassSound
  <2>3. runs[entry] = (c \div k) - (since[entry] \div k)
    BY <1>1, <1>8, <2>1 DEF RunsAtMultiples
  <2>4. timer_ticks % k = 0
    BY <1>1 DEF Due
  <2>5. runs'[entry] = runs[entry] + 1
    BY <1>1, <1>2 DEF TableTypes
  <2> HIDE DEF c, k
  <2>6. timer_ticks \div k = (c \div k) + 1
    BY <2>2, <2>4, NextMultiple
  <2>7. c \div k \in Int /\ since[entry] \div k \in Int
    BY <2>2
  <2>8. runs'[entry] = (timer_ticks \div k) - (since[entry] \div k)
    BY <2>3, <2>5, <2>6, <2>7
  <2> QED
    BY <2>1, <2>8 DEF k
<1>9. RunsAtMultiples'
  BY <1>1, <1>7, <1>8 DEF RunsAtMultiples
<1> QED
  BY <1>3, <1>5, <1>6, <1>9

\* Once the handler has left an entry, its callback has run as the tick asked for.
LEMMA LeftEntry ==
    ASSUME TimerInv, NEW e \in registered, e = entry, calling \/ ~Due(e), asked[e] = -1,
           Seen(e)' = timer_ticks
    PROVE  runs[e] = (Seen(e)' \div interval[e]) - (since[e] \div interval[e])
<1> USE DEF TimerInv
<1>1. e \in Ids /\ e # TimersMax /\ e \in Nat
  BY IdTypes DEF TableTypes
<1>2. runs[e] = (Seen(e) \div interval[e]) - (since[e] \div interval[e])
  BY DEF RunsAtMultiples
<1>3. CASE calling
  <2>1. Seen(e) = timer_ticks
    BY <1>1, <1>3 DEF Seen
  <2> QED
    BY <1>2, <2>1
<1>4. CASE ~calling
  <2> DEFINE k == interval[e]
             c == timer_ticks - 1
  <2>1. Seen(e) = c
    BY <1>1, <1>4 DEF Seen
  <2>2. k \in Nat \ {0} /\ c \in Nat /\ c + 1 = timer_ticks
    BY <1>1 DEF TableTypes, TimersSound, PassTypes, PassSound
  <2>3. timer_ticks % k # 0
    BY <1>4 DEF Due
  <2> HIDE DEF c, k
  <2>4. timer_ticks \div k = c \div k
    BY <2>2, <2>3, NextMultiple
  <2> QED
    BY <1>2, <2>1, <2>4 DEF k
<1> QED
  BY <1>3, <1>4

LEMMA RepeatKeeps ==
    ASSUME TimerInv, HandleRepeat
    PROVE  TimerInv'
<1> USE DEF TimerInv
<1>1. /\ entry \in registered /\ (calling \/ ~Due(entry))
      /\ calling' = FALSE /\ entry' = entry + 1 /\ timer_ticks' = timer_ticks
  BY DEF HandleRepeat
<1>2. entry \in Ids /\ entry \in Nat /\ entry # TimersMax /\ entry + 1 \in 0 .. TimersMax
  BY <1>1, IdTypes DEF TableTypes
<1>3. PassTypes' /\ PassSound'
  BY <1>1, <1>2 DEF PassTypes, PassSound
<1>4. ASSUME NEW j \in registered, j # entry PROVE Seen(j)' = Seen(j)
  <2>1. j \in Nat
    BY IdTypes DEF TableTypes
  <2> QED
    BY <1>1, <1>2, <1>4, <2>1 DEF Seen
<1>5. ASSUME NEW e, e = entry PROVE Seen(e)' = timer_ticks
  BY <1>1, <1>2, <1>5 DEF Seen
<1>6. PICK e \in registered : e = entry
  BY <1>1
<1>7. /\ TableTypes' /\ AllocatorSound' /\ TimersSound'
      /\ \A j \in registered' :
             /\ j \in registered
             /\ interval'[j] = interval[j] /\ asked'[j] = asked[j]
             /\ since'[j] = since[j] /\ runs'[j] = runs[j]
  <2>1. CASE repeat[entry] > 0 \/ repeat[entry] < 0
    <3>1. /\ UNCHANGED <<registered, interval, timer_allocator, asked, since, runs>>
          /\ repeat' = repeat \/ (repeat[e] > 0 /\ repeat' = [repeat EXCEPT ![e] = @ - 1])
      BY <1>1, <1>2, <1>6, <2>1 DEF HandleRepeat, table, observers, TableTypes
    <3>2. e \in Ids /\ repeat[e] - 1 \in Int
      BY <1>2, <1>6 DEF TableTypes
    <3>3. TableTypes'
      BY <3>1, <3>2 DEF TableTypes
    <3>4. AllocatorSound'
      BY <3>1, <3>2 DEF AllocatorSound, TableTypes
    <3>5. ASSUME NEW j \in registered, asked[j] = -1 PROVE repeat'[j] = -1
      <4>1. repeat[j] = -1 /\ j \in Ids
        BY <3>5 DEF TimersSound, TableTypes
      <4> QED
        BY <3>1, <3>2, <4>1 DEF TableTypes
    <3>6. TimersSound'
      BY <3>1, <3>5 DEF TimersSound
    <3> QED
      BY <3>1, <3>3, <3>4, <3>6
  <2>2. CASE repeat[entry] = 0
    <3>1. timer_callback_unregister(entry)
      BY <1>2, <2>2 DEF HandleRepeat, TableTypes
    <3> QED
      BY <1>1, <3>1, FreedEntry
  <2>3. repeat[entry] \in Int
    BY <1>2 DEF TableTypes
  <2>4. repeat[entry] > 0 \/ repeat[entry] < 0 \/ repeat[entry] = 0
    BY <2>3
  <2> QED
    BY <2>1, <2>2, <2>4
<1>8. ASSUME NEW j \in registered', asked'[j] = -1
      PROVE  runs'[j] = (Seen(j)' \div interval'[j]) - (since'[j] \div interval'[j])
  <2>1. /\ j \in registered /\ interval'[j] = interval[j] /\ asked[j] = -1
        /\ since'[j] = since[j] /\ runs'[j] = runs[j]
    BY <1>7, <1>8
  <2>2. CASE j = entry
    <3>1. Seen(j)' = timer_ticks /\ (calling \/ ~Due(j))
      BY <1>1, <1>5, <2>2
    <3>2. runs[j] = (Seen(j)' \div interval[j]) - (since[j] \div interval[j])
      BY <2>1, <2>2, <3>1, LeftEntry
    <3> QED
      BY <2>1, <3>2
  <2>3. CASE j # entry
    BY <1>4, <2>1, <2>3 DEF RunsAtMultiples
  <2> QED
    BY <2>2, <2>3
<1>9. RunsAtMultiples'
  BY <1>8 DEF RunsAtMultiples
<1> QED
  BY <1>3, <1>7, <1>9

LEMMA NextTimerInv == TimerInv /\ [Next]_vars => TimerInv'
<1> SUFFICES ASSUME TimerInv, [Next]_vars PROVE TimerInv'
  OBVIOUS
<1>1. CASE \E every \in Intervals, times \in Repeats : timer_callback_register(every, times)
  BY <1>1, RegisterKeeps
<1>2. CASE \E i \in Ids : Unregister(i)
  BY <1>2, UnregisterKeeps
<1>3. CASE timer_irq_handler
  BY <1>3, HandlerKeeps
<1>4. CASE NoCallback
  BY <1>4, NoCallbackKeeps
<1>5. CASE RunCallback
  BY <1>5, RunKeeps
<1>6. CASE HandleRepeat
  BY <1>6, RepeatKeeps
<1>7. CASE UNCHANGED vars
  BY <1>7 DEF vars, pass, table, observers, TimerInv, PassTypes, TableTypes, PassSound,
              AllocatorSound, TimersSound, RunsAtMultiples, Seen
<1> QED
  BY <1>1, <1>2, <1>3, <1>4, <1>5, <1>6, <1>7 DEF Next, RegisterFails

-----------------------------------------------------------------------------
(* Safety                                                                  *)

\* The table, its allocator and the counts of runs stay sound in every behaviour.
THEOREM TimerSafety == Spec => []TimerInv
BY InitTimerInv, NextTimerInv, PTL DEF Spec

\* The entries without a callback are in the allocator, each once, however expiries
\* in timer_irq_handler alternate with calls, those of other callbacks in the same
\* pass among them.
THEOREM TimerAllocator == Spec => []AllocatorSound
<1>1. TimerInv => AllocatorSound
  BY DEF TimerInv
<1> QED
  BY <1>1, TimerSafety, PTL

\* A callback registered for ever has run once for every interval of ticks since its
\* registration, or once more if it was registered between two multiples of the
\* interval, whatever other callbacks do to the table while the handler goes through
\* it: the scheduler loses no tick.
THEOREM NoIntervalMissed == Spec => []EveryIntervalRuns
<1>1. ASSUME TimerInv PROVE EveryIntervalRuns
  <2>1. ASSUME NEW i \in registered, asked[i] = -1
        PROVE  LET intervals == (Seen(i) - since[i]) \div interval[i] IN
               \/ runs[i] = intervals
               \/ runs[i] = intervals + 1 /\ since[i] % interval[i] # 0
    <3>1. Seen(i) \in Nat
      BY <1>1, SeenType DEF TimerInv, TableTypes
    <3>2. interval[i] \in Nat \ {0} /\ since[i] \in Nat
      BY <1>1 DEF TimerInv, TableTypes, TimersSound
    <3>3. runs[i] = (Seen(i) \div interval[i]) - (since[i] \div interval[i])
      BY <1>1, <2>1 DEF TimerInv, RunsAtMultiples
    <3> QED
      BY <3>1, <3>2, <3>3, MultiplesBetween
  <2> QED
    BY <2>1 DEF EveryIntervalRuns
<1> QED
  BY <1>1, TimerSafety, PTL

=============================================================================
