----------------------------- MODULE KProcProofs -----------------------------
(***************************************************************************)
(* Proofs about KProc, for every size of the table and the queues and any  *)
(* number of processes; and, at the end, about SleepClock: how far the     *)
(* sleep_time of a process can fall behind the clock, for every width of   *)
(* an int, any number of sleepers and any ticks.                           *)
(***************************************************************************)
EXTENDS SleepClock, FiniteSetTheorems, SequenceTheorems, TLAPS

-----------------------------------------------------------------------------
(* Queues                                                                  *)

\* Append adds one element; it keeps the queue free of duplicates.
LEMMA AppendFacts ==
    ASSUME NEW S, NEW q \in Seq(S), NEW x \in S
    PROVE  /\ Append(q, x) \in Seq(S)
           /\ Range(Append(q, x)) = Range(q) \cup {x}
           /\ IsInjective(q) /\ x \notin Range(q) => IsInjective(Append(q, x))
<1> DEFINE r == Append(q, x)
<1>1. /\ r \in Seq(S)
      /\ Len(r) = Len(q) + 1
      /\ \A i \in 1 .. Len(q) : r[i] = q[i]
      /\ r[Len(q) + 1] = x
      /\ DOMAIN r = 1 .. Len(q) + 1
      /\ DOMAIN q = 1 .. Len(q)
      /\ Len(q) \in Nat
  OBVIOUS
<1>2. Range(r) = Range(q) \cup {x}
  <2> HIDE DEF r
  <2>1. ASSUME NEW y \in Range(r) PROVE y \in Range(q) \cup {x}
    BY <1>1, <2>1 DEF Range
  <2>2. ASSUME NEW y \in Range(q) PROVE y \in Range(r)
    <3>1. PICK i \in 1 .. Len(q) : y = q[i]
      BY <1>1 DEF Range
    <3> QED
      BY <3>1, <1>1 DEF Range
  <2>3. x \in Range(r)
    BY <1>1 DEF Range
  <2> QED
    BY <2>1, <2>2, <2>3
<1>3. ASSUME IsInjective(q), x \notin Range(q) PROVE IsInjective(r)
  <2> HIDE DEF r
  <2>1. ASSUME NEW i \in DOMAIN r, NEW j \in DOMAIN r, r[i] = r[j], i # j
        PROVE  FALSE
    <3>1. \A k \in 1 .. Len(q) : r[k] # x
      BY <1>1, <1>3 DEF Range
    <3>2. i \in 1 .. Len(q) /\ j \in 1 .. Len(q)
      BY <1>1, <2>1, <3>1
    <3> QED
      BY <1>1, <1>3, <2>1, <3>2 DEF IsInjective
  <2> QED
    BY <2>1 DEF IsInjective
<1> QED
  BY <1>1, <1>2, <1>3

\* Dequeuing removes exactly the first element from a queue without duplicates.
LEMMA TailFacts ==
    ASSUME NEW S, NEW q \in Seq(S), q # <<>>, IsInjective(q)
    PROVE  /\ Head(q) \in S
           /\ Head(q) \in Range(q)
           /\ Tail(q) \in Seq(S)
           /\ IsInjective(Tail(q))
           /\ Range(Tail(q)) = Range(q) \ {Head(q)}
<1> DEFINE t == Tail(q)
<1>1. /\ t \in Seq(S)
      /\ Len(q) \in Nat \ {0}
      /\ Head(q) = q[1]
      /\ DOMAIN q = 1 .. Len(q)
      /\ DOMAIN t = 1 .. Len(q) - 1
      /\ \A i \in 1 .. Len(q) - 1 : t[i] = q[i + 1]
      /\ Len(t) = Len(q) - 1
  BY HeadTailProperties, EmptySeq
<1>2. Head(q) \in S /\ Head(q) \in Range(q)
  BY <1>1 DEF Range
<1> HIDE DEF t
<1>3. IsInjective(t)
  <2>1. ASSUME NEW i \in DOMAIN t, NEW j \in DOMAIN t, t[i] = t[j] PROVE i = j
    <3>1. i + 1 \in DOMAIN q /\ j + 1 \in DOMAIN q /\ q[i + 1] = q[j + 1]
      BY <1>1, <2>1
    <3>2. i + 1 = j + 1
      BY <3>1 DEF IsInjective
    <3> QED
      BY <3>2, <1>1
  <2> QED
    BY <2>1 DEF IsInjective
<1>4. Range(t) = Range(q) \ {Head(q)}
  <2>1. ASSUME NEW y \in Range(t) PROVE y \in Range(q) /\ y # Head(q)
    <3>1. PICK i \in 1 .. Len(q) - 1 : y = q[i + 1]
      BY <1>1 DEF Range
    <3>2. i + 1 \in DOMAIN q /\ 1 \in DOMAIN q /\ i + 1 # 1
      BY <1>1
    <3> QED
      BY <3>1, <3>2, <1>1 DEF Range, IsInjective
  <2>2. ASSUME NEW y \in Range(q), y # Head(q) PROVE y \in Range(t)
    <3>1. PICK i \in 1 .. Len(q) : y = q[i]
      BY <1>1 DEF Range
    <3>2. i - 1 \in DOMAIN t /\ t[i - 1] = y
      BY <3>1, <2>2, <1>1
    <3> QED
      BY <3>2 DEF Range
  <2> QED
    BY <2>1, <2>2
<1> QED
  BY <1>1, <1>2, <1>3, <1>4 DEF t

\* There is room for one more process in a queue that one entry is not in.
LEMMA Room ==
    ASSUME NEW S, NEW q \in Seq(S), IsInjective(q),
           NEW f, NEW s \in Slots, Range(q) \subseteq {f[t] : t \in Slots \ {s}}
    PROVE  Len(q) < QueueSize /\ ~ queue_is_full(q)
<1> DEFINE Others == Slots \ {s}
           n == Len(q)
           entry == [i \in 1 .. n |-> CHOOSE t \in Others : f[t] = q[i]]
<1>1. IsFiniteSet(Others) /\ Cardinality(Others) = ProcMax - 1
  <2>1. 0 \in Int /\ ProcMax - 1 \in Int /\ ProcMax \in Nat \ {0}
    BY ProcMaxAssumption
  <2>2. IsFiniteSet(Slots) /\ Cardinality(Slots) = ProcMax
    BY <2>1, FS_Interval DEF Slots
  <2> QED
    BY <2>2, FS_RemoveElement
<1>2. n \in Nat /\ DOMAIN q = 1 .. n
  OBVIOUS
<1>3. \A i \in 1 .. n : entry[i] \in Others /\ f[entry[i]] = q[i]
  BY <1>2 DEF Range
<1>4. entry \in [1 .. n -> Others]
  BY <1>3
<1> HIDE DEF entry
<1>5. IsInjective(entry)
  BY <1>2, <1>3, <1>4 DEF IsInjective
<1>6. entry \in Injection(1 .. n, Others)
  BY <1>4, <1>5 DEF Injection
<1>7. IsFiniteSet(1 .. n) /\ Cardinality(1 .. n) = n
  BY <1>2, FS_Interval
<1>8. n <= ProcMax - 1
  BY <1>1, <1>6, <1>7, FS_Injection
<1>9. ProcMax \in Nat /\ QueueSize \in Nat /\ ProcMax <= QueueSize
  BY ProcMaxAssumption, QueueSizeAssumption
<1>10. Len(q) < QueueSize
  BY <1>2, <1>8, <1>9
<1>11. \A m, k \in Nat : m < k => m # k
  OBVIOUS
<1> QED
  BY <1>2, <1>9, <1>10, <1>11, Zenon DEF queue_is_full

\* An allocator of n ids has room for one that comes back.
LEMMA RoomForId ==
    ASSUME NEW n \in Nat, n <= QueueSize, NEW q \in Seq(0 .. n - 1), IsInjective(q),
           NEW m \in 0 .. n - 1, m \notin Range(q)
    PROVE  ~ queue_is_full(q)
<1> DEFINE Others == (0 .. n - 1) \ {m}
           k == Len(q)
<1>1. IsFiniteSet(Others) /\ Cardinality(Others) = n - 1
  <2>1. 0 \in Int /\ n - 1 \in Int /\ n # 0
    OBVIOUS
  <2>2. IsFiniteSet(0 .. n - 1) /\ Cardinality(0 .. n - 1) = n
    BY <2>1, FS_Interval
  <2> QED
    BY <2>2, FS_RemoveElement
<1>2. k \in Nat /\ DOMAIN q = 1 .. k
  OBVIOUS
<1>3. q \in [1 .. k -> Others]
  BY <1>2 DEF Range
<1>4. q \in Injection(1 .. k, Others)
  BY <1>2, <1>3 DEF Injection, IsInjective
<1> HIDE DEF Others, k
<1>5. IsFiniteSet(1 .. k) /\ Cardinality(1 .. k) = k
  BY <1>2, FS_Interval
<1>6. k <= n - 1
  BY <1>1, <1>4, <1>5, FS_Injection
<1>7. k # QueueSize
  BY <1>2, <1>6, QueueSizeAssumption
<1> QED
  BY <1>7 DEF queue_is_full, k

-----------------------------------------------------------------------------
(* Processes by state                                                      *)

PidsIn(p, f, st) == {p[s] : s \in {t \in Slots : p[t] # -1 /\ f[t] = st}}

LEMMA PidsOfPids == \A st : PidsOf(st) = PidsIn(pid, state, st)
BY DEF PidsOf, PidsIn, Live

\* A live process is found by its process id.
LEMMA PidToProc ==
    ASSUME TypeOK, TableSound, NEW s \in Live
    PROVE  pid_to_proc(pid[s]) = s
<1>1. s \in Slots /\ pid[s] \in 0 .. next_pid - 1 /\ pid[s] # -1
  BY DEF TypeOK, TableSound, Live
<1>2. \A t \in Slots : pid[t] = pid[s] => t = s
  BY <1>1 DEF TableSound, Live
<1>3. s <= s
  BY <1>1, ProcMaxAssumption DEF Slots
<1> DEFINE First(c) == pid[c] = pid[s] /\ \A t \in Slots : pid[t] = pid[s] => c <= t
<1>4. First(s)
  BY <1>2, <1>3
<1>5. \A c \in Slots : First(c) => c = s
  BY <1>2
<1>6. (CHOOSE c \in Slots : First(c)) = s
  BY <1>1, <1>4, <1>5
<1> QED
  BY <1>1, <1>6 DEF pid_to_proc

LEMMA ProcToEntry ==
    ASSUME TypeOK, TableSound, NEW s \in Live
    PROVE  proc_to_entry(s) = s
<1>1. s \in Slots /\ pid[s] # -1
  BY DEF TypeOK, TableSound, Live
<1>2. \A t \in Slots : pid[t] = pid[s] => t = s
  BY <1>1 DEF TableSound, Live
<1>3. s <= s
  BY <1>1, ProcMaxAssumption DEF Slots
<1> QED
  BY <1>1, <1>2, <1>3 DEF proc_to_entry

-----------------------------------------------------------------------------
(* The invariant                                                           *)

Inv == TypeOK /\ TableSound /\ Placement /\ NoPanic /\ SliceRespected

\* A queue takes a process it does not hold, and never refuses it.
LEMMA Enqueue ==
    ASSUME NEW q \in Seq(Nat), IsInjective(q), NEW f, NEW s \in Slots,
           Range(q) \subseteq {f[t] : t \in Slots \ {s}},
           NEW p \in Nat, p \notin Range(q)
    PROVE  /\ ~ queue_is_full(q)
           /\ queue_in(q, p) = Append(q, p)
           /\ queue_in(q, p) \in Seq(Nat)
           /\ IsInjective(queue_in(q, p))
           /\ Range(queue_in(q, p)) = Range(q) \cup {p}
<1>1. ~ queue_is_full(q)
  BY Room
<1>2. queue_in(q, p) = Append(q, p)
  BY <1>1 DEF queue_in
<1> QED
  BY <1>1, <1>2, AppendFacts

\* Every process in a queue is live and in the state that belongs to the queue.
LEMMA Queued ==
    ASSUME Inv
    PROVE  /\ \A s \in Live : pid[s] \in Range(run_queue) <=> state[s] = "IDLE" /\ pid[s] # 0
           /\ \A s \in Live : pid[s] \in Range(sleep_queue) <=> state[s] = "SLEEPING"
           /\ \A p \in Range(run_queue) : \E s \in Live : pid[s] = p /\ state[s] = "IDLE"
           /\ \A p \in Range(sleep_queue) : \E s \in Live : pid[s] = p /\ state[s] = "SLEEPING"
           /\ \A s \in Live : pid[s] = 0 => state[s] \in {"IDLE", "ACTIVE"}
           /\ \A s \in Live : s \in Slots /\ pid[s] \in Nat /\ pid[s] # -1
<1>1. \A st : \A p \in PidsOf(st) : \E s \in Live : pid[s] = p /\ state[s] = st
  BY DEF PidsOf
<1>2. \A s \in Live : s \in Slots /\ pid[s] \in Nat /\ pid[s] # -1 /\ state[s] \in States /\ state[s] # "NONE"
  BY DEF Inv, TypeOK, TableSound, Live
<1>3. \A s \in Live : pid[s] \in PidsOf(state[s])
  BY DEF PidsOf
<1>4. \A s, t \in Live : pid[s] = pid[t] => s = t
  BY DEF Inv, TableSound
<1>5. \A s \in Live : \A st : pid[s] \in PidsOf(st) => state[s] = st
  BY <1>1, <1>4
<1> QED
  BY <1>1, <1>2, <1>3, <1>5 DEF Inv, Placement, States

\* An entry that is in no queue leaves room in both for the others.
LEMMA RoomFor ==
    ASSUME Inv, NEW s \in Slots
    PROVE  /\ pid[s] \notin Range(run_queue) => Range(run_queue) \subseteq {pid[t] : t \in Slots \ {s}}
           /\ pid[s] \notin Range(sleep_queue) => Range(sleep_queue) \subseteq {pid[t] : t \in Slots \ {s}}
<1>1. \A p \in Range(run_queue) : \E t \in Slots : pid[t] = p
  BY Queued DEF Live
<1>2. \A p \in Range(sleep_queue) : \E t \in Slots : pid[t] = p
  BY Queued DEF Live
<1> QED
  BY <1>1, <1>2

\* A process that was not ready becomes ready: it is added, without a panic.
LEMMA BecomesReady ==
    ASSUME Inv, NEW s \in Live, state[s] # "IDLE", pid[s] # 0
    PROVE  LET q == scheduler_add(run_queue, pid[s])
           IN  /\ ~ AddPanics(run_queue, pid[s])
               /\ q = Append(run_queue, pid[s])
               /\ q \in Seq(Nat)
               /\ IsInjective(q)
               /\ Range(q) = Range(run_queue) \cup {pid[s]}
<1>1. /\ s \in Slots
      /\ pid[s] \in Nat
      /\ pid[s] \notin Range(run_queue)
  BY Queued
<1>2. run_queue \in Seq(Nat) /\ IsInjective(run_queue)
  BY DEF Inv, TypeOK, Placement
<1>3. Range(run_queue) \subseteq {pid[t] : t \in Slots \ {s}}
  BY <1>1, RoomFor
<1> QED
  BY <1>1, <1>2, <1>3, Enqueue DEF scheduler_add, AddPanics

\* What a handler finds in active_proc.
LEMMA ActiveFacts ==
    ASSUME Inv, active_proc # NULL
    PROVE  /\ active_proc \in Live
           /\ active_proc \in Slots
           /\ state[active_proc] = "ACTIVE"
           /\ pid[active_proc] \notin Range(run_queue)
           /\ pid[active_proc] \notin Range(sleep_queue)
           /\ pid[active_proc] \in Nat
<1>1. active_proc \in Slots /\ state[active_proc] = "ACTIVE"
  BY DEF Inv, TypeOK, Placement
<1>2. active_proc \in Live
  BY <1>1 DEF Inv, TableSound
<1> QED
  BY <1>1, <1>2, Queued

\* The active process is not in the run queue: scheduler_remove rotates it once.
LEMMA RemoveActive ==
    ASSUME Inv, active_proc # NULL, scheduler_remove(active_proc)
    PROVE  run_queue' = run_queue /\ active_proc' = NULL
<1>1. \A j \in 1 .. Len(run_queue) : run_queue[j] # pid[active_proc]
  BY ActiveFacts DEF Range, Inv, TypeOK
<1> QED
  BY <1>1 DEF scheduler_remove, RotateWithout

\* What a change of one process's state does to the sets of process ids.
LEMMA Moves ==
    ASSUME Inv, NEW s \in Live, NEW old, old = state[s],
           NEW new \in States \ {"NONE"}, new # old,
           pid' = pid, state' = [state EXCEPT ![s] = new]
    PROVE  /\ Live' = Live
           /\ PidsOf(new)' = PidsOf(new) \cup {pid[s]}
           /\ PidsOf(old)' = PidsOf(old) \ {pid[s]}
           /\ \A st : st # new /\ st # old => PidsOf(st)' = PidsOf(st)
           /\ \A t \in Slots : t \in Live' <=> state'[t] # "NONE"
<1>1. /\ pid \in [Slots -> Int]
      /\ state \in [Slots -> States]
      /\ \A t, u \in Slots : pid[t] # -1 /\ pid[t] = pid[u] => t = u
      /\ s \in Slots /\ pid[s] # -1
      /\ \A t \in Slots : t \in Live <=> state[t] # "NONE"
  BY DEF Inv, TypeOK, TableSound, Live
<1>2. \A st : PidsOf(st)' = PidsIn(pid, state', st)
  BY DEF PidsOf, PidsIn, Live
<1>3. Live' = Live
  BY DEF Live
<1>4. \A t \in Slots : t \in Live' <=> state'[t] # "NONE"
  BY <1>1, <1>3
<1>5. /\ PidsIn(pid, state', new) = PidsIn(pid, state, new) \cup {pid[s]}
      /\ PidsIn(pid, state', old) = PidsIn(pid, state, old) \ {pid[s]}
      /\ \A st : st # new /\ st # old => PidsIn(pid, state', st) = PidsIn(pid, state, st)
  <2>1. state'[s] = new /\ \A t \in Slots : t # s => state'[t] = state[t]
    BY <1>1
  <2> QED
    BY <1>1, <2>1 DEF PidsIn
<1> QED
  BY <1>2, <1>3, <1>4, <1>5, PidsOfPids, Zenon

\* The table does not change, or only the state of a live process does.
LEMMA SameTable ==
    ASSUME Inv, pid' = pid, next_pid' = next_pid, proc_allocator' = proc_allocator,
           \A t \in Slots : t \in Live' <=> state'[t] # "NONE"
    PROVE  TableSound'
BY DEF Inv, TableSound, Live

-----------------------------------------------------------------------------
(* The timer                                                               *)

LEMMA TimerTickInv ==
    ASSUME Inv, TimerTick, UNCHANGED proc_allocator
    PROVE  Inv'
<1> USE DEF TimerTick, procVars
<1>1. TypeOK'
  BY DEF Inv, TypeOK, Phases
<1>2. TableSound'
  BY SameTable DEF Inv, TableSound, Live
<1>3. Placement'
  BY DEF Inv, Placement, PidsOf, Live
<1>4. NoPanic'
  BY DEF NoPanic
<1>5. SliceRespected'
  <2>1. \A s \in Slots : cpu_time[s] \in Int /\ cpu_time[s] <= TimeSlice
    BY DEF Inv, TypeOK, SliceRespected
  <2>2. active_proc # NULL => cpu_time[active_proc] < TimeSlice
    BY DEF Inv, SliceRespected
  <2>3. TimeSlice \in Nat
    BY TimeSliceAssumption
  <2>4. ASSUME NEW s \in Slots PROVE cpu_time'[s] <= TimeSlice
    <3>1. CASE s = active_proc
      <4>1. active_proc # NULL
        BY <3>1, NullAssumption
      <4> QED
        BY <2>1, <2>2, <2>3, <3>1, <4>1
    <3>2. CASE s # active_proc
      BY <2>1, <3>2
    <3> QED
      BY <3>1, <3>2
  <2>5. ASSUME NEW s \in Slots, state[s] = "IDLE" PROVE cpu_time'[s] = 0
    BY <2>5 DEF Inv, SliceRespected, Placement, TypeOK
  <2> QED
    BY <2>4, <2>5 DEF SliceRespected
<1> QED
  BY <1>1, <1>2, <1>3, <1>4, <1>5 DEF Inv

\* The next sleeper is a live process, not the idle process.
LEMMA FirstSleeper ==
    ASSUME Inv, sleep_queue # <<>>
    PROVE  /\ Head(sleep_queue) \in Nat \ {0}
           /\ Tail(sleep_queue) \in Seq(Nat)
           /\ IsInjective(Tail(sleep_queue))
           /\ Head(sleep_queue) \in Range(sleep_queue)
           /\ Range(Tail(sleep_queue)) = Range(sleep_queue) \ {Head(sleep_queue)}
           /\ \E s \in Live : /\ pid[s] = Head(sleep_queue)
                             /\ state[s] = "SLEEPING"
                             /\ pid_to_proc(Head(sleep_queue)) = s
                             /\ s \in Slots /\ s # NULL
<1>1. sleep_queue \in Seq(Nat) /\ IsInjective(sleep_queue)
  BY DEF Inv, TypeOK, Placement
<1>2. /\ Head(sleep_queue) \in Nat
      /\ Head(sleep_queue) \in Range(sleep_queue)
      /\ Tail(sleep_queue) \in Seq(Nat)
      /\ IsInjective(Tail(sleep_queue))
      /\ Range(Tail(sleep_queue)) = Range(sleep_queue) \ {Head(sleep_queue)}
  BY <1>1, TailFacts
<1>3. PICK s \in Live : pid[s] = Head(sleep_queue) /\ state[s] = "SLEEPING"
  BY <1>2, Queued
<1>4. pid_to_proc(pid[s]) = s
  BY PidToProc DEF Inv
<1>5. s \in Slots /\ s # NULL /\ pid[s] # 0
  BY <1>3, Queued, NullAssumption
<1> QED
  BY <1>2, <1>3, <1>4, <1>5

LEMMA TimerWakeInv ==
    ASSUME Inv, TimerWake, UNCHANGED proc_allocator
    PROVE  Inv'
<1> DEFINE p == Head(sleep_queue)
<1>1. sleep_queue # <<>>
  BY DEF TimerWake, ScanGoesOn, Inv, TypeOK
<1>2. /\ p \in Range(sleep_queue)
      /\ Tail(sleep_queue) \in Seq(Nat)
      /\ IsInjective(Tail(sleep_queue))
      /\ Range(Tail(sleep_queue)) = Range(sleep_queue) \ {p}
  BY <1>1, FirstSleeper
<1>3. PICK s \in Live : /\ pid[s] = p /\ state[s] = "SLEEPING"
                        /\ pid_to_proc(p) = s /\ s \in Slots /\ p # 0
  BY <1>1, FirstSleeper
<1> HIDE DEF p
<1>4. s \in Slots /\ pid[s] # 0 /\ pid_to_proc(p) = s
  BY <1>3
<1>5. /\ ~ AddPanics(run_queue, pid[s])
      /\ scheduler_add(run_queue, pid[s]) \in Seq(Nat)
      /\ IsInjective(scheduler_add(run_queue, pid[s]))
      /\ Range(scheduler_add(run_queue, pid[s])) = Range(run_queue) \cup {pid[s]}
  BY <1>3, <1>4, BecomesReady
<1>6. /\ sleep_time' = [sleep_time EXCEPT ![s] = 0]
      /\ run_queue' = scheduler_add(run_queue, pid[s])
      /\ state' = [state EXCEPT ![s] = "IDLE"]
      /\ cpu_time' = [cpu_time EXCEPT ![s] = 0]
      /\ phase' = "timer"
      /\ sleep_queue' = Tail(sleep_queue)
      /\ scan' = scan + 1
      /\ UNCHANGED <<pid, next_pid, active_proc, proc_allocator>>
  BY <1>3, <1>4, <1>5 DEF TimerWake, procVars, p
<1>7. /\ PidsOf("IDLE")' = PidsOf("IDLE") \cup {pid[s]}
      /\ PidsOf("SLEEPING")' = PidsOf("SLEEPING") \ {pid[s]}
      /\ PidsOf("WAITING")' = PidsOf("WAITING")
      /\ \A t \in Slots : t \in Live' <=> state'[t] # "NONE"
  <2>1. "IDLE" \in States \ {"NONE"}
    BY DEF States
  <2>2. pid' = pid /\ state[s] = "SLEEPING" /\ state' = [state EXCEPT ![s] = "IDLE"]
    BY <1>3, <1>6
  <2>3. "SLEEPING" # "IDLE"
    OBVIOUS
  <2> HIDE <1>3
  <2>4. /\ PidsOf("IDLE")' = PidsOf("IDLE") \cup {pid[s]}
        /\ PidsOf("SLEEPING")' = PidsOf("SLEEPING") \ {pid[s]}
        /\ \A st : st # "IDLE" /\ st # "SLEEPING" => PidsOf(st)' = PidsOf(st)
        /\ \A t \in Slots : t \in Live' <=> state'[t] # "NONE"
    BY <2>1, <2>2, <2>3, Moves, ZenonT(30)
  <2> QED
    BY <2>4
<1>8. TypeOK'
  BY <1>2, <1>4, <1>5, <1>6, IntAssumption DEF Inv, TypeOK, Phases, States
<1>9. TableSound'
  BY <1>6, <1>7, SameTable
<1>10. Placement'
  <2>1. \A t \in Slots : state'[t] = "ACTIVE" <=> t = active_proc'
    BY <1>3, <1>4, <1>6 DEF Inv, TypeOK, Placement
  <2>2. Range(run_queue') = PidsOf("IDLE")' \ {0}
    BY <1>4, <1>5, <1>6, <1>7 DEF Inv, Placement
  <2>3. Range(sleep_queue') = PidsOf("SLEEPING")'
    BY <1>2, <1>3, <1>6, <1>7 DEF Inv, Placement
  <2> QED
    BY <1>2, <1>5, <1>6, <1>7, <2>1, <2>2, <2>3 DEF Inv, Placement
<1>11. NoPanic' /\ SliceRespected'
  BY <1>4, <1>6, TimeSliceAssumption DEF Inv, TypeOK, NoPanic, SliceRespected
<1> QED
  BY <1>8, <1>9, <1>10, <1>11 DEF Inv

LEMMA DecrementType ==
    ASSUME NEW n \in IntMin .. IntMax
    PROVE  Decrement(n) \in IntMin .. IntMax
BY IntAssumption DEF Decrement

LEMMA TimerCountDownInv ==
    ASSUME Inv, TimerCountDown, UNCHANGED proc_allocator
    PROVE  Inv'
<1> DEFINE p == Head(sleep_queue)
           t == Tail(sleep_queue)
<1>1. sleep_queue # <<>>
  BY DEF TimerCountDown, ScanGoesOn, Inv, TypeOK
<1>2. /\ p \in Range(sleep_queue)
      /\ p \in Nat
      /\ t \in Seq(Nat)
      /\ IsInjective(t)
      /\ Range(t) = Range(sleep_queue) \ {p}
  BY <1>1, FirstSleeper
<1>3. PICK s \in Live : /\ pid[s] = p /\ state[s] = "SLEEPING"
                        /\ pid_to_proc(p) = s /\ s \in Slots /\ s # NULL
  BY <1>1, FirstSleeper
<1> HIDE DEF p, t
<1>4. Range(t) \subseteq {pid[u] : u \in Slots \ {s}}
  BY <1>2, <1>3, Queued, ZenonT(30)
<1>5. /\ queue_in(t, p) \in Seq(Nat)
      /\ IsInjective(queue_in(t, p))
      /\ Range(queue_in(t, p)) = Range(sleep_queue)
  <2>1. p \notin Range(t) /\ Range(t) \cup {p} = Range(sleep_queue)
    BY <1>2
  <2>2. /\ queue_in(t, p) \in Seq(Nat)
        /\ IsInjective(queue_in(t, p))
        /\ Range(queue_in(t, p)) = Range(t) \cup {p}
    BY <1>2, <1>3, <1>4, <2>1, Enqueue
  <2> QED
    BY <2>1, <2>2
<1>6. /\ sleep_time' = [sleep_time EXCEPT ![s] = Decrement(@)]
      /\ sleep_queue' = queue_in(t, p)
      /\ scan' = scan + 1
      /\ UNCHANGED <<pid, next_pid, state, cpu_time, run_queue, active_proc, phase, proc_allocator>>
  BY <1>3 DEF TimerCountDown, procVars, p, t
<1>7. TypeOK'
  BY <1>3, <1>5, <1>6, DecrementType DEF Inv, TypeOK
<1>8. Live' = Live /\ \A st : PidsOf(st)' = PidsOf(st)
  BY <1>6 DEF Live, PidsOf
<1>9. TableSound'
  BY <1>6, <1>8, SameTable DEF Inv, TableSound
<1>10. Placement'
  BY <1>5, <1>6, <1>8 DEF Inv, Placement
<1>11. NoPanic' /\ SliceRespected'
  BY <1>6 DEF Inv, NoPanic, SliceRespected
<1> QED
  BY <1>7, <1>9, <1>10, <1>11 DEF Inv

\* A step that leaves the processes alone.
LEMMA NothingMoves ==
    ASSUME Inv, UNCHANGED <<procVars, schedVars, proc_allocator>>,
           phase' \in Phases \ {"user", "panic"}, scan' \in Nat
    PROVE  Inv'
<1>1. Live' = Live /\ \A st : PidsOf(st)' = PidsOf(st)
  BY DEF Live, PidsOf, procVars, schedVars
<1>2. TypeOK'
  BY DEF Inv, TypeOK, procVars, schedVars
<1>3. TableSound' /\ Placement'
  BY <1>1 DEF Inv, TableSound, Placement, procVars, schedVars
<1>4. NoPanic' /\ SliceRespected'
  BY DEF Inv, NoPanic, SliceRespected, procVars, schedVars, Phases
<1> QED
  BY <1>2, <1>3, <1>4 DEF Inv

LEMMA TimerDoneInv ==
    ASSUME Inv, TimerDone, UNCHANGED proc_allocator
    PROVE  Inv'
BY NothingMoves DEF TimerDone, Phases, procVars, schedVars

-----------------------------------------------------------------------------
(* The scheduler                                                           *)

LEMMA SchedulerKeepInv ==
    ASSUME Inv, SchedulerKeep, UNCHANGED proc_allocator
    PROVE  Inv'
<1>1. Live' = Live /\ \A st : PidsOf(st)' = PidsOf(st)
  BY DEF Live, PidsOf, procVars, schedVars, SchedulerKeep
<1>2. TypeOK'
  BY DEF Inv, TypeOK, procVars, schedVars, SchedulerKeep, Phases
<1>3. TableSound' /\ Placement'
  BY <1>1 DEF Inv, TableSound, Placement, procVars, schedVars, SchedulerKeep
<1>4. NoPanic' /\ SliceRespected'
  <2>1. active_proc \in Slots
    BY DEF SchedulerKeep, Running, Inv, TypeOK
  <2>2. cpu_time[active_proc] < TimeSlice
    BY <2>1, TimeSliceAssumption DEF SchedulerKeep, SliceOver, Inv, TypeOK
  <2> QED
    BY <2>2 DEF Inv, NoPanic, SliceRespected, procVars, schedVars, SchedulerKeep
<1> QED
  BY <1>2, <1>3, <1>4 DEF Inv

LEMMA IdleFacts ==
    ASSUME Inv
    PROVE  0 \in Live /\ 0 \in Slots /\ pid[0] = 0 /\ pid_to_proc(0) = 0
<1>1. 0 \in Slots
  BY ProcMaxAssumption DEF Slots
<1>2. pid[0] = 0 /\ 0 \in Live
  BY <1>1 DEF Inv, TableSound, Live
<1> QED
  BY <1>1, <1>2, PidToProc DEF Inv

(***************************************************************************)
(* scheduler_run with an expired slice first takes the active process back *)
(* to the ready ones: the run queue ready and the states mid.              *)
(***************************************************************************)
MidState ==
    [s \in Slots |-> IF s = active_proc THEN "IDLE" ELSE state[s]]
Ready ==
    IF active_proc = NULL THEN run_queue ELSE scheduler_add(run_queue, pid[active_proc])

LEMMA ReadyFacts ==
    ASSUME Inv
    PROVE  /\ Ready \in Seq(Nat)
           /\ IsInjective(Ready)
           /\ Range(Ready) = PidsIn(pid, MidState, "IDLE") \ {0}
           /\ PidsIn(pid, MidState, "SLEEPING") = PidsOf("SLEEPING")
           /\ PidsIn(pid, MidState, "WAITING") = PidsOf("WAITING")
           /\ \A s \in Slots : MidState[s] # "ACTIVE"
           /\ MidState[0] = "IDLE"
           /\ MidState \in [Slots -> States]
           /\ \A s \in Slots : s \in Live <=> MidState[s] # "NONE"
           /\ active_proc # NULL => ~ AddPanics(run_queue, pid[active_proc])
<1>1. /\ \A s \in Slots : state[s] = "ACTIVE" <=> s = active_proc
      /\ state \in [Slots -> States]
      /\ \A s \in Slots : s \in Live <=> state[s] # "NONE"
      /\ pid \in [Slots -> Int]
  BY DEF Inv, TypeOK, TableSound, Placement
<1>2. MidState \in [Slots -> States]
  BY <1>1 DEF MidState, States
<1>3. \A s \in Slots : MidState[s] # "ACTIVE"
  BY <1>1 DEF MidState
<1>4. \A s \in Slots : s \in Live <=> MidState[s] # "NONE"
  BY <1>1 DEF MidState
<1>5. MidState[0] = "IDLE"
  BY <1>1, IdleFacts, Queued DEF MidState
<1>6. /\ PidsIn(pid, MidState, "SLEEPING") = PidsOf("SLEEPING")
      /\ PidsIn(pid, MidState, "WAITING") = PidsOf("WAITING")
  BY <1>1 DEF PidsIn, PidsOf, Live, MidState
<1>7. CASE active_proc = NULL
  <2>1. \A s \in Slots : MidState[s] = state[s]
    BY <1>7, NullAssumption DEF MidState
  <2>2. PidsIn(pid, MidState, "IDLE") = PidsOf("IDLE")
    BY <2>1 DEF PidsIn, PidsOf, Live
  <2>3. /\ run_queue \in Seq(Nat)
        /\ IsInjective(run_queue)
        /\ Range(run_queue) = PidsOf("IDLE") \ {0}
    BY DEF Inv, TypeOK, Placement
  <2> QED
    BY <1>2, <1>3, <1>4, <1>5, <1>6, <1>7, <2>2, <2>3 DEF Ready
<1>8. CASE active_proc # NULL
  <2>1. /\ active_proc \in Slots /\ active_proc \in Live
        /\ state[active_proc] = "ACTIVE" /\ pid[active_proc] # -1
    BY <1>8, ActiveFacts DEF Live
  <2>2. PidsIn(pid, MidState, "IDLE") = PidsOf("IDLE") \cup {pid[active_proc]}
    BY <2>1, <1>1 DEF PidsIn, PidsOf, Live, MidState
  <2>3. /\ run_queue \in Seq(Nat)
        /\ IsInjective(run_queue)
        /\ Range(run_queue) = PidsOf("IDLE") \ {0}
    BY DEF Inv, TypeOK, Placement
  <2>4. CASE pid[active_proc] = 0
    <3>1. Ready = run_queue /\ ~ AddPanics(run_queue, pid[active_proc])
      BY <1>8, <2>4 DEF Ready, scheduler_add, AddPanics
    <3> QED
      BY <1>2, <1>3, <1>4, <1>5, <1>6, <2>2, <2>3, <2>4, <3>1
  <2>5. CASE pid[active_proc] # 0
    <3>1. /\ ~ AddPanics(run_queue, pid[active_proc])
          /\ Ready \in Seq(Nat)
          /\ IsInjective(Ready)
          /\ Range(Ready) = Range(run_queue) \cup {pid[active_proc]}
      BY <1>8, <2>1, <2>5, BecomesReady DEF Ready
    <3> QED
      BY <1>2, <1>3, <1>4, <1>5, <1>6, <2>2, <2>3, <2>5, <3>1
  <2> QED
    BY <2>4, <2>5
<1> QED
  BY <1>7, <1>8

\* Whom scheduler_run chooses, and what is left in the run queue.
LEMMA Choice ==
    ASSUME Inv
    PROVE  \E c \in Live :
             /\ c \in Slots /\ c # NULL
             /\ MidState[c] = "IDLE"
             /\ pid_to_proc(IF Ready = <<>> THEN 0 ELSE Head(Ready)) = c
             /\ LET rest == IF Ready = <<>> THEN <<>> ELSE Tail(Ready)
                IN  /\ rest \in Seq(Nat)
                    /\ IsInjective(rest)
                    /\ Range(rest) = (PidsIn(pid, MidState, "IDLE") \ {pid[c]}) \ {0}
<1>1. CASE Ready = <<>>
  <2>1. Range(Ready) = {} /\ <<>> \in Seq(Nat) /\ IsInjective(<<>>)
    BY <1>1 DEF Range, IsInjective
  <2>2. Range(Ready) = PidsIn(pid, MidState, "IDLE") \ {0}
    BY ReadyFacts
  <2> QED
    BY <1>1, <2>1, <2>2, IdleFacts, ReadyFacts, NullAssumption
<1>2. CASE Ready # <<>>
  <2> DEFINE p == Head(Ready)
  <2>1. /\ p \in Range(Ready)
        /\ Tail(Ready) \in Seq(Nat)
        /\ IsInjective(Tail(Ready))
        /\ Range(Tail(Ready)) = Range(Ready) \ {p}
    BY <1>2, ReadyFacts, TailFacts
  <2> HIDE DEF p
  <2>2. Range(Ready) = PidsIn(pid, MidState, "IDLE") \ {0}
    BY ReadyFacts
  <2>3. PICK c \in Slots : pid[c] # -1 /\ MidState[c] = "IDLE" /\ pid[c] = p
    BY <2>1, <2>2 DEF PidsIn
  <2>4. c \in Live
    BY <2>3 DEF Live
  <2>5. pid_to_proc(p) = c
    BY <2>3, <2>4, PidToProc DEF Inv
  <2>6. c # NULL
    BY NullAssumption
  <2> QED
    BY <1>2, <2>1, <2>2, <2>3, <2>4, <2>5, <2>6 DEF p
<1> QED
  BY <1>1, <1>2

LEMMA SchedulerSwitchInv ==
    ASSUME Inv, SchedulerSwitch, UNCHANGED proc_allocator
    PROVE  Inv'
<1>1. PICK c \in Live :
             /\ c \in Slots /\ c # NULL
             /\ MidState[c] = "IDLE"
             /\ pid_to_proc(IF Ready = <<>> THEN 0 ELSE Head(Ready)) = c
             /\ LET rest == IF Ready = <<>> THEN <<>> ELSE Tail(Ready)
                IN  /\ rest \in Seq(Nat)
                    /\ IsInjective(rest)
                    /\ Range(rest) = (PidsIn(pid, MidState, "IDLE") \ {pid[c]}) \ {0}
  BY Choice
<1> DEFINE expired == IF Running(active_proc) THEN {active_proc} ELSE {}
           ready == IF expired = {} THEN run_queue
                    ELSE scheduler_add(run_queue, pid[active_proc])
           rest == IF Ready = <<>> THEN <<>> ELSE Tail(Ready)
<1>2. Running(active_proc) <=> active_proc # NULL
  BY ActiveFacts DEF Running
<1>3. ready = Ready
  BY <1>2 DEF Ready
<1>4. expired # {} => ~ AddPanics(run_queue, pid[active_proc])
  BY <1>2, ReadyFacts
<1>5. \A s \in Slots : s \in expired <=> s = active_proc
  BY <1>2, NullAssumption
<1>6. /\ run_queue' = rest
      /\ active_proc' = c
      /\ state' = [s \in Slots |-> IF s = c THEN "ACTIVE"
                                   ELSE IF s \in expired THEN "IDLE"
                                   ELSE state[s]]
      /\ cpu_time' = [s \in Slots |-> IF s \in expired THEN 0 ELSE cpu_time[s]]
      /\ phase' = "user"
      /\ UNCHANGED <<pid, next_pid, sleep_time, sleep_queue, scan, proc_allocator>>
  BY <1>1, <1>3, <1>4 DEF SchedulerSwitch, procVars
<1> HIDE DEF expired, ready, rest
<1>7. state' = [MidState EXCEPT ![c] = "ACTIVE"]
  BY <1>1, <1>5, <1>6 DEF MidState
<1>8. /\ rest \in Seq(Nat)
      /\ IsInjective(rest)
      /\ Range(rest) = (PidsIn(pid, MidState, "IDLE") \ {pid[c]}) \ {0}
  BY <1>1 DEF rest
<1>9. state' \in [Slots -> States]
  BY <1>7, ReadyFacts DEF States
<1>10. TypeOK'
  <2>1. cpu_time' \in [Slots -> Int]
    BY <1>6 DEF Inv, TypeOK
  <2> QED
    BY <1>1, <1>6, <1>8, <1>9, <2>1 DEF Inv, TypeOK, Phases
<1>11. /\ state'[c] = "ACTIVE"
       /\ \A s \in Slots : s # c => state'[s] = MidState[s]
  BY <1>1, <1>7, ReadyFacts
<1>12. /\ pid \in [Slots -> Int] /\ pid[c] # -1
       /\ \A t, u \in Slots : pid[t] # -1 /\ pid[t] = pid[u] => t = u
  BY <1>1 DEF Inv, TypeOK, TableSound, Live
<1>13. /\ PidsOf("IDLE")' = PidsIn(pid, MidState, "IDLE") \ {pid[c]}
       /\ PidsOf("SLEEPING")' = PidsIn(pid, MidState, "SLEEPING")
       /\ PidsOf("WAITING")' = PidsIn(pid, MidState, "WAITING")
  <2>1. \A st : PidsOf(st)' = PidsIn(pid, state', st)
    BY <1>6 DEF PidsOf, PidsIn, Live
  <2>2. PidsIn(pid, state', "IDLE") = PidsIn(pid, MidState, "IDLE") \ {pid[c]}
    BY <1>1, <1>11, <1>12 DEF PidsIn
  <2>3. PidsIn(pid, state', "SLEEPING") = PidsIn(pid, MidState, "SLEEPING")
    BY <1>1, <1>11, <1>12 DEF PidsIn
  <2>4. PidsIn(pid, state', "WAITING") = PidsIn(pid, MidState, "WAITING")
    BY <1>1, <1>11, <1>12 DEF PidsIn
  <2> QED
    BY <2>1, <2>2, <2>3, <2>4
<1>14. Live' = Live /\ \A s \in Slots : s \in Live' <=> state'[s] # "NONE"
  <2>1. Live' = Live
    BY <1>6 DEF Live
  <2> QED
    BY <1>1, <1>11, <2>1, ReadyFacts
<1>15. TableSound'
  BY <1>6, <1>14, SameTable
<1>16. Placement'
  <2>1. \A s \in Slots : state'[s] = "ACTIVE" <=> s = active_proc'
    BY <1>6, <1>11, ReadyFacts
  <2>2. Range(run_queue') = PidsOf("IDLE")' \ {0}
    BY <1>6, <1>8, <1>13
  <2>3. /\ IsInjective(sleep_queue')
        /\ Range(sleep_queue') = PidsOf("SLEEPING")'
        /\ 0 \notin PidsOf("SLEEPING")' \cup PidsOf("WAITING")'
    BY <1>6, <1>13, ReadyFacts DEF Inv, Placement
  <2> QED
    BY <1>6, <1>8, <2>1, <2>2, <2>3 DEF Placement
<1>17. SliceRespected'
  <2>1. TimeSlice \in Nat \ {0}
    BY TimeSliceAssumption
  <2>2. \A s \in Slots : cpu_time[s] \in Int /\ cpu_time[s] <= TimeSlice
    BY DEF Inv, TypeOK, SliceRespected
  <2>3. \A s \in Slots : cpu_time'[s] <= TimeSlice
    BY <1>6, <2>1, <2>2
  <2>4. \A s \in Slots : MidState[s] = "IDLE" => cpu_time'[s] = 0
    BY <1>5, <1>6 DEF MidState, Inv, SliceRespected
  <2>5. cpu_time'[c] < TimeSlice
    BY <1>1, <2>1, <2>4
  <2>6. \A s \in Slots : state'[s] = "IDLE" => cpu_time'[s] = 0
    BY <1>11, <2>4
  <2> QED
    BY <1>6, <2>3, <2>5, <2>6 DEF SliceRespected
<1> QED
  BY <1>6, <1>10, <1>15, <1>16, <1>17 DEF Inv, NoPanic

-----------------------------------------------------------------------------
(* Entries into the kernel                                                 *)

LEMMA KeyboardCreateInv ==
    ASSUME Inv, KeyboardCreate
    PROVE  Inv'
<1>1. CASE proc_allocator = <<>>
  BY <1>1, NothingMoves DEF KeyboardCreate, kproc_create, Phases, Inv, TypeOK
<1>2. CASE proc_allocator # <<>>
  <2> DEFINE s == Head(proc_allocator)
  <2>1. /\ s \in Slots /\ s \in Range(proc_allocator)
        /\ Tail(proc_allocator) \in Seq(Slots)
        /\ IsInjective(Tail(proc_allocator))
        /\ Range(Tail(proc_allocator)) = Range(proc_allocator) \ {s}
    BY <1>2, TailFacts DEF Inv, TypeOK, TableSound
  <2>2. s \notin Live /\ pid[s] = -1
    BY <2>1 DEF Inv, TableSound, Live
  <2>3. /\ next_pid \in Nat \ {0}
        /\ \A t \in Live : t \in Slots /\ t # s /\ pid[t] # next_pid
    <3>1. next_pid \in Nat /\ \A t \in Live : pid[t] \in 0 .. next_pid - 1
      BY DEF Inv, TypeOK, TableSound
    <3>2. next_pid # 0 /\ \A t \in Live : pid[t] # next_pid
      BY <3>1, IdleFacts
    <3>3. \A t \in Live : t \in Slots /\ t # s
      BY <2>2 DEF Live
    <3> QED
      BY <3>1, <3>2, <3>3
  <2>4. /\ next_pid \notin Range(run_queue)
        /\ Range(run_queue) \subseteq {pid[t] : t \in Slots \ {s}}
    BY <2>3, Queued
  <2>5. run_queue \in Seq(Nat) /\ IsInjective(run_queue)
    BY DEF Inv, TypeOK, Placement
  <2> DEFINE q == scheduler_add(run_queue, next_pid)
  <2>6. /\ ~ AddPanics(run_queue, next_pid)
        /\ q \in Seq(Nat)
        /\ IsInjective(q)
        /\ Range(q) = Range(run_queue) \cup {next_pid}
    BY <2>1, <2>3, <2>4, <2>5, Enqueue DEF scheduler_add, AddPanics
  <2>7. /\ proc_allocator' = Tail(proc_allocator)
        /\ pid' = [pid EXCEPT ![s] = next_pid]
        /\ next_pid' = next_pid + 1
        /\ state' = [state EXCEPT ![s] = "IDLE"]
        /\ cpu_time' = [cpu_time EXCEPT ![s] = 0]
        /\ sleep_time' = [sleep_time EXCEPT ![s] = 0]
        /\ run_queue' = q
        /\ phase' = "sched"
        /\ UNCHANGED <<sleep_queue, active_proc, scan>>
    BY <1>2, <2>6 DEF KeyboardCreate, kproc_create
  <2> HIDE DEF s, q
  <2>8. /\ pid \in [Slots -> Int] /\ state \in [Slots -> States]
        /\ cpu_time \in [Slots -> Int] /\ sleep_time \in [Slots -> IntMin .. IntMax]
    BY DEF Inv, TypeOK
  <2>9. /\ pid'[s] = next_pid /\ state'[s] = "IDLE" /\ cpu_time'[s] = 0
        /\ \A t \in Slots : t # s => /\ pid'[t] = pid[t] /\ state'[t] = state[t]
                                     /\ cpu_time'[t] = cpu_time[t]
    BY <2>1, <2>7, <2>8
  <2>10. TypeOK'
    <3>1. /\ next_pid \in Int
          /\ 0 \in IntMin .. IntMax
          /\ "IDLE" \in States
      BY <2>3, IntAssumption DEF States
    <3>2. /\ pid' \in [Slots -> Int] /\ state' \in [Slots -> States]
          /\ cpu_time' \in [Slots -> Int] /\ sleep_time' \in [Slots -> IntMin .. IntMax]
      <4>1. pid' \in [Slots -> Int]
        BY <2>7, <2>8, <3>1
      <4>2. state' \in [Slots -> States]
        BY <2>7, <2>8, <3>1
      <4>3. cpu_time' \in [Slots -> Int]
        <5>1. cpu_time' = [cpu_time EXCEPT ![s] = 0] /\ cpu_time \in [Slots -> Int] /\ 0 \in Int
          BY <2>7, <2>8
        <5> QED
          BY <5>1
      <4>4. sleep_time' \in [Slots -> IntMin .. IntMax]
        BY <2>7, <2>8, <3>1
      <4> QED
        BY <4>1, <4>2, <4>3, <4>4
    <3> QED
      BY <2>1, <2>3, <2>6, <2>7, <3>2, SMTT(20) DEF Inv, TypeOK, Phases
  <2>11. Live' = Live \cup {s}
    BY <2>1, <2>3, <2>9 DEF Live
  <2>12. TableSound'
    <3>1. \A t \in Live' : pid'[t] \in 0 .. next_pid' - 1
      BY <2>3, <2>7, <2>9, <2>11 DEF Inv, TableSound
    <3>2. \A t, u \in Live' : pid'[t] = pid'[u] => t = u
      BY <2>3, <2>9, <2>11 DEF Inv, TableSound
    <3>3. pid'[0] = 0
      BY <2>2, <2>9, IdleFacts
    <3>4. \A t \in Slots : t \in Live' <=> state'[t] # "NONE"
      BY <2>9, <2>11 DEF Inv, TableSound
    <3>5. Range(proc_allocator') = Slots \ Live'
      BY <2>1, <2>7, <2>11 DEF Inv, TableSound
    <3> QED
      BY <2>1, <2>7, <3>1, <3>2, <3>3, <3>4, <3>5 DEF TableSound
  <2>13. /\ PidsOf("IDLE")' = PidsOf("IDLE") \cup {next_pid}
         /\ PidsOf("SLEEPING")' = PidsOf("SLEEPING")
         /\ PidsOf("WAITING")' = PidsOf("WAITING")
    <3>1. \A st : PidsOf(st)' = PidsIn(pid', state', st)
      BY DEF PidsOf, PidsIn, Live
    <3>2. PidsIn(pid', state', "IDLE") = PidsIn(pid, state, "IDLE") \cup {next_pid}
      BY <2>1, <2>2, <2>3, <2>9 DEF PidsIn
    <3>3. PidsIn(pid', state', "SLEEPING") = PidsIn(pid, state, "SLEEPING")
      BY <2>1, <2>2, <2>3, <2>9 DEF PidsIn
    <3>4. PidsIn(pid', state', "WAITING") = PidsIn(pid, state, "WAITING")
      BY <2>1, <2>2, <2>3, <2>9 DEF PidsIn
    <3> QED
      BY <3>1, <3>2, <3>3, <3>4, PidsOfPids
  <2>14. Placement'
    <3>1. \A t \in Slots : state'[t] = "ACTIVE" <=> t = active_proc'
      BY <2>2, <2>7, <2>9 DEF Inv, TableSound, Placement
    <3> QED
      BY <2>3, <2>6, <2>7, <2>13, <3>1 DEF Inv, Placement
  <2>15. NoPanic' /\ SliceRespected'
    BY <2>7, <2>9, TimeSliceAssumption DEF Inv, NoPanic, SliceRespected
  <2> QED
    BY <2>10, <2>12, <2>14, <2>15 DEF Inv
<1> QED
  BY <1>1, <1>2

\* The end of the active process, by its own exit or by CTRL+q.
LEMMA DestroyInv ==
    ASSUME Inv, phase' = "sched", UNCHANGED scan, kproc_destroy(active_proc)
    PROVE  Inv'
<1>1. CASE active_proc = NULL \/ (active_proc # NULL /\ pid[active_proc] = 0)
  BY <1>1, NothingMoves DEF kproc_destroy, Phases, Inv, TypeOK
<1>2. CASE ~ (active_proc = NULL \/ (active_proc # NULL /\ pid[active_proc] = 0))
  <2> DEFINE s == active_proc
  <2>1. /\ s \in Live /\ s \in Slots
        /\ state[s] = "ACTIVE"
        /\ pid[s] # 0 /\ pid[s] # -1
        /\ pid[s] \notin Range(run_queue) /\ pid[s] \notin Range(sleep_queue)
    BY <1>2, ActiveFacts DEF Live
  <2>2. s # 0 /\ proc_to_entry(s) = s
    BY <2>1, IdleFacts, ProcToEntry DEF Inv
  <2>3. /\ proc_allocator \in Seq(Slots)
        /\ IsInjective(proc_allocator)
        /\ Range(proc_allocator) = Slots \ Live
    BY DEF Inv, TypeOK, TableSound
  <2>4. /\ ~ queue_is_full(proc_allocator)
        /\ s \notin Range(proc_allocator)
    <3>1. Range(proc_allocator) \subseteq {[u \in Slots |-> u][t] : t \in Slots \ {s}}
      BY <2>1, <2>3
    <3> DEFINE f == [t \in Slots |-> t]
    <3>2. Range(proc_allocator) \subseteq {f[t] : t \in Slots \ {s}}
      BY <3>1
    <3> HIDE DEF f
    <3>3. ~ queue_is_full(proc_allocator)
      BY <2>1, <2>3, <3>2, Room
    <3> QED
      BY <2>1, <2>3, <3>3
  <2>5. /\ queue_in(proc_allocator, s) \in Seq(Slots)
        /\ IsInjective(queue_in(proc_allocator, s))
        /\ Range(queue_in(proc_allocator, s)) = (Slots \ Live) \cup {s}
    BY <2>1, <2>3, <2>4, AppendFacts DEF queue_in
  <2>6. run_queue' = run_queue /\ active_proc' = NULL
    BY <1>2, RemoveActive DEF kproc_destroy
  <2>7. /\ pid' = [pid EXCEPT ![s] = -1]
        /\ state' = [state EXCEPT ![s] = "NONE"]
        /\ cpu_time' = [cpu_time EXCEPT ![s] = -1]
        /\ sleep_time' = [sleep_time EXCEPT ![s] = 0]
        /\ proc_allocator' = queue_in(proc_allocator, s)
        /\ UNCHANGED <<next_pid, sleep_queue>>
    BY <1>2, <2>2 DEF kproc_destroy, Release, ClearFields
  <2> HIDE DEF s
  <2>8. /\ pid \in [Slots -> Int] /\ state \in [Slots -> States]
        /\ cpu_time \in [Slots -> Int] /\ sleep_time \in [Slots -> IntMin .. IntMax]
    BY DEF Inv, TypeOK
  <2>9. /\ pid'[s] = -1 /\ state'[s] = "NONE" /\ cpu_time'[s] = -1
        /\ \A t \in Slots : t # s => /\ pid'[t] = pid[t] /\ state'[t] = state[t]
                                     /\ cpu_time'[t] = cpu_time[t]
    BY <2>1, <2>7, <2>8
  <2>10. TypeOK'
    <3>1. 0 \in IntMin .. IntMax /\ -1 \in Int /\ "NONE" \in States
      BY IntAssumption DEF States
    <3>2. pid' \in [Slots -> Int]
      BY <2>7, <2>8, <3>1
    <3>3. state' \in [Slots -> States]
      BY <2>7, <2>8, <3>1
    <3>4. cpu_time' \in [Slots -> Int]
      BY <2>7, <2>8, <3>1
    <3>5. sleep_time' \in [Slots -> IntMin .. IntMax]
      BY <2>7, <2>8, <3>1
    <3> QED
      BY <2>5, <2>6, <2>7, <3>2, <3>3, <3>4, <3>5 DEF Inv, TypeOK, Phases
  <2>11. Live' = Live \ {s}
    BY <2>1, <2>9 DEF Live
  <2>12. TableSound'
    <3>1. \A t \in Live' : pid'[t] \in 0 .. next_pid' - 1
      BY <2>7, <2>9, <2>11 DEF Inv, TableSound, Live
    <3>2. \A t, u \in Live' : pid'[t] = pid'[u] => t = u
      BY <2>9, <2>11 DEF Inv, TableSound, Live
    <3>3. pid'[0] = 0
      BY <2>2, <2>9, IdleFacts DEF s
    <3>4. \A t \in Slots : t \in Live' <=> state'[t] # "NONE"
      BY <2>9, <2>11 DEF Inv, TableSound
    <3>5. Range(proc_allocator') = Slots \ Live'
      BY <2>1, <2>5, <2>7, <2>11
    <3> QED
      BY <2>5, <2>7, <3>1, <3>2, <3>3, <3>4, <3>5 DEF TableSound
  <2>13. \A st : st \in {"IDLE", "SLEEPING", "WAITING"} => PidsOf(st)' = PidsOf(st)
    <3>1. \A st : PidsOf(st)' = PidsIn(pid', state', st)
      BY DEF PidsOf, PidsIn, Live
    <3>2. \A st : st # "ACTIVE" /\ st # "NONE" => PidsIn(pid', state', st) = PidsIn(pid, state, st)
      BY <2>1, <2>9 DEF PidsIn
    <3> QED
      BY <3>1, <3>2, PidsOfPids
  <2>14. Placement'
    <3>1. \A t \in Slots : state'[t] = "ACTIVE" <=> t = active_proc'
      BY <2>6, <2>9, NullAssumption DEF Inv, Placement, s
    <3> QED
      BY <2>6, <2>7, <2>13, <3>1 DEF Inv, Placement
  <2>15. NoPanic' /\ SliceRespected'
    BY <2>6, <2>9, TimeSliceAssumption DEF Inv, NoPanic, SliceRespected
  <2> QED
    BY <2>10, <2>12, <2>14, <2>15 DEF Inv
<1> QED
  BY <1>1, <1>2

LEMMA ProcSleepInv ==
    ASSUME Inv, NEW seconds \in Seconds, ProcSleep(seconds)
    PROVE  Inv'
<1>1. CASE seconds < 0
  BY <1>1, NothingMoves DEF ProcSleep, Handler, Phases, Inv, TypeOK
<1>2. CASE ~ (seconds < 0)
  <2>0. active_proc # NULL /\ pid[active_proc] # 0
    BY DEF ProcSleep, Caller
  <2>a. PICK s \in Slots : s = active_proc
    BY <2>0, ActiveFacts
  <2> DEFINE p == pid[s]
  <2>1. /\ active_proc # NULL /\ s \in Live /\ s \in Slots
        /\ state[s] = "ACTIVE"
        /\ p \in Nat /\ p # 0 /\ p \notin Range(sleep_queue)
    BY <2>0, <2>a, ActiveFacts
  <2>2. run_queue' = run_queue /\ active_proc' = NULL
    BY <1>2, <2>1, RemoveActive DEF ProcSleep
  <2>3. /\ queue_in(sleep_queue, p) \in Seq(Nat)
        /\ IsInjective(queue_in(sleep_queue, p))
        /\ Range(queue_in(sleep_queue, p)) = Range(sleep_queue) \cup {p}
    <3>1. Range(sleep_queue) \subseteq {pid[t] : t \in Slots \ {s}}
      BY <2>1, RoomFor
    <3>2. sleep_queue \in Seq(Nat) /\ IsInjective(sleep_queue)
      BY DEF Inv, TypeOK, Placement
    <3> QED
      BY <2>1, <3>1, <3>2, Enqueue
  <2> HIDE DEF p
  <2>4. /\ sleep_time' = [sleep_time EXCEPT ![s] = seconds * TicksPerSecond]
        /\ state' = [state EXCEPT ![s] = "SLEEPING"]
        /\ sleep_queue' = queue_in(sleep_queue, p)
        /\ phase' = "sched"
        /\ UNCHANGED <<pid, next_pid, cpu_time, scan, proc_allocator>>
    BY <1>2, <2>a DEF ProcSleep, Handler, procVars, p
  <2>5. TypeOK'
    <3>1. seconds * TicksPerSecond \in IntMin .. IntMax /\ "SLEEPING" \in States
      BY SleepAssumption DEF States
    <3>2. sleep_time' \in [Slots -> IntMin .. IntMax]
      BY <2>4, <3>1 DEF Inv, TypeOK
    <3>3. state' \in [Slots -> States]
      BY <2>4, <3>1 DEF Inv, TypeOK
    <3> QED
      BY <2>2, <2>3, <2>4, <3>2, <3>3 DEF Inv, TypeOK, Phases
  <2>6. /\ PidsOf("SLEEPING")' = PidsOf("SLEEPING") \cup {p}
        /\ PidsOf("IDLE")' = PidsOf("IDLE")
        /\ PidsOf("WAITING")' = PidsOf("WAITING")
        /\ \A t \in Slots : t \in Live' <=> state'[t] # "NONE"
    <3>1. "SLEEPING" \in States \ {"NONE"} /\ "SLEEPING" # "ACTIVE"
      BY DEF States
    <3>2. p = pid[s] /\ pid' = pid
      BY <2>4 DEF p
    <3>3. s \in Live /\ state[s] = "ACTIVE" /\ state' = [state EXCEPT ![s] = "SLEEPING"]
      BY <2>1, <2>4
    <3>4. /\ PidsOf("SLEEPING")' = PidsOf("SLEEPING") \cup {pid[s]}
          /\ PidsOf("ACTIVE")' = PidsOf("ACTIVE") \ {pid[s]}
          /\ \A st : st # "SLEEPING" /\ st # "ACTIVE" => PidsOf(st)' = PidsOf(st)
          /\ \A t \in Slots : t \in Live' <=> state'[t] # "NONE"
      BY <3>1, <3>2, <3>3, Moves, ZenonT(30)
    <3> QED
      BY <3>2, <3>4
  <2>7. TableSound'
    BY <2>4, <2>6, SameTable
  <2>8. Placement'
    <3>1. \A t \in Slots : state'[t] = "ACTIVE" <=> t = active_proc'
      BY <2>1, <2>2, <2>4, <2>a, NullAssumption DEF Inv, TypeOK, Placement
    <3> QED
      BY <2>1, <2>2, <2>3, <2>4, <2>6, <3>1 DEF Inv, Placement
  <2>9. NoPanic' /\ SliceRespected'
    BY <2>1, <2>2, <2>4 DEF Inv, TypeOK, NoPanic, SliceRespected
  <2> QED
    BY <2>5, <2>7, <2>8, <2>9 DEF Inv
<1> QED
  BY <1>1, <1>2

LEMMA BlockInv ==
    ASSUME Inv, Block
    PROVE  Inv'
<1>0. active_proc # NULL /\ pid[active_proc] # 0
  BY DEF Block, Caller
<1>a. PICK s \in Slots : s = active_proc
  BY <1>0, ActiveFacts
<1>1. /\ active_proc # NULL /\ s \in Live /\ s \in Slots
      /\ state[s] = "ACTIVE" /\ pid[s] # 0
  BY <1>0, <1>a, ActiveFacts
<1>2. run_queue' = run_queue /\ active_proc' = NULL
  BY <1>1, RemoveActive DEF Block
<1>3. /\ state' = [state EXCEPT ![s] = "WAITING"]
      /\ phase' = "sched"
      /\ UNCHANGED <<pid, next_pid, cpu_time, sleep_time, sleep_queue, scan, proc_allocator>>
  BY <1>a DEF Block, Handler, procVars
<1>4. "WAITING" \in States \ {"NONE"} /\ "WAITING" # "ACTIVE"
  BY DEF States
<1>5. TypeOK'
  BY <1>2, <1>3, <1>4 DEF Inv, TypeOK, Phases
<1>6. /\ PidsOf("WAITING")' = PidsOf("WAITING") \cup {pid[s]}
      /\ \A st : st # "WAITING" /\ st # "ACTIVE" => PidsOf(st)' = PidsOf(st)
      /\ \A t \in Slots : t \in Live' <=> state'[t] # "NONE"
  <2>1. s \in Live /\ state[s] = "ACTIVE" /\ pid' = pid /\ state' = [state EXCEPT ![s] = "WAITING"]
    BY <1>1, <1>3
  <2>2. /\ PidsOf("WAITING")' = PidsOf("WAITING") \cup {pid[s]}
        /\ PidsOf("ACTIVE")' = PidsOf("ACTIVE") \ {pid[s]}
        /\ \A st : st # "WAITING" /\ st # "ACTIVE" => PidsOf(st)' = PidsOf(st)
        /\ \A t \in Slots : t \in Live' <=> state'[t] # "NONE"
    BY <1>4, <2>1, Moves, ZenonT(30)
  <2> QED
    BY <2>2
<1>7. TableSound'
  BY <1>3, <1>6, SameTable
<1>8. Placement'
  <2>1. \A t \in Slots : state'[t] = "ACTIVE" <=> t = active_proc'
    BY <1>1, <1>2, <1>3, <1>a, NullAssumption DEF Inv, TypeOK, Placement
  <2>2. PidsOf("IDLE")' = PidsOf("IDLE") /\ PidsOf("SLEEPING")' = PidsOf("SLEEPING")
    BY <1>6
  <2> QED
    BY <1>1, <1>2, <1>3, <1>6, <2>1, <2>2 DEF Inv, Placement
<1>9. NoPanic' /\ SliceRespected'
  BY <1>1, <1>2, <1>3 DEF Inv, TypeOK, NoPanic, SliceRespected
<1> QED
  BY <1>5, <1>7, <1>8, <1>9 DEF Inv

LEMMA UnblockInv ==
    ASSUME Inv, NEW s \in Slots, Unblock(s)
    PROVE  Inv'
<1>1. s \in Live /\ state[s] = "WAITING"
  BY DEF Unblock, WakeUp, Inv, TableSound
<1>2. pid[s] # 0
  BY <1>1, Queued
<1>3. /\ ~ AddPanics(run_queue, pid[s])
      /\ scheduler_add(run_queue, pid[s]) \in Seq(Nat)
      /\ IsInjective(scheduler_add(run_queue, pid[s]))
      /\ Range(scheduler_add(run_queue, pid[s])) = Range(run_queue) \cup {pid[s]}
  BY <1>1, <1>2, BecomesReady
<1>4. /\ run_queue' = scheduler_add(run_queue, pid[s])
      /\ state' = [state EXCEPT ![s] = "IDLE"]
      /\ cpu_time' = [cpu_time EXCEPT ![s] = 0]
      /\ phase' = "sched"
      /\ UNCHANGED <<pid, next_pid, sleep_time, sleep_queue, active_proc, scan, proc_allocator>>
  BY <1>3 DEF Unblock, WakeUp, procVars
<1>5. "IDLE" \in States \ {"NONE"} /\ "WAITING" # "IDLE" /\ 0 \in Int
  BY DEF States
<1>6. TypeOK'
  <2>1. state' \in [Slots -> States] /\ cpu_time' \in [Slots -> Int]
    BY <1>4, <1>5 DEF Inv, TypeOK
  <2> QED
    BY <1>3, <1>4, <2>1 DEF Inv, TypeOK, Phases
<1>7. /\ PidsOf("IDLE")' = PidsOf("IDLE") \cup {pid[s]}
      /\ PidsOf("WAITING")' = PidsOf("WAITING") \ {pid[s]}
      /\ \A st : st # "WAITING" /\ st # "IDLE" => PidsOf(st)' = PidsOf(st)
      /\ \A t \in Slots : t \in Live' <=> state'[t] # "NONE"
  <2>1. pid' = pid
    BY <1>4
  <2> QED
    BY <1>1, <1>4, <1>5, <2>1, Moves, ZenonT(30)
<1>8. TableSound'
  BY <1>4, <1>7, SameTable
<1>9. Placement'
  <2>1. \A t \in Slots : state'[t] = "ACTIVE" <=> t = active_proc'
    BY <1>1, <1>4 DEF Inv, TypeOK, Placement
  <2>2. PidsOf("SLEEPING")' = PidsOf("SLEEPING")
    BY <1>7
  <2>3. Range(run_queue') = PidsOf("IDLE")' \ {0}
    BY <1>2, <1>3, <1>4, <1>7 DEF Inv, Placement
  <2> QED
    BY <1>3, <1>4, <1>7, <2>1, <2>2, <2>3 DEF Inv, Placement
<1>10. NoPanic' /\ SliceRespected'
  BY <1>4, TimeSliceAssumption DEF Inv, TypeOK, NoPanic, SliceRespected
<1> QED
  BY <1>6, <1>8, <1>9, <1>10 DEF Inv

-----------------------------------------------------------------------------
(* What the entries other than mutex and semaphore calls leave alone       *)

\* What a step of KProc that neither blocks nor wakes a process by request does
\* to an entry of the table: a new process may come, the active one may go, and
\* what waits is left alone.
Undisturbed(s) ==
    /\ \/ pid'[s] = pid[s]
       \/ pid[s] = -1 /\ pid'[s] = next_pid /\ next_pid' = next_pid + 1
       \/ s = active_proc /\ pid'[s] = -1
    /\ state'[s] = "WAITING" <=> state[s] = "WAITING"
    /\ state[s] = "WAITING" => pid'[s] = pid[s]

\* A step that changes the state of one process, neither from nor to WAITING.
LEMMA StateUndisturbed ==
    ASSUME Inv, NEW s \in Slots, NEW new, new # "WAITING", state[s] # "WAITING",
           pid' = pid, state' = [state EXCEPT ![s] = new]
    PROVE  \A t \in Slots : Undisturbed(t)
<1>1. state \in [Slots -> States]
  BY DEF Inv, TypeOK
<1> QED
  BY <1>1 DEF Undisturbed

LEMMA TableUndisturbed ==
    ASSUME pid' = pid, state' = state
    PROVE  \A t \in Slots : Undisturbed(t)
BY DEF Undisturbed

LEMMA TimerUndisturbed ==
    ASSUME Inv, TimerTick \/ TimerWake \/ TimerCountDown \/ TimerDone
    PROVE  /\ \A t \in Slots : Undisturbed(t)
           /\ next_pid' = next_pid
<1>1. CASE TimerTick \/ TimerCountDown \/ TimerDone
  BY <1>1, TableUndisturbed DEF TimerTick, TimerCountDown, TimerDone, procVars, schedVars
<1>2. CASE TimerWake
  <2>1. sleep_queue # <<>>
    BY <1>2 DEF TimerWake, ScanGoesOn, Inv, TypeOK
  <2>2. PICK s \in Slots : state[s] = "SLEEPING" /\ pid_to_proc(Head(sleep_queue)) = s
    BY <2>1, FirstSleeper
  <2>3. state' = [state EXCEPT ![s] = "IDLE"] /\ pid' = pid /\ next_pid' = next_pid
    BY <1>2, <2>2 DEF TimerWake, procVars
  <2> QED
    BY <2>2, <2>3, StateUndisturbed
<1> QED
  BY <1>1, <1>2

LEMMA SchedulerUndisturbed ==
    ASSUME Inv, SchedulerRun
    PROVE  /\ \A t \in Slots : Undisturbed(t)
           /\ next_pid' = next_pid
<1>1. CASE SchedulerKeep
  BY <1>1, TableUndisturbed DEF SchedulerKeep, procVars, schedVars
<1>2. CASE SchedulerSwitch
  <2>1. PICK c \in Slots :
            /\ MidState[c] = "IDLE"
            /\ pid_to_proc(IF Ready = <<>> THEN 0 ELSE Head(Ready)) = c
    BY Choice
  <2>2. Running(active_proc) <=> active_proc # NULL
    BY ActiveFacts DEF Running
  <2>3. /\ pid' = pid /\ next_pid' = next_pid
        /\ \A s \in Slots : state'[s] = IF s = c THEN "ACTIVE" ELSE MidState[s]
    <3>1. \A s \in Slots : s = active_proc => active_proc # NULL
      BY NullAssumption
    <3> QED
      BY <1>2, <2>1, <2>2, <3>1 DEF SchedulerSwitch, procVars, Ready, MidState
  <2>4. \A s \in Slots : MidState[s] = "WAITING" <=> state[s] = "WAITING"
    BY DEF MidState, Inv, Placement
  <2> QED
    BY <2>1, <2>3, <2>4 DEF Undisturbed
<1> QED
  BY <1>1, <1>2 DEF SchedulerRun

LEMMA CreateUndisturbed ==
    ASSUME Inv, KeyboardCreate
    PROVE  /\ \A t \in Slots : Undisturbed(t)
           /\ next_pid' \in {next_pid, next_pid + 1}
<1>1. CASE proc_allocator = <<>>
  BY <1>1, TableUndisturbed DEF KeyboardCreate, kproc_create, procVars, schedVars
<1>2. CASE proc_allocator # <<>>
  <2>1. PICK s \in Slots : s = Head(proc_allocator) /\ s \in Range(proc_allocator)
    BY <1>2, TailFacts DEF Inv, TypeOK, TableSound
  <2>2. pid[s] = -1 /\ state[s] = "NONE"
    BY <2>1 DEF Inv, TableSound, Live
  <2>3. /\ pid' = [pid EXCEPT ![s] = next_pid]
        /\ state' = [state EXCEPT ![s] = "IDLE"]
        /\ next_pid' = next_pid + 1
    BY <1>2, <2>1 DEF KeyboardCreate, kproc_create
  <2>4. /\ pid'[s] = next_pid /\ state'[s] = "IDLE"
        /\ \A t \in Slots : t # s => pid'[t] = pid[t] /\ state'[t] = state[t]
    BY <2>3 DEF Inv, TypeOK
  <2> QED
    BY <2>2, <2>3, <2>4 DEF Undisturbed
<1> QED
  BY <1>1, <1>2

LEMMA DestroyUndisturbed ==
    ASSUME Inv, kproc_destroy(active_proc)
    PROVE  /\ \A t \in Slots : Undisturbed(t)
           /\ next_pid' = next_pid
<1>1. CASE active_proc = NULL \/ (active_proc # NULL /\ pid[active_proc] = 0)
  BY <1>1, TableUndisturbed DEF kproc_destroy, procVars, schedVars
<1>2. CASE ~ (active_proc = NULL \/ (active_proc # NULL /\ pid[active_proc] = 0))
  <2>1. PICK s \in Slots : s = active_proc /\ state[s] = "ACTIVE" /\ s \in Live
    BY <1>2, ActiveFacts
  <2>2. proc_to_entry(s) = s
    BY <2>1, ProcToEntry DEF Inv
  <2>3. /\ pid' = [pid EXCEPT ![s] = -1]
        /\ state' = [state EXCEPT ![s] = "NONE"]
        /\ next_pid' = next_pid
    BY <1>2, <2>1, <2>2 DEF kproc_destroy, Release, ClearFields
  <2>4. /\ pid'[s] = -1 /\ state'[s] = "NONE"
        /\ \A t \in Slots : t # s => pid'[t] = pid[t] /\ state'[t] = state[t]
    BY <2>3 DEF Inv, TypeOK
  <2> QED
    BY <2>1, <2>3, <2>4 DEF Undisturbed
<1> QED
  BY <1>1, <1>2

LEMMA SleepUndisturbed ==
    ASSUME Inv, NEW seconds \in Seconds, ProcSleep(seconds)
    PROVE  /\ \A t \in Slots : Undisturbed(t)
           /\ next_pid' = next_pid
<1>1. CASE seconds < 0
  BY <1>1, TableUndisturbed DEF ProcSleep, procVars, schedVars
<1>2. CASE ~ (seconds < 0)
  <2>1. PICK s \in Slots : s = active_proc /\ state[s] = "ACTIVE"
    BY ActiveFacts DEF ProcSleep, Caller
  <2>2. state' = [state EXCEPT ![s] = "SLEEPING"] /\ pid' = pid /\ next_pid' = next_pid
    BY <1>2, <2>1 DEF ProcSleep, procVars
  <2> QED
    BY <2>1, <2>2, StateUndisturbed
<1> QED
  BY <1>1, <1>2

\* Creation, the end of the active process, sleep and every step of the kernel
\* itself leave the processes that wait as they are; process ids are not used
\* again.
LEMMA WorkFacts ==
    ASSUME Inv, ProcEntry \/ KernelWork
    PROVE  /\ PidsOf("WAITING")' = PidsOf("WAITING")
           /\ next_pid \in Nat /\ next_pid' \in {next_pid, next_pid + 1}
           /\ next_pid' # next_pid => next_pid < MaxPid
           /\ \A s \in Live' : \/ s \in Live /\ pid'[s] = pid[s]
                               \/ pid'[s] = next_pid /\ next_pid' = next_pid + 1
           /\ \A s \in Live : \/ s \in Live' /\ pid'[s] = pid[s]
                              \/ s = active_proc /\ pid'[s] = -1
<1>1. /\ \A t \in Slots : Undisturbed(t)
      /\ next_pid' \in {next_pid, next_pid + 1}
      /\ next_pid' # next_pid => next_pid < MaxPid
  <2>1. CASE KernelWork
    BY <2>1, TimerUndisturbed, SchedulerUndisturbed DEF KernelWork, KernelStep
  <2>2. CASE KeyboardCreate
    BY <2>2, CreateUndisturbed DEF KeyboardCreate
  <2>3. CASE KeyboardDestroy \/ ProcExit
    BY <2>3, DestroyUndisturbed DEF KeyboardDestroy, ProcExit
  <2>4. CASE \E seconds \in Seconds : ProcSleep(seconds)
    BY <2>4, SleepUndisturbed
  <2>5. CASE OtherEntry
    BY <2>5, TableUndisturbed DEF OtherEntry, procVars, schedVars
  <2> QED
    BY <2>1, <2>2, <2>3, <2>4, <2>5 DEF ProcEntry
<1>2. \A s \in Slots : s \in Live <=> pid[s] # -1
  BY DEF Live
<1>3. \A s : s \in Live' <=> s \in Slots /\ pid'[s] # -1
  BY DEF Live
<1>4. \A s : s \in Live <=> s \in Slots /\ pid[s] # -1
  BY DEF Live
<1>5. \A s \in Slots : state[s] = "WAITING" => s \in Live
  BY DEF Inv, TableSound
<1>6. /\ \A s \in Slots : /\ state'[s] = "WAITING" <=> state[s] = "WAITING"
                          /\ state[s] = "WAITING" => pid'[s] = pid[s]
  BY <1>1 DEF Undisturbed
<1>7. PidsOf("WAITING")' = PidsOf("WAITING")
  <2>1. \A s : s \in Live' /\ state'[s] = "WAITING" <=> s \in Live /\ state[s] = "WAITING"
    BY <1>3, <1>4, <1>5, <1>6
  <2>2. \A s \in Live : state[s] = "WAITING" => pid'[s] = pid[s]
    BY <1>4, <1>6
  <2> QED
    BY <2>1, <2>2 DEF PidsOf
<1>8. next_pid \in Nat
  BY DEF Inv, TypeOK
<1>9. \A s \in Live' : \/ s \in Live /\ pid'[s] = pid[s]
                       \/ pid'[s] = next_pid /\ next_pid' = next_pid + 1
  BY <1>1, <1>3, <1>4 DEF Undisturbed
<1>10. \A s \in Live : \/ s \in Live' /\ pid'[s] = pid[s]
                       \/ s = active_proc /\ pid'[s] = -1
  BY <1>1, <1>3, <1>4 DEF Undisturbed
<1> QED
  BY <1>1, <1>7, <1>8, <1>9, <1>10

-----------------------------------------------------------------------------
(* Queues of processes that wait                                           *)

\* The processes of W are those in the queues q[m], each in one and once.
Placed(W, M, q) ==
    /\ \A p \in W : \E m \in M : p \in Range(q[m])
    /\ \A m \in M :
          /\ IsInjective(q[m])
          /\ Range(q[m]) \subseteq W
          /\ \A n \in M \ {m} : Range(q[m]) \cap Range(q[n]) = {}

\* The queues after p joined q[m], and after the first of q[m] left.
Joined(q, m, p) == [q EXCEPT ![m] = Append(@, p)]
Shortened(q, m) == [q EXCEPT ![m] = Tail(@)]

\* What that makes of them.
Grew(M, q, m, p, r) ==
    /\ r \in [M -> Seq(Nat)]
    /\ r[m] = Append(q[m], p)
    /\ Range(r[m]) = Range(q[m]) \cup {p}
    /\ Len(r[m]) = Len(q[m]) + 1
    /\ \A n \in M \ {m} : r[n] = q[n]
Shrank(M, q, m, r) ==
    /\ r \in [M -> Seq(Nat)]
    /\ r[m] = Tail(q[m])
    /\ Len(r[m]) = Len(q[m]) - 1
    /\ \A n \in M : Range(r[n]) = Range(q[n]) \ {Head(q[m])}
    /\ \A n \in M \ {m} : r[n] = q[n]

\* One queue is longer by one process, and the others are as they were.
LEMMA JoinedFacts ==
    ASSUME NEW M, NEW q \in [M -> Seq(Nat)], NEW m \in M, NEW p \in Nat
    PROVE  Grew(M, q, m, p, Joined(q, m, p))
<1>1. q[m] \in Seq(Nat)
  OBVIOUS
<1>2. /\ Append(q[m], p) \in Seq(Nat)
      /\ Range(Append(q[m], p)) = Range(q[m]) \cup {p}
  BY <1>1, AppendFacts
<1>3. Len(Append(q[m], p)) = Len(q[m]) + 1
  BY <1>1
<1> QED
  BY <1>2, <1>3 DEF Joined, Grew

\* A process that waits in no queue is put into one of them.
LEMMA JoinQueue ==
    ASSUME NEW W, NEW M, NEW q \in [M -> Seq(Nat)], Placed(W, M, q),
           NEW m \in M, NEW p \in Nat, p \notin W
    PROVE  Placed(W \cup {p}, M, Joined(q, m, p))
<1> DEFINE r == Joined(q, m, p)
<1>1. /\ q[m] \in Seq(Nat) /\ IsInjective(q[m])
      /\ \A n \in M : p \notin Range(q[n])
  BY DEF Placed
<1>2. /\ r[m] = Append(q[m], p)
      /\ Range(r[m]) = Range(q[m]) \cup {p}
      /\ \A n \in M \ {m} : r[n] = q[n]
  <2>1. Grew(M, q, m, p, r)
    BY JoinedFacts, Zenon
  <2> QED
    BY <2>1 DEF Grew
<1> HIDE DEF r
<1>3. \A n \in M : /\ Range(r[n]) = IF n = m THEN Range(q[n]) \cup {p} ELSE Range(q[n])
                   /\ IsInjective(r[n])
  <2>1. IsInjective(Append(q[m], p))
    BY <1>1, AppendFacts
  <2> QED
    BY <1>2, <2>1 DEF Placed
<1>4. ASSUME NEW x \in W \cup {p} PROVE \E n \in M : x \in Range(r[n])
  BY <1>3, <1>4 DEF Placed
<1>5. ASSUME NEW n \in M PROVE Range(r[n]) \subseteq W \cup {p}
  BY <1>3, <1>5 DEF Placed
<1>6. ASSUME NEW n \in M, NEW k \in M \ {n} PROVE Range(r[n]) \cap Range(r[k]) = {}
  <2>1. k \in M /\ k # n /\ Range(q[n]) \cap Range(q[k]) = {}
    BY <1>6 DEF Placed
  <2>2. n = m => Range(r[n]) = Range(q[n]) \cup {p} /\ Range(r[k]) = Range(q[k])
    BY <1>3, <2>1
  <2>3. n # m => Range(r[n]) = Range(q[n]) /\ Range(r[k]) \subseteq Range(q[k]) \cup {p}
    BY <1>3, <2>1
  <2> QED
    BY <1>1, <2>1, <2>2, <2>3
<1> QED
  BY <1>3, <1>4, <1>5, <1>6 DEF Placed, r

\* The first process of a queue waits.
LEMMA FirstWaits ==
    ASSUME NEW W, NEW M, NEW q \in [M -> Seq(Nat)], Placed(W, M, q),
           NEW m \in M, q[m] # <<>>
    PROVE  Head(q[m]) \in W /\ Head(q[m]) \in Range(q[m])
<1>1. q[m] \in Seq(Nat) /\ IsInjective(q[m]) /\ Range(q[m]) \subseteq W
  BY DEF Placed
<1> QED
  BY <1>1, TailFacts

\* The first process of a queue is in no other, so no queue has it any more.
LEMMA ShortenedFacts ==
    ASSUME NEW W, NEW M, NEW q \in [M -> Seq(Nat)], Placed(W, M, q),
           NEW m \in M, q[m] # <<>>
    PROVE  Shrank(M, q, m, Shortened(q, m))
<1>1. /\ q[m] \in Seq(Nat) /\ IsInjective(q[m])
      /\ \A n \in M \ {m} : Range(q[m]) \cap Range(q[n]) = {}
  BY DEF Placed
<1>2. /\ Tail(q[m]) \in Seq(Nat) /\ Len(Tail(q[m])) = Len(q[m]) - 1
      /\ Head(q[m]) \in Range(q[m])
      /\ Range(Tail(q[m])) = Range(q[m]) \ {Head(q[m])}
  BY <1>1, TailFacts
<1>3. \A n \in M \ {m} : Range(q[n]) = Range(q[n]) \ {Head(q[m])}
  BY <1>1, <1>2
<1>4. /\ Shortened(q, m) \in [M -> Seq(Nat)]
      /\ Shortened(q, m)[m] = Tail(q[m])
      /\ \A n \in M \ {m} : Shortened(q, m)[n] = q[n]
  BY <1>1, <1>2 DEF Shortened
<1> QED
  BY <1>2, <1>3, <1>4 DEF Shrank

\* The first process of a queue leaves it.
LEMMA LeaveQueue ==
    ASSUME NEW W, NEW M, NEW q \in [M -> Seq(Nat)], Placed(W, M, q),
           NEW m \in M, q[m] # <<>>
    PROVE  Placed(W \ {Head(q[m])}, M, Shortened(q, m))
<1> DEFINE p == Head(q[m])
           r == Shortened(q, m)
<1>1. q[m] \in Seq(Nat) /\ IsInjective(q[m])
  BY DEF Placed
<1>2. /\ r[m] = Tail(q[m])
      /\ \A n \in M \ {m} : r[n] = q[n]
      /\ \A n \in M : Range(r[n]) = Range(q[n]) \ {p}
  <2>1. Shrank(M, q, m, r)
    BY ShortenedFacts, Zenon
  <2> QED
    BY <2>1 DEF Shrank
<1>3. p \in Range(q[m]) /\ IsInjective(Tail(q[m]))
  BY <1>1, TailFacts
<1> HIDE DEF r, p
<1>4. \A n \in M : IsInjective(r[n])
  BY <1>2, <1>3 DEF Placed
<1>5. ASSUME NEW x \in W \ {p} PROVE \E n \in M : x \in Range(r[n])
  BY <1>2, <1>5 DEF Placed
<1>6. ASSUME NEW n \in M PROVE Range(r[n]) \subseteq W \ {p}
  BY <1>2, <1>6 DEF Placed
<1>7. ASSUME NEW n \in M, NEW k \in M \ {n} PROVE Range(r[n]) \cap Range(r[k]) = {}
  <2>1. k \in M /\ Range(q[n]) \cap Range(q[k]) = {}
    BY <1>7 DEF Placed
  <2>2. Range(r[n]) \subseteq Range(q[n]) /\ Range(r[k]) \subseteq Range(q[k])
    BY <1>2, <2>1
  <2> QED
    BY <2>1, <2>2
<1> QED
  BY <1>4, <1>5, <1>6, <1>7 DEF Placed, r, p

\* The active process finds room in every queue of processes that wait.
LEMMA RoomToWait ==
    ASSUME Inv, active_proc # NULL, NEW q \in Seq(Nat), IsInjective(q),
           Range(q) \subseteq PidsOf("WAITING")
    PROVE  ~ queue_is_full(q)
<1>1. active_proc \in Slots /\ state[active_proc] = "ACTIVE"
  BY ActiveFacts
<1>2. PidsOf("WAITING") \subseteq {pid[t] : t \in Slots \ {active_proc}}
  BY <1>1 DEF PidsOf, Live
<1> QED
  BY <1>1, <1>2, Room

\* Blocking adds the active process to those that wait.
LEMMA BlockFacts ==
    ASSUME Inv, Block
    PROVE  /\ PidsOf("WAITING")' = PidsOf("WAITING") \cup {pid[active_proc]}
           /\ pid[active_proc] \notin PidsOf("WAITING")
           /\ pid' = pid /\ next_pid' = next_pid /\ Live' = Live
<1>1. PICK s \in Live : s = active_proc /\ state[s] = "ACTIVE"
  BY ActiveFacts DEF Block, Caller
<1>2. /\ pid' = pid /\ next_pid' = next_pid
      /\ state' = [state EXCEPT ![s] = "WAITING"]
  BY <1>1 DEF Block, procVars
<1>3. "WAITING" \in States \ {"NONE"} /\ "WAITING" # "ACTIVE"
  BY DEF States
<1>4. Live' = Live /\ PidsOf("WAITING")' = PidsOf("WAITING") \cup {pid[s]}
  BY <1>1, <1>2, <1>3, Moves, ZenonT(30)
<1>5. pid[s] \notin PidsOf("WAITING")
  <2>1. \A t \in Live : pid[t] = pid[s] => t = s
    BY DEF Inv, TableSound
  <2> QED
    BY <1>1, <1>3, <2>1 DEF PidsOf
<1> QED
  BY <1>1, <1>2, <1>4, <1>5

\* To wake a process that waits by its process id is a step of KProc: the
\* process is found, and it becomes ready without a panic.
LEMMA WakeFacts ==
    ASSUME Inv, NEW p \in PidsOf("WAITING"), WakePid(p)
    PROVE  /\ \E s \in Live : pid[s] = p /\ pid_to_proc(p) = s /\ Unblock(s)
           /\ PidsOf("WAITING")' = PidsOf("WAITING") \ {p}
           /\ pid' = pid /\ next_pid' = next_pid /\ Live' = Live
<1>1. PICK s \in Live : pid[s] = p /\ state[s] = "WAITING"
  BY DEF PidsOf
<1>2. s \in Slots /\ s # NULL /\ pid_to_proc(p) = s
  BY <1>1, PidToProc, NullAssumption DEF Inv, Live
<1>3. Unblock(s)
  BY <1>1, <1>2 DEF WakePid, Unblock
<1>4. pid' = pid /\ next_pid' = next_pid /\ state' = [state EXCEPT ![s] = "IDLE"]
  BY <1>3 DEF Unblock, WakeUp, procVars
<1>5. "IDLE" \in States \ {"NONE"} /\ "IDLE" # "WAITING"
  BY DEF States
<1>6. Live' = Live /\ PidsOf("WAITING")' = PidsOf("WAITING") \ {pid[s]}
  BY <1>1, <1>4, <1>5, Moves, ZenonT(30)
<1> QED
  BY <1>1, <1>2, <1>3, <1>4, <1>6

-----------------------------------------------------------------------------
(* The theorems                                                            *)

LEMMA InitInv == Init => Inv
<1> SUFFICES ASSUME Init PROVE Inv
  OBVIOUS
<1> USE DEF Init
<1>1. BootProcs \in Nat /\ BootProcs >= 1 /\ BootProcs <= ProcMax /\ ProcMax \in Nat
  BY BootProcsAssumption, ProcMaxAssumption
<1>2. TypeOK
  <2>1. proc_allocator \in Seq(Slots)
    BY <1>1 DEF Slots
  <2>2. run_queue \in Seq(Nat)
    BY <1>1
  <2>3. /\ pid \in [Slots -> Int] /\ state \in [Slots -> States]
        /\ cpu_time \in [Slots -> Int]
    BY DEF Slots, States
  <2>4. sleep_time \in [Slots -> IntMin .. IntMax]
    BY IntAssumption
  <2> QED
    BY <1>1, <2>1, <2>2, <2>3, <2>4 DEF TypeOK, Phases
<1> DEFINE Booted == 0 .. BootProcs - 1
<1>3. /\ Booted \subseteq Slots /\ 0 \in Booted
      /\ \A s \in Slots : s \in Booted <=> s < BootProcs
      /\ \A s \in Slots \ Booted : s \in BootProcs .. ProcMax - 1
      /\ \A s \in BootProcs .. ProcMax - 1 : s \in Slots \ Booted
  BY <1>1 DEF Slots
<1>4. /\ next_pid = BootProcs
      /\ proc_allocator = [i \in 1 .. ProcMax - BootProcs |-> BootProcs + i - 1]
      /\ run_queue = [i \in 1 .. BootProcs - 1 |-> i]
      /\ sleep_queue = <<>> /\ active_proc = NULL
      /\ phase = "user"
  OBVIOUS
<1>5. /\ \A s \in Booted : pid[s] = s /\ state[s] = "IDLE" /\ cpu_time[s] = 0
      /\ \A s \in Slots \ Booted : pid[s] = -1 /\ state[s] = "NONE" /\ cpu_time[s] = -1
  BY <1>3
<1> HIDE DEF Init
<1>6. Live = Booted
  <2>1. \A s \in Booted : s # -1
    BY <1>1
  <2> HIDE DEF Booted
  <2> QED
    BY <1>3, <1>5, <2>1 DEF Live
<1>7. TableSound
  <2>1. \A s \in Live : pid[s] \in 0 .. next_pid - 1
    BY <1>1, <1>4, <1>5, <1>6
  <2>2. pid[0] = 0
    BY <1>3, <1>5
  <2>3. IsInjective(proc_allocator)
    BY <1>1, <1>4 DEF IsInjective
  <2>4. Range(proc_allocator) = Slots \ Live
    <3>1. ASSUME NEW s \in Slots \ Live PROVE s \in Range(proc_allocator)
      <4>1. s \in BootProcs .. ProcMax - 1
        BY <1>3, <1>6
      <4>2. /\ s - BootProcs + 1 \in 1 .. ProcMax - BootProcs
            /\ proc_allocator[s - BootProcs + 1] = s
        BY <1>1, <1>4, <4>1
      <4> QED
        BY <1>4, <4>2 DEF Range
    <3>2. ASSUME NEW s \in Range(proc_allocator) PROVE s \in Slots \ Live
      <4>1. PICK i \in 1 .. ProcMax - BootProcs : s = BootProcs + i - 1
        BY <1>4 DEF Range
      <4>2. s \in BootProcs .. ProcMax - 1
        BY <1>1, <4>1
      <4> QED
        BY <1>3, <1>6, <4>2
    <3> QED
      BY <3>1, <3>2
  <2> HIDE DEF Booted
  <2>5. \A s \in Slots : s \in Live <=> state[s] # "NONE"
    BY <1>3, <1>5, <1>6
  <2>6. \A s, t \in Live : pid[s] = pid[t] => s = t
    BY <1>5, <1>6
  <2> QED
    BY <2>1, <2>2, <2>3, <2>4, <2>5, <2>6 DEF TableSound
<1>8. Placement
  <2> HIDE DEF Booted
  <2>1. PidsOf("IDLE") = Booted
    BY <1>3, <1>5, <1>6 DEF PidsOf
  <2>2. PidsOf("SLEEPING") = {} /\ PidsOf("WAITING") = {}
    BY <1>5, <1>6 DEF PidsOf
  <2>3. Range(run_queue) = Booted \ {0} /\ IsInjective(run_queue)
    <3>1. Range(run_queue) = 1 .. BootProcs - 1
      BY <1>1, <1>4 DEF Range
    <3>2. IsInjective(run_queue)
      BY <1>1, <1>4 DEF IsInjective
    <3>3. 1 .. BootProcs - 1 = Booted \ {0}
      BY <1>1 DEF Booted
    <3> QED
      BY <3>1, <3>2, <3>3
  <2>4. Range(sleep_queue) = {} /\ IsInjective(sleep_queue)
    BY <1>4 DEF Range, IsInjective
  <2>5. \A s \in Slots : state[s] = "ACTIVE" <=> s = active_proc
    BY <1>3, <1>4, <1>5, NullAssumption
  <2> QED
    BY <2>1, <2>2, <2>3, <2>4, <2>5 DEF Placement
<1>9. NoPanic /\ SliceRespected
  <2>1. \A s \in Slots : \/ cpu_time[s] = 0
                         \/ cpu_time[s] = -1 /\ state[s] = "NONE"
    BY <1>5
  <2> HIDE DEF Booted
  <2> QED
    BY <1>4, <2>1, TimeSliceAssumption DEF NoPanic, SliceRespected
<1> QED
  BY <1>2, <1>7, <1>8, <1>9 DEF Inv

LEMMA NextInv == Inv /\ [Next]_vars => Inv'
<1> SUFFICES ASSUME Inv, [Next]_vars PROVE Inv'
  OBVIOUS
<1>1. CASE KeyboardCreate
  BY <1>1, KeyboardCreateInv
<1>2. CASE KeyboardDestroy \/ ProcExit
  BY <1>2, DestroyInv DEF KeyboardDestroy, ProcExit, Handler
<1>3. CASE \E seconds \in Seconds : ProcSleep(seconds)
  BY <1>3, ProcSleepInv
<1>4. CASE Block
  BY <1>4, BlockInv
<1>5. CASE \E s \in Slots : Unblock(s)
  BY <1>5, UnblockInv
<1>6. CASE OtherEntry
  BY <1>6, NothingMoves DEF OtherEntry, Handler, Phases, Inv, TypeOK
<1>7. CASE (TimerTick \/ KernelStep) /\ UNCHANGED proc_allocator
  BY <1>7, TimerTickInv, TimerWakeInv, TimerCountDownInv, TimerDoneInv,
     SchedulerKeepInv, SchedulerSwitchInv
  DEF KernelStep, SchedulerRun
<1>8. CASE UNCHANGED vars
  <2>1. Live' = Live /\ \A st : PidsOf(st)' = PidsOf(st)
    BY <1>8 DEF Live, PidsOf, vars, procVars, schedVars
  <2>2. TypeOK' /\ NoPanic' /\ SliceRespected'
    BY <1>8 DEF Inv, TypeOK, NoPanic, SliceRespected, vars, procVars, schedVars, kernelVars
  <2>3. TableSound' /\ Placement'
    BY <1>8, <2>1 DEF Inv, TableSound, Placement, vars, procVars, schedVars, kernelVars
  <2> QED
    BY <2>2, <2>3 DEF Inv
<1> QED
  BY <1>1, <1>2, <1>3, <1>4, <1>5, <1>6, <1>7, <1>8 DEF Next, ProcEntry, SyncEntry, KernelWork

(***************************************************************************)
(* The invariant that the theorems below take their parts from holds in    *)
(* every reachable state, for every number of processes and table size.    *)
(***************************************************************************)
THEOREM Safety == Spec => []Inv
BY InitInv, NextInv, PTL DEF Spec

(***************************************************************************)
(* The variables keep their types; sleep_time keeps the width of an int.   *)
(***************************************************************************)
THEOREM TypeCorrect == Spec => []TypeOK
<1>1. Inv => TypeOK
  BY DEF Inv
<1> QED
  BY <1>1, Safety, PTL

(***************************************************************************)
(* kproc_create and kproc_destroy never leak a table entry, never hand one *)
(* out twice and never give two processes the same id.                     *)
(***************************************************************************)
THEOREM TableCorrect == Spec => []TableSound
<1>1. Inv => TableSound
  BY DEF Inv
<1> QED
  BY <1>1, Safety, PTL

(***************************************************************************)
(* Each process is in exactly the queue that its state says, once.         *)
(***************************************************************************)
THEOREM PlacementCorrect == Spec => []Placement
<1>1. Inv => Placement
  BY DEF Inv
<1> QED
  BY <1>1, Safety, PTL

(***************************************************************************)
(* The run queue always has room and scheduler_run always finds a process: *)
(* PROC_MAX <= QUEUE_SIZE is all it takes to keep the kernel from its      *)
(* panics.                                                                 *)
(***************************************************************************)
THEOREM NeverPanics == Spec => []NoPanic
<1>1. Inv => NoPanic
  BY DEF Inv
<1> QED
  BY <1>1, Safety, PTL

(***************************************************************************)
(* No process runs past its slice, and each ready one will get a whole one.*)
(***************************************************************************)
THEOREM SlicesCorrect == Spec => []SliceRespected
<1>1. Inv => SliceRespected
  BY DEF Inv
<1> QED
  BY <1>1, Safety, PTL

-----------------------------------------------------------------------------
(* The order of the run queue                                              *)

\* What is left of the slice of the active process.
CpuLeft == IF active_proc = NULL THEN 0 ELSE TimeSlice - cpu_time[active_proc]

\* The tick that WaitBound counts.
CpuTick == phase' = "timer" /\ phase = "user" /\ active_proc # NULL

QueueStays ==
    /\ run_queue' = run_queue
    /\ CpuLeft' <= CpuLeft
    /\ CpuTick => CpuLeft' < CpuLeft

QueueGrows ==
    /\ \E p \in Nat : run_queue' = Append(run_queue, p)
    /\ CpuLeft' <= CpuLeft
    /\ ~CpuTick

\* The first process leaves, after the active one was added or not.
QueueAdvances ==
    /\ \/ run_queue' = Tail(run_queue)
       \/ \E p \in Nat : run_queue' = Tail(Append(run_queue, p))
    /\ run_queue[1] \notin Range(run_queue')
    /\ CpuLeft = 0 /\ CpuLeft' = TimeSlice
    /\ ~CpuTick

LEMMA CpuLeftFacts ==
    ASSUME Inv
    PROVE  CpuLeft \in Nat
<1>1. CASE active_proc = NULL
  BY <1>1 DEF CpuLeft
<1>2. CASE active_proc # NULL
  <2>1. /\ cpu_time[active_proc] \in Int /\ cpu_time[active_proc] <= TimeSlice
    BY <1>2, ActiveFacts DEF Inv, TypeOK, SliceRespected
  <2> QED
    BY <1>2, <2>1, TimeSliceAssumption DEF CpuLeft
<1> QED
  BY <1>1, <1>2

\* A process that is not active becomes ready: the active one keeps its slice.
LEMMA GrowsFacts ==
    ASSUME Inv, NEW s \in Slots, s # active_proc, NEW p \in Nat,
           run_queue' = Append(run_queue, p), active_proc' = active_proc,
           cpu_time' = [cpu_time EXCEPT ![s] = 0],
           phase # "user" \/ phase' # "timer"
    PROVE  QueueGrows
<1>1. CpuLeft' = CpuLeft
  BY ActiveFacts DEF CpuLeft, Inv, TypeOK
<1>2. CpuLeft \in Nat
  BY CpuLeftFacts
<1>3. ~CpuTick
  BY DEF CpuTick
<1>4. CpuLeft' <= CpuLeft
  BY <1>1, <1>2
<1> QED
  BY <1>3, <1>4 DEF QueueGrows

\* The run queue stays, and the active process, if it stays, keeps its slice.
LEMMA StaysFacts ==
    ASSUME Inv, run_queue' = run_queue,
           active_proc' = NULL \/ UNCHANGED <<active_proc, cpu_time>>,
           phase # "user" \/ phase' # "timer"
    PROVE  QueueStays
<1>1. CpuLeft' \in {0, CpuLeft}
  BY DEF CpuLeft
<1>2. CpuLeft \in Nat
  BY CpuLeftFacts
<1>3. CpuLeft' <= CpuLeft
  BY <1>1, <1>2
<1>4. ~CpuTick
  BY DEF CpuTick
<1> QED
  BY <1>3, <1>4 DEF QueueStays

LEMMA SwitchFacts ==
    ASSUME Inv, SchedulerSwitch, run_queue # <<>>
    PROVE  QueueAdvances
<1>1. Running(active_proc) <=> active_proc # NULL
  BY ActiveFacts DEF Running
<1>2. run_queue \in Seq(Nat) /\ state \in [Slots -> States] /\ cpu_time \in [Slots -> Int]
  BY DEF Inv, TypeOK
<1>3. Ready \in {run_queue} \cup {Append(run_queue, p) : p \in Nat}
  <2>1. CASE active_proc = NULL
    BY <2>1 DEF Ready
  <2>2. CASE active_proc # NULL /\ pid[active_proc] = 0
    BY <2>2 DEF Ready, scheduler_add
  <2>3. CASE active_proc # NULL /\ pid[active_proc] # 0
    BY <2>3, ActiveFacts, BecomesReady DEF Ready
  <2> QED
    BY <2>1, <2>2, <2>3
<1>4. Ready # <<>>
  BY <1>2, <1>3
<1>5. PICK c \in Slots : c # NULL /\ MidState[c] = "IDLE" /\ pid_to_proc(Head(Ready)) = c
  BY <1>4, Choice
<1>6. /\ run_queue' = Tail(Ready)
      /\ active_proc' = c
      /\ cpu_time' = [s \in Slots |-> IF Running(active_proc) /\ s = active_proc THEN 0 ELSE cpu_time[s]]
      /\ phase = "sched"
      /\ active_proc # NULL => cpu_time[active_proc] >= TimeSlice
  <2>1. \A s \in Slots : s \in (IF Running(active_proc) THEN {active_proc} ELSE {})
                            <=> Running(active_proc) /\ s = active_proc
    OBVIOUS
  <2> QED
    BY <1>1, <1>4, <1>5, <2>1 DEF SchedulerSwitch, Ready, SliceOver
<1>7. CpuLeft = 0
  <2>1. active_proc # NULL => cpu_time[active_proc] <= TimeSlice /\ cpu_time[active_proc] \in Int
    BY <1>2, ActiveFacts DEF Inv, SliceRespected
  <2> QED
    BY <1>6, <2>1, TimeSliceAssumption DEF CpuLeft
<1>8. cpu_time'[c] = 0
  <2>1. CASE c = active_proc
    BY <1>1, <1>5, <1>6, <2>1
  <2>2. CASE c # active_proc
    BY <1>5, <1>6, <2>2 DEF MidState, Inv, SliceRespected
  <2> QED
    BY <2>1, <2>2
<1>9. CpuLeft' = TimeSlice
  BY <1>5, <1>6, <1>8, TimeSliceAssumption DEF CpuLeft
<1>10. ~CpuTick
  BY <1>6 DEF CpuTick
<1>11. run_queue[1] \notin Range(run_queue')
  <2>1. Head(Ready) = run_queue[1]
    BY <1>2, <1>3
  <2>2. Range(Tail(Ready)) = Range(Ready) \ {Head(Ready)}
    BY <1>4, ReadyFacts, TailFacts
  <2> QED
    BY <1>6, <2>1, <2>2
<1> QED
  BY <1>3, <1>6, <1>7, <1>9, <1>10, <1>11 DEF QueueAdvances

LEMMA CreateQueue ==
    ASSUME Inv, KeyboardCreate
    PROVE  QueueStays \/ QueueGrows
<1>1. CASE proc_allocator = <<>>
  BY <1>1, StaysFacts DEF KeyboardCreate, kproc_create, schedVars
<1>2. CASE proc_allocator # <<>>
  <2>1. PICK s \in Slots : s = Head(proc_allocator) /\ s \in Range(proc_allocator)
    BY <1>2, TailFacts DEF Inv, TypeOK, TableSound
  <2>2. s # active_proc
    BY <2>1, ActiveFacts, NullAssumption DEF Inv, TableSound
  <2>3. /\ cpu_time' = [cpu_time EXCEPT ![s] = 0]
        /\ run_queue' = scheduler_add(run_queue, next_pid)
        /\ active_proc' = active_proc /\ phase' # "timer"
    BY <1>2, <2>1 DEF KeyboardCreate, kproc_create
  <2>4. next_pid \in Nat
    BY DEF Inv, TypeOK
  <2>5. CASE run_queue' = Append(run_queue, next_pid)
    BY <2>1, <2>2, <2>3, <2>4, <2>5, GrowsFacts
  <2>6. CASE run_queue' = run_queue
    <3>1. CpuLeft' = CpuLeft
      BY <2>2, <2>3, ActiveFacts DEF CpuLeft, Inv, TypeOK
    <3>2. CpuLeft \in Nat /\ ~CpuTick
      BY <2>3, CpuLeftFacts DEF CpuTick
    <3>3. CpuLeft' <= CpuLeft
      BY <3>1, <3>2
    <3> QED
      BY <2>6, <3>2, <3>3 DEF QueueStays
  <2> QED
    BY <2>3, <2>5, <2>6 DEF scheduler_add, queue_in
<1> QED
  BY <1>1, <1>2

LEMMA HandlerQueue ==
    ASSUME Inv,
           \/ Handler /\ kproc_destroy(active_proc)
           \/ \E seconds \in Seconds : ProcSleep(seconds)
           \/ Block \/ OtherEntry
    PROVE  QueueStays
<1>1. phase' = "sched"
  BY DEF Handler, ProcSleep, Block, OtherEntry
<1>2. CASE UNCHANGED schedVars
  BY <1>1, <1>2, StaysFacts DEF schedVars
<1>3. CASE active_proc # NULL /\ scheduler_remove(active_proc)
  BY <1>1, <1>3, RemoveActive, StaysFacts
<1> QED
  BY <1>2, <1>3 DEF kproc_destroy, ProcSleep, Block, OtherEntry, Caller

LEMMA UnblockQueue ==
    ASSUME Inv, NEW s \in Slots, Unblock(s)
    PROVE  QueueGrows
<1>1. s \in Live /\ state[s] = "WAITING"
  BY DEF Unblock, Inv, TableSound
<1>2. pid[s] # 0 /\ pid[s] \in Nat
  BY <1>1, Queued
<1>3. /\ run_queue' = Append(run_queue, pid[s]) /\ active_proc' = active_proc
      /\ cpu_time' = [cpu_time EXCEPT ![s] = 0] /\ phase' = "sched"
  BY <1>1, <1>2, BecomesReady DEF Unblock, WakeUp
<1>4. s # active_proc
  BY <1>1, ActiveFacts, NullAssumption
<1> QED
  BY <1>2, <1>3, <1>4, GrowsFacts

LEMMA TimerQueue ==
    ASSUME Inv, TimerTick \/ TimerWake \/ TimerCountDown \/ TimerDone
    PROVE  QueueStays \/ QueueGrows
<1>1. CASE TimerTick
  <2>1. /\ run_queue' = run_queue /\ active_proc' = active_proc
        /\ active_proc # NULL => cpu_time'[active_proc] = cpu_time[active_proc] + 1
    BY <1>1, ActiveFacts DEF TimerTick
  <2>2. active_proc # NULL => cpu_time[active_proc] \in Int
    BY ActiveFacts DEF Inv, TypeOK
  <2>3. CpuLeft' <= CpuLeft /\ (CpuTick => CpuLeft' < CpuLeft)
    BY <2>1, <2>2, TimeSliceAssumption DEF CpuLeft, CpuTick
  <2> QED
    BY <2>1, <2>3 DEF QueueStays
<1>2. CASE TimerWake
  <2>1. sleep_queue # <<>> /\ phase = "timer"
    BY <1>2 DEF TimerWake, ScanGoesOn, Inv, TypeOK
  <2>2. PICK s \in Live : /\ pid[s] = Head(sleep_queue) /\ state[s] = "SLEEPING"
                          /\ pid_to_proc(Head(sleep_queue)) = s /\ s \in Slots
                          /\ Head(sleep_queue) # 0
    BY <2>1, FirstSleeper
  <2>3. pid[s] \in Nat /\ pid[s] # 0
    BY <2>2, Queued
  <2>4. /\ run_queue' = Append(run_queue, pid[s]) /\ active_proc' = active_proc
        /\ cpu_time' = [cpu_time EXCEPT ![s] = 0]
    BY <1>2, <2>2, <2>3, BecomesReady DEF TimerWake
  <2>5. s # active_proc
    BY <2>2, ActiveFacts, NullAssumption
  <2> QED
    BY <2>1, <2>2, <2>3, <2>4, <2>5, GrowsFacts
<1>3. CASE TimerCountDown \/ TimerDone
  BY <1>3, StaysFacts DEF TimerCountDown, TimerDone, schedVars
<1> QED
  BY <1>1, <1>2, <1>3

\* All that a step of the kernel does to a run queue that holds processes.
LEMMA QueueStep ==
    ASSUME Inv, [Next]_vars, run_queue # <<>>
    PROVE  QueueStays \/ QueueGrows \/ QueueAdvances
<1>1. CASE KeyboardCreate
  BY <1>1, CreateQueue
<1>2. CASE \/ Handler /\ kproc_destroy(active_proc)
           \/ \E seconds \in Seconds : ProcSleep(seconds)
           \/ Block \/ OtherEntry
  BY <1>2, HandlerQueue
<1>3. CASE \E s \in Slots : Unblock(s)
  BY <1>3, UnblockQueue
<1>4. CASE TimerTick \/ TimerWake \/ TimerCountDown \/ TimerDone
  BY <1>4, TimerQueue
<1>5. CASE SchedulerKeep \/ UNCHANGED vars
  BY <1>5, StaysFacts DEF SchedulerKeep, vars, schedVars, kernelVars
<1>6. CASE SchedulerSwitch
  BY <1>6, SwitchFacts
<1> QED
  BY <1>1, <1>2, <1>3, <1>4, <1>5, <1>6
  DEF Next, ProcEntry, SyncEntry, KernelWork, KernelStep, SchedulerRun, KeyboardDestroy, ProcExit

\* Who is where after a step of the queue.
LEMMA PlacesFacts ==
    ASSUME NEW q \in Seq(Nat), NEW p \in Nat
    PROVE  /\ Append(q, p) \in Seq(Nat) /\ Len(Append(q, p)) = Len(q) + 1
           /\ \A i \in 1 .. Len(q) : Append(q, p)[i] = q[i]
           /\ q # <<>> => /\ Len(Tail(q)) = Len(q) - 1 /\ Tail(q) \in Seq(Nat)
                          /\ \A i \in 1 .. Len(q) - 1 : Tail(q)[i] = q[i + 1]
BY AppendProperties, HeadTailProperties

\* The processes of the queue move up together, by d places.
MoveUp(d) ==
    \A i \in 1 .. Len(run_queue) : i - d >= 1 =>
       i - d \in 1 .. Len(run_queue') /\ run_queue'[i - d] = run_queue[i]

LEMMA MoveUpFacts ==
    ASSUME Inv, run_queue # <<>>
    PROVE  /\ QueueStays \/ QueueGrows => MoveUp(0)
           /\ QueueAdvances => MoveUp(1)
<1>1. run_queue \in Seq(Nat) /\ Len(run_queue) \in Nat \ {0}
  BY DEF Inv, TypeOK
<1>2. ASSUME run_queue' = run_queue PROVE MoveUp(0)
  BY <1>1, <1>2 DEF MoveUp
<1>3. ASSUME NEW p \in Nat, run_queue' = Append(run_queue, p)
      PROVE  MoveUp(0)
  <2>1. /\ Len(run_queue') = Len(run_queue) + 1
        /\ \A i \in 1 .. Len(run_queue) : run_queue'[i] = run_queue[i]
    BY <1>1, <1>3, PlacesFacts
  <2> QED
    BY <1>1, <2>1 DEF MoveUp
<1>4. ASSUME run_queue' = Tail(run_queue) PROVE MoveUp(1)
  <2>1. /\ Len(run_queue') = Len(run_queue) - 1
        /\ \A i \in 1 .. Len(run_queue) - 1 : run_queue'[i] = run_queue[i + 1]
    BY <1>1, <1>4, PlacesFacts
  <2>2. \A i \in 1 .. Len(run_queue) : i - 1 >= 1 => i - 1 \in 1 .. Len(run_queue) - 1 /\ (i - 1) + 1 = i
    BY <1>1
  <2> QED
    BY <2>1, <2>2 DEF MoveUp
<1>5. ASSUME NEW p \in Nat, run_queue' = Tail(Append(run_queue, p))
      PROVE  MoveUp(1)
  <2> DEFINE q == Append(run_queue, p)
  <2>1. /\ q \in Seq(Nat) /\ Len(q) = Len(run_queue) + 1 /\ q # <<>>
        /\ \A i \in 1 .. Len(run_queue) : q[i] = run_queue[i]
    BY <1>1, PlacesFacts
  <2>2. /\ Len(Tail(q)) = Len(q) - 1 /\ \A i \in 1 .. Len(q) - 1 : Tail(q)[i] = q[i + 1]
    BY <2>1, PlacesFacts
  <2>3. run_queue' = Tail(q)
    BY <1>5
  <2> HIDE DEF q
  <2>4. \A i \in 1 .. Len(run_queue) : i - 1 >= 1 => i - 1 \in 1 .. Len(run_queue) /\ (i - 1) + 1 = i
    BY <1>1
  <2> QED
    BY <1>1, <2>1, <2>2, <2>3, <2>4 DEF MoveUp
<1>6. QueueStays => MoveUp(0)
  BY <1>1, <1>2 DEF QueueStays
<1>7. QueueGrows => MoveUp(0)
  BY <1>3 DEF QueueGrows
<1>8. QueueAdvances => MoveUp(1)
  BY <1>4, <1>5 DEF QueueAdvances
<1> QED
  BY <1>6, <1>7, <1>8

\* The places in front of process p.
LEMMA AheadCount ==
    ASSUME NEW q \in Seq(Nat), IsInjective(q), NEW k \in 1 .. Len(q)
    PROVE  Cardinality({i \in 1 .. Len(q) : \A j \in 1 .. i : q[j] # q[k]}) = k - 1
<1>1. k \in Nat /\ Len(q) \in Nat /\ \A j \in 1 .. Len(q) : q[j] = q[k] => j = k
  BY DEF IsInjective
<1>2. \A i \in 1 .. Len(q) : (\A j \in 1 .. i : q[j] # q[k]) <=> i \in 1 .. k - 1
  <2> SUFFICES ASSUME NEW i \in 1 .. Len(q)
               PROVE  (\A j \in 1 .. i : q[j] # q[k]) <=> i \in 1 .. k - 1
    OBVIOUS
  <2>1. CASE i \in 1 .. k - 1
    BY <1>1, <2>1
  <2>2. CASE i \notin 1 .. k - 1
    <3>1. k \in 1 .. i
      BY <1>1, <2>2
    <3> QED
      BY <2>2, <3>1
  <2> QED
    BY <2>1, <2>2
<1>3. {i \in 1 .. Len(q) : \A j \in 1 .. i : q[j] # q[k]} = 1 .. k - 1
  <2>1. 1 .. k - 1 \subseteq 1 .. Len(q)
    BY <1>1
  <2> QED
    BY <1>2, <2>1
<1>4. Cardinality(1 .. k - 1) = IF 1 > k - 1 THEN 0 ELSE (k - 1) - 1 + 1
  BY <1>1, FS_Interval
<1>5. (IF 1 > k - 1 THEN 0 ELSE (k - 1) - 1 + 1) = k - 1
  BY <1>1
<1> QED
  BY <1>3, <1>4, <1>5, Zenon

\* WaitBound of the process at place k.
LEMMA WaitBoundAt ==
    ASSUME Inv, NEW k \in 1 .. Len(run_queue)
    PROVE  WaitBound(run_queue[k]) = (k - 1) * TimeSlice + CpuLeft
<1>1. run_queue \in Seq(Nat) /\ IsInjective(run_queue)
  BY DEF Inv, TypeOK, Placement
<1> QED
  BY <1>1, AheadCount DEF WaitBound, CpuLeft

\* The same, in the next state.
LEMMA WaitBoundNext ==
    ASSUME Inv', NEW k \in 1 .. Len(run_queue'), NEW p, run_queue'[k] = p
    PROVE  WaitBound(p)' = (k - 1) * TimeSlice + CpuLeft'
<1>1. run_queue' \in Seq(Nat) /\ IsInjective(run_queue')
  BY DEF Inv, TypeOK, Placement
<1>2. Cardinality({i \in 1 .. Len(run_queue') : \A j \in 1 .. i : run_queue'[j] # run_queue'[k]}) = k - 1
  BY <1>1, AheadCount, Zenon
<1> QED
  BY <1>2 DEF WaitBound, CpuLeft

\* A place less to wait for is worth the slice that begins.
LEMMA OneSlice ==
    ASSUME NEW k \in Nat \ {0}
    PROVE  (k - 1) * TimeSlice \in Nat /\ ((k + 1) - 1) * TimeSlice = (k - 1) * TimeSlice + TimeSlice
BY TimeSliceAssumption

LEMMA NobodyOvertaken ==
    ASSUME Inv, [Next]_vars, NEW x, NEW y, x # y, Before(run_queue, x, y)
    PROVE  \/ Before(run_queue', x, y)
           \/ x \notin Range(run_queue') /\ x = run_queue[1]
<1>1. run_queue \in Seq(Nat) /\ Len(run_queue) \in Nat
  BY DEF Inv, TypeOK
<1>2. PICK i \in 1 .. Len(run_queue), j \in 1 .. Len(run_queue) :
         i < j /\ run_queue[i] = x /\ run_queue[j] = y
  BY DEF Before
<1>3. run_queue # <<>>
  BY <1>1, <1>2
<1>4. CASE QueueStays \/ QueueGrows
  <2>1. MoveUp(0) /\ i - 0 = i /\ j - 0 = j
    BY <1>1, <1>3, <1>4, MoveUpFacts
  <2>2. i \in 1 .. Len(run_queue') /\ j \in 1 .. Len(run_queue')
        /\ run_queue'[i] = x /\ run_queue'[j] = y
    BY <1>1, <1>2, <2>1 DEF MoveUp
  <2> QED
    BY <1>2, <2>2 DEF Before
<1>5. CASE QueueAdvances /\ i > 1
  <2>1. MoveUp(1)
    BY <1>3, <1>5, MoveUpFacts
  <2>2. i - 1 >= 1 /\ j - 1 >= 1 /\ i - 1 < j - 1
    BY <1>1, <1>2, <1>5
  <2>3. i - 1 \in 1 .. Len(run_queue') /\ j - 1 \in 1 .. Len(run_queue')
        /\ run_queue'[i - 1] = x /\ run_queue'[j - 1] = y
    BY <1>2, <2>1, <2>2 DEF MoveUp
  <2> QED
    BY <2>2, <2>3 DEF Before
<1>6. CASE QueueAdvances /\ i = 1
  BY <1>2, <1>6 DEF QueueAdvances
<1> QED
  BY <1>2, <1>3, <1>4, <1>5, <1>6, QueueStep

LEMMA NobodyDelayed ==
    ASSUME Inv, Inv', [Next]_vars, NEW p \in Range(run_queue), p \in Range(run_queue')
    PROVE  WaitBound(p)' <= WaitBound(p) /\ (CpuTick => WaitBound(p)' < WaitBound(p))
<1>1. run_queue \in Seq(Nat) /\ Len(run_queue) \in Nat
  BY DEF Inv, TypeOK
<1>2. PICK k \in 1 .. Len(run_queue) : run_queue[k] = p
  BY <1>1 DEF Range
<1>3. run_queue # <<>>
  BY <1>1, <1>2
<1>4. WaitBound(p) = (k - 1) * TimeSlice + CpuLeft
  BY <1>2, WaitBoundAt
<1>5. CpuLeft \in Nat
  BY CpuLeftFacts
<1>6. CpuLeft' \in Nat
  <2>1. CASE active_proc' = NULL
    BY <2>1 DEF CpuLeft
  <2>2. CASE active_proc' # NULL
    <3>1. /\ active_proc' \in Slots /\ cpu_time' \in [Slots -> Int]
          /\ \A s \in Slots : cpu_time'[s] <= TimeSlice
      BY <2>2 DEF Inv, TypeOK, SliceRespected
    <3> QED
      BY <2>2, <3>1, TimeSliceAssumption DEF CpuLeft
  <2> QED
    BY <2>1, <2>2
<1>7. CASE QueueStays \/ QueueGrows
  <2>1. MoveUp(0) /\ k - 0 = k
    BY <1>1, <1>3, <1>7, MoveUpFacts
  <2>2. k \in 1 .. Len(run_queue') /\ run_queue'[k] = p
    BY <1>1, <1>2, <2>1 DEF MoveUp
  <2>3. WaitBound(p)' = (k - 1) * TimeSlice + CpuLeft'
    BY <2>2, WaitBoundNext
  <2>4. CpuLeft' <= CpuLeft /\ (CpuTick => CpuLeft' < CpuLeft)
    BY <1>7 DEF QueueStays, QueueGrows
  <2>5. (k - 1) * TimeSlice \in Nat
    BY OneSlice
  <2> QED
    BY <1>4, <1>5, <1>6, <2>3, <2>4, <2>5
<1>8. CASE QueueAdvances
  <2>1. /\ CpuLeft = 0 /\ CpuLeft' = TimeSlice /\ ~CpuTick
        /\ run_queue[1] \notin Range(run_queue')
    BY <1>8 DEF QueueAdvances
  <2>2. k - 1 >= 1 /\ k - 1 \in Nat \ {0} /\ (k - 1) + 1 = k
    BY <1>1, <1>2, <2>1
  <2>3. k - 1 \in 1 .. Len(run_queue') /\ run_queue'[k - 1] = p
    BY <1>2, <1>3, <1>8, <2>2, MoveUpFacts DEF MoveUp
  <2>4. WaitBound(p)' = ((k - 1) - 1) * TimeSlice + TimeSlice
    BY <2>1, <2>3, WaitBoundNext
  <2>5. WaitBound(p)' = (((k - 1) + 1) - 1) * TimeSlice /\ (((k - 1) + 1) - 1) * TimeSlice \in Nat
    BY <2>2, <2>4, OneSlice
  <2> QED
    BY <1>4, <2>1, <2>2, <2>5
<1> QED
  BY <1>3, <1>7, <1>8, QueueStep

(***************************************************************************)
(* The run queue is served in the order in which processes became ready:   *)
(* whatever handler runs, nobody gets in front of another, also when       *)
(* scheduler_remove turns the whole queue round.                           *)
(***************************************************************************)
THEOREM ServedInOrder == Spec => NoOvertaking
<1>1. Inv /\ [Next]_vars =>
        [\A x, y \in Range(run_queue) :
          x # y /\ Before(run_queue, x, y) =>
             \/ Before(run_queue', x, y)
             \/ x \notin Range(run_queue') /\ x = run_queue[1]]_run_queue
  BY NobodyOvertaken
<1> QED
  BY <1>1, Safety, PTL DEF Spec, NoOvertaking

(***************************************************************************)
(* A ready process waits at most the slices in front of it: no handler     *)
(* makes that time longer, and every tick makes it shorter.                *)
(***************************************************************************)
THEOREM WaitIsBounded == Spec => BoundedWait
<1>1. Inv /\ Inv' /\ [Next]_vars =>
        [\A p \in Range(run_queue) : p \in Range(run_queue') =>
          /\ WaitBound(p)' <= WaitBound(p)
          /\ phase' = "timer" /\ phase = "user" /\ active_proc # NULL
                => WaitBound(p)' < WaitBound(p)]_vars
  BY NobodyDelayed DEF CpuTick
<1> QED
  BY <1>1, Safety, PTL DEF Spec, BoundedWait


-----------------------------------------------------------------------------
(* Clocks that go round                                                    *)

\* A difference of two ints, brought into the range of the remainders.
LEMMA Remainder ==
    ASSUME NEW a \in IntMin .. IntMax, NEW b \in IntMin .. IntMax
    PROVE  (a - b) % (IntMax - IntMin + 1)
              = IF a >= b THEN a - b ELSE a - b + (IntMax - IntMin + 1)
<1> DEFINE M == IntMax - IntMin + 1
           d == a - b
<1>1. M \in Nat \ {0} /\ d \in Int /\ -M < d /\ d < M
  BY IntAssumption
<1>2. a >= b <=> d >= 0
  BY IntAssumption
<1> HIDE DEF M, d
<1>3. d % M = IF d >= 0 THEN d ELSE d + M
  BY <1>1
<1> QED
  BY <1>2, <1>3 DEF M, d

\* Two clocks that count down, together, one without the other, or from zero.
LEMMA ClockFacts ==
    ASSUME NEW a \in IntMin .. IntMax, NEW b \in IntMin .. IntMax
    PROVE  LET D(x, y) == (x - y) % (IntMax - IntMin + 1)
           IN  /\ D(a, b) \in Nat
               /\ D(Decrement(a), Decrement(b)) = D(a, b)
               /\ D(Decrement(a), b) \in Nat /\ D(a, b) <= D(Decrement(a), b) + 1
               /\ D(a, a) = 0
<1>1. Decrement(a) \in IntMin .. IntMax /\ Decrement(b) \in IntMin .. IntMax
  BY DecrementType
<1>2. /\ Decrement(a) = IF a = IntMin THEN IntMax ELSE a - 1
      /\ Decrement(b) = IF b = IntMin THEN IntMax ELSE b - 1
  BY DEF Decrement
<1> DEFINE M == IntMax - IntMin + 1
           E(x, y) == IF x >= y THEN x - y ELSE x - y + M
<1>3. \A x, y \in IntMin .. IntMax : (x - y) % M = E(x, y)
  BY Remainder
<1>4. M \in Nat /\ IntMin \in Int /\ IntMax \in Int /\ M = IntMax - IntMin + 1
  BY IntAssumption
<1>5. E(a, b) \in Nat /\ E(a, a) = 0
  BY <1>4
<1>6. E(Decrement(a), Decrement(b)) = E(a, b)
  BY <1>2, <1>4
<1>7. E(Decrement(a), b) \in Nat /\ E(a, b) <= E(Decrement(a), b) + 1
  BY <1>1, <1>2, <1>4
<1> HIDE DEF E
<1> QED
  BY <1>1, <1>3, <1>5, <1>6, <1>7

-----------------------------------------------------------------------------
(* The invariant                                                           *)

\* How many ticks sleep_time will be behind once it has counted the last one.
Missed(s) == (Decrement(sleep_time[s]) - due[s]) % (IntMax - IntMin + 1)

(***************************************************************************)
(* In the middle of scheduler_timer, after w sleepers have woken: those it *)
(* has not come to are the first ones of the queue, as many as are left of *)
(* the queue it began with.  They are owed a tick, and have outlasted the  *)
(* w others.                                                               *)
(***************************************************************************)
Walked(w) ==
    LET unseen == Len(sleep_queue) + w - scan
    IN  /\ unseen >= 0
        /\ \A i \in 1 .. Len(sleep_queue), s \in Sleepers :
              pid[s] = sleep_queue[i] =>
                 IF i <= unseen THEN Missed(s) + w <= woken[s] ELSE Behind(s) <= woken[s]

ClockSound ==
    /\ due \in [Slots -> IntMin .. IntMax]
    /\ woken \in [Slots -> Nat]
    /\ phase = "timer" => \E w \in 0 .. scan : Walked(w)
    /\ phase # "timer" => \A s \in Sleepers : Behind(s) <= woken[s]

-----------------------------------------------------------------------------
(* Sleepers and their places                                               *)

LEMMA SleeperTypes ==
    ASSUME Inv, ClockSound, NEW s \in Sleepers
    PROVE  /\ s \in Slots /\ s \in Live /\ state[s] = "SLEEPING"
           /\ sleep_time[s] \in IntMin .. IntMax /\ due[s] \in IntMin .. IntMax
           /\ woken[s] \in Nat
           /\ Behind(s) \in Nat /\ Missed(s) \in Nat /\ Behind(s) <= Missed(s) + 1
           /\ \E i \in 1 .. Len(sleep_queue) : sleep_queue[i] = pid[s]
<1>1. s \in Slots /\ state[s] = "SLEEPING"
  BY DEF Sleepers
<1>2. s \in Live
  BY <1>1 DEF Inv, TableSound
<1>3. sleep_time[s] \in IntMin .. IntMax /\ due[s] \in IntMin .. IntMax /\ woken[s] \in Nat
  BY <1>1 DEF Inv, TypeOK, ClockSound
<1>4. Behind(s) \in Nat /\ Missed(s) \in Nat /\ Behind(s) <= Missed(s) + 1
  BY <1>3, ClockFacts DEF Behind, Missed
<1>5. pid[s] \in Range(sleep_queue)
  BY <1>1, <1>2, Queued
<1>6. \E i \in 1 .. Len(sleep_queue) : sleep_queue[i] = pid[s]
  <2>1. sleep_queue \in Seq(Nat)
    BY DEF Inv, TypeOK
  <2> QED
    BY <1>5, <2>1 DEF Range
<1> QED
  BY <1>1, <1>2, <1>3, <1>4, <1>6

\* The observers keep their types, and start again with a new sleep.
LEMMA ObserverTypes ==
    ASSUME Inv, Inv', ClockSound, ClockNext
    PROVE  /\ due' \in [Slots -> IntMin .. IntMax] /\ woken' \in [Slots -> Nat]
           /\ \A s \in Slots :
                 /\ StaysAsleep(s) /\ Ticks => due'[s] = Decrement(due[s])
                 /\ StaysAsleep(s) /\ ~Ticks => due'[s] = due[s]
                 /\ StaysAsleep(s) /\ Wakes => woken'[s] = woken[s] + 1
                 /\ StaysAsleep(s) /\ ~Wakes => woken'[s] = woken[s]
                 /\ state'[s] = "SLEEPING" /\ ~StaysAsleep(s) => due'[s] = sleep_time'[s]
<1>1. /\ due' = [s \in Slots |->
                   CASE state'[s] # "SLEEPING" -> 0
                     [] state'[s] = "SLEEPING" /\ ~StaysAsleep(s) -> sleep_time'[s]
                     [] OTHER -> IF Ticks THEN Decrement(due[s]) ELSE due[s]]
      /\ woken' = [s \in Slots |->
                   IF ~StaysAsleep(s) THEN 0 ELSE IF Wakes THEN woken[s] + 1 ELSE woken[s]]
  BY DEF ClockNext
<1>2. \A s \in Slots : /\ due[s] \in IntMin .. IntMax /\ Decrement(due[s]) \in IntMin .. IntMax
                       /\ sleep_time'[s] \in IntMin .. IntMax /\ woken[s] \in Nat
  BY DecrementType DEF ClockSound, Inv, TypeOK
<1>3. 0 \in IntMin .. IntMax
  BY IntAssumption
<1>4. \A s \in Slots : StaysAsleep(s) => state'[s] = "SLEEPING"
  BY DEF StaysAsleep
<1> HIDE DEF StaysAsleep, Ticks, Wakes
<1>5. \A s \in Slots :
         /\ due'[s] = CASE state'[s] # "SLEEPING" -> 0
                        [] state'[s] = "SLEEPING" /\ ~StaysAsleep(s) -> sleep_time'[s]
                        [] OTHER -> IF Ticks THEN Decrement(due[s]) ELSE due[s]
         /\ woken'[s] = IF ~StaysAsleep(s) THEN 0 ELSE IF Wakes THEN woken[s] + 1 ELSE woken[s]
  BY <1>1
<1>6. \A s \in Slots : due'[s] \in IntMin .. IntMax /\ woken'[s] \in Nat
  BY <1>2, <1>3, <1>5
<1>7. due' \in [Slots -> IntMin .. IntMax] /\ woken' \in [Slots -> Nat]
  BY <1>1, <1>6
<1> QED
  BY <1>4, <1>5, <1>7

-----------------------------------------------------------------------------
(* The steps                                                               *)

LEMMA TickKeeps ==
    ASSUME Inv, Inv', ClockSound, ClockNext, TimerTick
    PROVE  ClockSound'
<1>1. /\ phase = "user" /\ phase' = "timer" /\ scan' = 0
      /\ UNCHANGED <<pid, state, sleep_time, sleep_queue>>
  BY DEF TimerTick, procVars
<1>2. due' \in [Slots -> IntMin .. IntMax] /\ woken' \in [Slots -> Nat]
  BY ObserverTypes
<1>3. Ticks /\ ~Wakes /\ Sleepers' = Sleepers
  <2>1. sleep_queue \in Seq(Nat)
    BY DEF Inv, TypeOK
  <2> QED
    BY <1>1, <2>1 DEF Ticks, Wakes, Sleepers
<1>4. \A s \in Sleepers : Missed(s)' = Behind(s) /\ woken'[s] = woken[s] /\ Behind(s) <= woken[s]
  <2> SUFFICES ASSUME NEW s \in Sleepers
               PROVE  Missed(s)' = Behind(s) /\ woken'[s] = woken[s] /\ Behind(s) <= woken[s]
    OBVIOUS
  <2>1. StaysAsleep(s) /\ s \in Slots
    BY <1>1 DEF StaysAsleep, Sleepers
  <2>2. due'[s] = Decrement(due[s]) /\ woken'[s] = woken[s]
    BY <1>3, <2>1, ObserverTypes
  <2>3. sleep_time[s] \in IntMin .. IntMax /\ due[s] \in IntMin .. IntMax
    BY SleeperTypes
  <2>4. (Decrement(sleep_time[s]) - Decrement(due[s])) % (IntMax - IntMin + 1)
           = (sleep_time[s] - due[s]) % (IntMax - IntMin + 1)
    BY <2>3, ClockFacts
  <2>5. sleep_time'[s] = sleep_time[s]
    BY <1>1
  <2>6. Behind(s) <= woken[s]
    BY <1>1 DEF ClockSound
  <2> QED
    BY <2>2, <2>4, <2>5, <2>6 DEF Missed, Behind
<1>5. Walked(0)'
  <2>1. sleep_queue' \in Seq(Nat) /\ Len(sleep_queue') \in Nat
    BY DEF Inv, TypeOK
  <2>2. \A s \in Sleepers : Missed(s)' \in Nat /\ woken'[s] \in Nat
    BY <1>4, SleeperTypes
  <2>3. \A s \in Sleepers : Missed(s)' + 0 <= woken'[s]
    BY <1>4, <2>2
  <2>4. Len(sleep_queue') + 0 - scan' = Len(sleep_queue')
    BY <1>1, <2>1
  <2> QED
    BY <1>3, <2>1, <2>3, <2>4 DEF Walked
<1>6. 0 \in 0 .. scan'
  BY <1>1
<1> QED
  BY <1>1, <1>2, <1>5, <1>6 DEF ClockSound

LEMMA DoneKeeps ==
    ASSUME Inv, Inv', ClockSound, ClockNext, TimerDone
    PROVE  ClockSound'
<1>1. /\ phase = "timer" /\ phase' = "sched" /\ scan >= Len(sleep_queue)
      /\ UNCHANGED <<pid, state, sleep_time, sleep_queue>>
  BY DEF TimerDone, procVars, schedVars, ScanGoesOn, Inv, TypeOK
<1>2. due' \in [Slots -> IntMin .. IntMax] /\ woken' \in [Slots -> Nat]
  BY ObserverTypes
<1>3. ~Ticks /\ ~Wakes /\ Sleepers' = Sleepers
  <2>1. sleep_queue \in Seq(Nat)
    BY DEF Inv, TypeOK
  <2> QED
    BY <1>1, <2>1 DEF Ticks, Wakes, Sleepers
<1>4. PICK w \in 0 .. scan : Walked(w)
  BY <1>1 DEF ClockSound
<1>5. ASSUME NEW s \in Sleepers PROVE Behind(s)' <= woken'[s]
  <2>1. PICK i \in 1 .. Len(sleep_queue) : sleep_queue[i] = pid[s]
    BY SleeperTypes
  <2>2. /\ Behind(s) \in Nat /\ Missed(s) \in Nat /\ Behind(s) <= Missed(s) + 1
        /\ woken[s] \in Nat
    BY SleeperTypes
  <2>3. scan \in Nat /\ Len(sleep_queue) \in Nat
    BY DEF Inv, TypeOK
  <2>4. IF i <= Len(sleep_queue) + w - scan THEN Missed(s) + w <= woken[s] ELSE Behind(s) <= woken[s]
    BY <1>4, <2>1 DEF Walked
  <2>5. Behind(s) <= woken[s]
    BY <1>1, <2>2, <2>3, <2>4
  <2>6. StaysAsleep(s) /\ s \in Slots
    BY <1>1 DEF StaysAsleep, Sleepers
  <2>7. due'[s] = due[s] /\ woken'[s] = woken[s]
    BY <1>3, <2>6, ObserverTypes
  <2> QED
    BY <1>1, <2>5, <2>7 DEF Behind
<1> QED
  BY <1>1, <1>2, <1>3, <1>5 DEF ClockSound

\* The sleeper that scheduler_timer comes to, and the ones behind it.
LEMMA NextSleeper ==
    ASSUME Inv, sleep_queue # <<>>
    PROVE  LET n == Len(sleep_queue)
               q == Tail(sleep_queue)
           IN  /\ n \in Nat \ {0} /\ q \in Seq(Nat) /\ Len(q) = n - 1
               /\ \A i \in 1 .. n - 1 : q[i] = sleep_queue[i + 1] /\ q[i] # Head(sleep_queue)
               /\ Head(sleep_queue) = sleep_queue[1]
<1>1. sleep_queue \in Seq(Nat) /\ IsInjective(sleep_queue)
  BY DEF Inv, TypeOK, Placement
<1> DEFINE n == Len(sleep_queue)
           q == Tail(sleep_queue)
<1>2. /\ n \in Nat \ {0} /\ q \in Seq(Nat) /\ Len(q) = n - 1
      /\ \A i \in 1 .. n - 1 : q[i] = sleep_queue[i + 1]
      /\ Head(sleep_queue) = sleep_queue[1]
      /\ DOMAIN sleep_queue = 1 .. n
  BY <1>1
<1> HIDE DEF n, q
<1>3. ASSUME NEW i \in 1 .. n - 1 PROVE sleep_queue[i + 1] # sleep_queue[1]
  <2>1. i + 1 \in 1 .. n /\ 1 \in 1 .. n /\ i + 1 # 1
    BY <1>2
  <2>2. \A j, k \in 1 .. n : sleep_queue[j] = sleep_queue[k] => j = k
    BY <1>1, <1>2, Zenon DEF IsInjective
  <2> QED
    BY <2>1, <2>2
<1> QED
  BY <1>2, <1>3 DEF n, q

LEMMA WakeKeeps ==
    ASSUME Inv, Inv', ClockSound, ClockNext, TimerWake
    PROVE  ClockSound'
<1> DEFINE n == Len(sleep_queue)
           p == Head(sleep_queue)
           q == Tail(sleep_queue)
<1>1. sleep_queue # <<>>
  BY DEF TimerWake, ScanGoesOn, Inv, TypeOK
<1>2. /\ n \in Nat \ {0} /\ q \in Seq(Nat) /\ Len(q) = n - 1
      /\ \A i \in 1 .. n - 1 : q[i] = sleep_queue[i + 1] /\ q[i] # p
  BY <1>1, NextSleeper
<1>3. PICK h \in Live : pid[h] = p /\ state[h] = "SLEEPING" /\ pid_to_proc(p) = h /\ h \in Slots
  BY <1>1, FirstSleeper
<1>4. /\ phase = "timer" /\ phase' = "timer"
      /\ scan' = scan + 1 /\ scan \in Nat /\ pid' = pid
      /\ sleep_queue' = q
      /\ state' = [state EXCEPT ![h] = "IDLE"]
      /\ sleep_time' = [sleep_time EXCEPT ![h] = 0]
  <2>1. phase' # "panic"
    BY DEF Inv, NoPanic
  <2> QED
    BY <1>3, <2>1 DEF TimerWake, procVars, Inv, TypeOK
<1>5. due' \in [Slots -> IntMin .. IntMax] /\ woken' \in [Slots -> Nat]
  BY ObserverTypes
<1>6. ~Ticks /\ Wakes
  BY <1>2, <1>4 DEF Ticks, Wakes
<1>7. PICK w \in 0 .. scan : Walked(w)
  BY <1>4 DEF ClockSound
<1> HIDE DEF n, p, q
<1>8. ASSUME NEW s \in Sleepers'
      PROVE  /\ s \in Sleepers /\ woken'[s] = woken[s] + 1
             /\ Behind(s)' = Behind(s) /\ Missed(s)' = Missed(s)
  <2>1. s \in Slots /\ state'[s] = "SLEEPING"
    BY DEF Sleepers
  <2>2. state[s] = "SLEEPING" /\ s # h
    BY <1>3, <1>4, <2>1 DEF Inv, TypeOK
  <2>3. StaysAsleep(s) /\ s \in Sleepers
    BY <2>1, <2>2 DEF StaysAsleep, Sleepers
  <2>4. due'[s] = due[s] /\ woken'[s] = woken[s] + 1
    BY <1>6, <2>1, <2>3, ObserverTypes
  <2>5. sleep_time'[s] = sleep_time[s]
    BY <1>4, <2>1, <2>2 DEF Inv, TypeOK
  <2> QED
    BY <2>3, <2>4, <2>5 DEF Behind, Missed
<1>9. Len(sleep_queue') + (w + 1) - scan' = n + w - scan - 1
  BY <1>2, <1>4
<1>10. n + w - scan - 1 >= 0
  <2>1. scan < n
    BY DEF TimerWake, ScanGoesOn, n
  <2> QED
    BY <1>2, <1>4, <2>1
<1>11. ASSUME NEW i \in 1 .. Len(sleep_queue'), NEW s \in Sleepers', pid'[s] = sleep_queue'[i]
       PROVE  IF i <= n + w - scan - 1 THEN Missed(s)' + (w + 1) <= woken'[s]
                                       ELSE Behind(s)' <= woken'[s]
  <2>1. i + 1 \in 1 .. n /\ pid[s] = sleep_queue[i + 1] /\ i \in 1 .. n - 1
    BY <1>2, <1>4, <1>11
  <2>2. IF i + 1 <= n + w - scan THEN Missed(s) + w <= woken[s] ELSE Behind(s) <= woken[s]
    BY <1>7, <1>8, <2>1 DEF Walked, n
  <2>3. Missed(s) \in Nat /\ woken[s] \in Nat /\ Behind(s) \in Nat
    BY <1>8, SleeperTypes
  <2> QED
    BY <1>2, <1>4, <1>8, <2>1, <2>2, <2>3, SMTT(20)
<1>12. Walked(w + 1)'
  BY <1>9, <1>10, <1>11 DEF Walked
<1>13. w + 1 \in 0 .. scan'
  BY <1>4
<1> QED
  BY <1>4, <1>5, <1>12, <1>13 DEF ClockSound

LEMMA CountDownKeeps ==
    ASSUME Inv, Inv', ClockSound, ClockNext, TimerCountDown
    PROVE  ClockSound'
<1> DEFINE n == Len(sleep_queue)
           p == Head(sleep_queue)
           q == Tail(sleep_queue)
<1>1. sleep_queue # <<>>
  BY DEF TimerCountDown, ScanGoesOn, Inv, TypeOK
<1>2. /\ n \in Nat \ {0} /\ q \in Seq(Nat) /\ Len(q) = n - 1
      /\ \A i \in 1 .. n - 1 : q[i] = sleep_queue[i + 1] /\ q[i] # p
      /\ p = sleep_queue[1] /\ p \in Nat
  BY <1>1, NextSleeper, FirstSleeper
<1>3. PICK h \in Live : /\ pid[h] = p /\ state[h] = "SLEEPING" /\ pid_to_proc(p) = h
                        /\ h \in Slots /\ h # NULL
  BY <1>1, FirstSleeper
<1>4. /\ phase = "timer" /\ phase' = "timer"
      /\ scan' = scan + 1 /\ scan \in Nat /\ pid' = pid /\ state' = state
      /\ sleep_queue' = queue_in(q, p)
      /\ sleep_time' = [sleep_time EXCEPT ![h] = Decrement(@)]
  BY <1>3 DEF TimerCountDown, procVars, Inv, TypeOK
<1>5. sleep_queue' = Append(q, p)
  <2>1. ~ queue_is_full(q)
    <3>1. IsInjective(q) /\ p \notin Range(q) /\ Range(q) = Range(sleep_queue) \ {p}
      BY <1>1, FirstSleeper
    <3>2. Range(q) \subseteq {pid[u] : u \in Slots \ {h}}
      BY <1>3, <3>1, Queued
    <3> HIDE DEF p, q
    <3> QED
      BY <1>2, <1>3, <3>1, <3>2, Enqueue
  <2> QED
    BY <1>4, <2>1 DEF queue_in
<1>6. due' \in [Slots -> IntMin .. IntMax] /\ woken' \in [Slots -> Nat]
  BY ObserverTypes
<1> HIDE DEF n, p, q
<1>7. /\ Len(sleep_queue') = n
      /\ \A i \in 1 .. n - 1 : sleep_queue'[i] = sleep_queue[i + 1]
      /\ sleep_queue'[n] = p
  BY <1>2, <1>5
<1>8. ~Ticks /\ ~Wakes /\ Sleepers' = Sleepers
  BY <1>2, <1>4, <1>7 DEF Ticks, Wakes, Sleepers, n
<1>9. PICK w \in 0 .. scan : Walked(w)
  BY <1>4 DEF ClockSound
<1>10. scan < n
  BY DEF TimerCountDown, ScanGoesOn, n
<1>11. ASSUME NEW s \in Sleepers
       PROVE  /\ due'[s] = due[s] /\ woken'[s] = woken[s]
              /\ s # h => Behind(s)' = Behind(s) /\ Missed(s)' = Missed(s)
  <2>1. s \in Slots /\ StaysAsleep(s)
    BY <1>4 DEF StaysAsleep, Sleepers
  <2>2. due'[s] = due[s] /\ woken'[s] = woken[s]
    BY <1>8, <2>1, ObserverTypes
  <2>3. s # h => sleep_time'[s] = sleep_time[s]
    BY <1>4, <2>1 DEF Inv, TypeOK
  <2> QED
    BY <2>2, <2>3 DEF Behind, Missed
<1>12. h \in Sleepers /\ Behind(h)' = Missed(h)
  <2>1. h \in Sleepers
    BY <1>3 DEF Sleepers
  <2>2. sleep_time'[h] = Decrement(sleep_time[h])
    BY <1>3, <1>4 DEF Inv, TypeOK
  <2> QED
    BY <1>11, <2>1, <2>2 DEF Behind, Missed
<1>13. Len(sleep_queue') + w - scan' = n + w - scan - 1 /\ n + w - scan - 1 >= 0
  BY <1>2, <1>4, <1>7, <1>10
<1>14. ASSUME NEW i \in 1 .. Len(sleep_queue'), NEW s \in Sleepers', pid'[s] = sleep_queue'[i]
       PROVE  IF i <= n + w - scan - 1 THEN Missed(s)' + w <= woken'[s]
                                       ELSE Behind(s)' <= woken'[s]
  <2>1. s \in Sleepers /\ pid[s] = sleep_queue'[i]
    BY <1>4, <1>8, <1>14
  <2>2. Missed(s) \in Nat /\ woken[s] \in Nat /\ Behind(s) \in Nat
    BY <2>1, SleeperTypes
  <2>3. \A j \in 1 .. n : pid[s] = sleep_queue[j] =>
           IF j <= n + w - scan THEN Missed(s) + w <= woken[s] ELSE Behind(s) <= woken[s]
    BY <1>9, <2>1 DEF Walked, n
  <2>4. CASE i = n
    <3>1. s = h
      <4>1. pid[s] = pid[h] /\ s \in Live
        BY <1>3, <1>7, <2>1, <2>4, SleeperTypes
      <4> QED
        BY <1>3, <4>1 DEF Inv, TableSound
    <3>2. 1 \in 1 .. n /\ 1 <= n + w - scan /\ pid[s] = sleep_queue[1]
      BY <1>2, <1>3, <1>4, <1>10, <3>1
    <3>3. Missed(s) + w <= woken[s]
      BY <2>3, <3>2
    <3>4. Behind(s)' <= woken'[s]
      BY <1>4, <1>11, <1>12, <2>1, <2>2, <3>1, <3>3
    <3>5. ~(i <= n + w - scan - 1)
      BY <1>2, <1>4, <2>4
    <3> QED
      BY <3>4, <3>5
  <2>5. CASE i # n
    <3>1. i \in 1 .. n - 1 /\ i + 1 \in 1 .. n
      BY <1>2, <1>7, <2>5
    <3>2. pid[s] = sleep_queue[i + 1] /\ sleep_queue[i + 1] # p
      BY <1>2, <1>7, <2>1, <3>1
    <3>3. s # h
      BY <1>3, <3>2
    <3>4. IF i + 1 <= n + w - scan THEN Missed(s) + w <= woken[s] ELSE Behind(s) <= woken[s]
      BY <2>3, <3>1, <3>2
    <3>5. Behind(s)' = Behind(s) /\ Missed(s)' = Missed(s) /\ woken'[s] = woken[s]
      BY <1>11, <2>1, <3>3
    <3>6. i <= n + w - scan - 1 <=> i + 1 <= n + w - scan
      BY <1>2, <1>4, <3>1
    <3> QED
      BY <3>4, <3>5, <3>6
  <2> QED
    BY <2>4, <2>5
<1>15. Walked(w)'
  BY <1>13, <1>14 DEF Walked
<1>16. w \in 0 .. scan'
  BY <1>4
<1> QED
  BY <1>4, <1>6, <1>15, <1>16 DEF ClockSound

(***************************************************************************)
(* The other steps: they neither tick nor walk the sleep queue, and only a *)
(* process that goes to sleep gets a new sleep_time.                       *)
(***************************************************************************)
LEMMA QuietKeeps ==
    ASSUME Inv, Inv', ClockSound, ClockNext, phase # "timer", phase' # "timer",
           \A s \in Slots : StaysAsleep(s) => sleep_time'[s] = sleep_time[s]
    PROVE  ClockSound'
<1>1. due' \in [Slots -> IntMin .. IntMax] /\ woken' \in [Slots -> Nat]
  BY ObserverTypes
<1>2. ~Ticks
  BY DEF Ticks
<1>3. ASSUME NEW s \in Sleepers' PROVE Behind(s)' <= woken'[s]
  <2>1. s \in Slots /\ state'[s] = "SLEEPING"
    BY DEF Sleepers
  <2>2. CASE StaysAsleep(s)
    <3>1. s \in Sleepers
      BY <2>1, <2>2 DEF Sleepers, StaysAsleep
    <3>2. Behind(s) <= woken[s] /\ Behind(s) \in Nat /\ woken[s] \in Nat
      BY <3>1, SleeperTypes DEF ClockSound
    <3>3. due'[s] = due[s] /\ woken'[s] \in {woken[s], woken[s] + 1}
      BY <1>2, <2>1, <2>2, ObserverTypes
    <3>4. Behind(s)' = Behind(s)
      BY <2>1, <2>2, <3>3 DEF Behind
    <3> QED
      BY <3>2, <3>3, <3>4
  <2>3. CASE ~StaysAsleep(s)
    <3>1. due'[s] = sleep_time'[s]
      BY <2>1, <2>3, ObserverTypes
    <3>2. sleep_time'[s] \in IntMin .. IntMax
      BY <2>1 DEF Inv, TypeOK
    <3>3. Behind(s)' = 0
      BY <3>1, <3>2, ClockFacts DEF Behind
    <3>4. woken'[s] \in Nat
      BY <1>1, <2>1
    <3> QED
      BY <3>3, <3>4
  <2> QED
    BY <2>2, <2>3
<1> QED
  BY <1>1, <1>3 DEF ClockSound

\* No step but the timer's touches the sleep_time of a process that sleeps on.
LEMMA QuietSteps ==
    ASSUME Inv, Inv', ClockSound, ClockNext, ProcEntry \/ SyncEntry \/ SchedulerRun
    PROVE  ClockSound'
<1> DEFINE Quiet ==
        /\ phase # "timer" /\ phase' # "timer"
        /\ \A s \in Slots : StaysAsleep(s) => sleep_time'[s] = sleep_time[s]
<1>1. /\ state \in [Slots -> States] /\ sleep_time \in [Slots -> IntMin .. IntMax]
  BY DEF Inv, TypeOK
<1>2. ASSUME KeyboardCreate PROVE Quiet
  BY <1>1, <1>2 DEF KeyboardCreate, kproc_create, StaysAsleep, schedVars
<1>3. ASSUME KeyboardDestroy \/ ProcExit PROVE Quiet
  BY <1>1, <1>3 DEF KeyboardDestroy, ProcExit, Handler, kproc_destroy, Release, ClearFields,
     StaysAsleep, schedVars
<1>4. ASSUME NEW seconds \in Seconds, ProcSleep(seconds) PROVE Quiet
  <2>1. active_proc # NULL /\ phase = "user" /\ phase' = "sched"
    BY <1>4 DEF ProcSleep, Handler, Caller
  <2>2. state[active_proc] = "ACTIVE"
    BY <2>1, ActiveFacts
  <2> QED
    BY <1>1, <1>4, <2>1, <2>2 DEF ProcSleep, StaysAsleep, schedVars
<1>5. ASSUME OtherEntry PROVE Quiet
  BY <1>1, <1>5 DEF OtherEntry, Handler, StaysAsleep, schedVars
<1>6. ASSUME SyncEntry PROVE Quiet
  BY <1>1, <1>6 DEF SyncEntry, Block, Unblock, WakeUp, Handler, StaysAsleep
<1>7. ASSUME SchedulerRun PROVE Quiet
  BY <1>1, <1>7 DEF SchedulerRun, SchedulerKeep, SchedulerSwitch, schedVars
<1>8. Quiet
  BY <1>2, <1>3, <1>4, <1>5, <1>6, <1>7 DEF ProcEntry
<1> QED
  BY <1>8, QuietKeeps

-----------------------------------------------------------------------------
(* The theorem                                                             *)

LEMMA ClockStarts == ClockInit => ClockSound
<1> SUFFICES ASSUME ClockInit PROVE ClockSound
  OBVIOUS
<1>1. phase = "user" /\ due = [s \in Slots |-> 0] /\ woken = [s \in Slots |-> 0]
  BY DEF ClockInit, Init
<1>2. Sleepers = {}
  BY DEF ClockInit, Init, Sleepers
<1>3. 0 \in IntMin .. IntMax
  BY IntAssumption
<1> QED
  BY <1>1, <1>2, <1>3 DEF ClockSound

LEMMA ClockKeeps == Inv /\ ClockSound /\ [ClockNext]_clockVars => ClockSound'
<1> SUFFICES ASSUME Inv, ClockSound, [ClockNext]_clockVars PROVE ClockSound'
  OBVIOUS
<1>1. CASE ClockNext
  <2>1. Next
    BY <1>1 DEF ClockNext
  <2>2. Inv'
    BY <2>1, NextInv
  <2>3. CASE ProcEntry \/ SyncEntry \/ SchedulerRun
    BY <1>1, <2>2, <2>3, QuietSteps
  <2>4. CASE TimerTick
    BY <1>1, <2>2, <2>4, TickKeeps
  <2>5. CASE TimerWake
    BY <1>1, <2>2, <2>5, WakeKeeps
  <2>6. CASE TimerCountDown
    BY <1>1, <2>2, <2>6, CountDownKeeps
  <2>7. CASE TimerDone
    BY <1>1, <2>2, <2>7, DoneKeeps
  <2> QED
    BY <2>1, <2>3, <2>4, <2>5, <2>6, <2>7 DEF Next, KernelWork, KernelStep
<1>2. CASE UNCHANGED clockVars
  BY <1>2 DEF clockVars, vars, procVars, schedVars, kernelVars, ClockSound, Walked, Missed,
     Behind, Sleepers
<1> QED
  BY <1>1, <1>2

(***************************************************************************)
(* scheduler_timer never wakes a process early, and the ticks a sleeper    *)
(* loses to its shrinking loop are at most the processes that woke before  *)
(* it: for every number of sleepers, however they came into the queue.     *)
(***************************************************************************)
THEOREM SleepersKeepTime == ClockSpec => []LatenessExplained
<1>1. ClockInit => Inv /\ ClockSound
  BY InitInv, ClockStarts DEF ClockInit
<1>2. Inv /\ ClockSound /\ [ClockNext]_clockVars => Inv' /\ ClockSound'
  <2>1. [ClockNext]_clockVars => [Next]_vars
    BY DEF ClockNext, clockVars
  <2> QED
    BY <2>1, NextInv, ClockKeeps
<1>3. Inv /\ ClockSound => LatenessExplained
  BY DEF ClockSound, LatenessExplained
<1> QED
  BY <1>1, <1>2, <1>3, PTL DEF ClockSpec

=============================================================================
