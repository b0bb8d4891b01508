---------------------------- MODULE KMutexProofs ----------------------------
(***************************************************************************)
(* Proofs about KMutex for every number of processes and mutexes and for   *)
(* every kind of client: every mutex call is a step of KProc, the          *)
(* bookkeeping of kmutex.c stays sound, and clients that unlock what they  *)
(* locked exclude each other.                                              *)
(*                                                                         *)
(* Then proofs about its client Shells, for any number of shells, any      *)
(* processes beside them and any sleep_seconds: prog_shell calls the       *)
(* mutexes as KMutex lets it, with ids that it was given, and a shell      *)
(* inside owns its mutex.                                                  *)
(***************************************************************************)
EXTENDS Shells, KProcProofs

-----------------------------------------------------------------------------
(* The invariant                                                           *)

MutexTypeOK ==
    /\ locks \in [Mutexes -> Nat]
    /\ owner \in [Mutexes -> Slots \cup {NULL}]
    /\ wait_queue \in [Mutexes -> Seq(Nat)]
    /\ mutex_queue \in Seq(Mutexes)
    /\ handles \subseteq Mutexes
    /\ last_lock \in [Pids -> Mutexes \cup {NULL}]
    /\ next_pid <= MaxPid + 1

(***************************************************************************)
(* What the calls of disciplined clients have to do with the mutexes: a    *)
(* live process that has called lock owns the mutex or waits for it, and   *)
(* waits for no mutex but the one of its last call.                        *)
(***************************************************************************)
ClientsSound ==
    /\ Disciplined \/ inside = {}
    /\ inside \subseteq (0 .. next_pid - 1) \X Mutexes
    /\ \A m \in Mutexes : \A s \in Live :
          <<pid[s], m>> \in inside => owner[m] = s \/ pid[s] \in Range(wait_queue[m])
    /\ Disciplined => \A m \in Mutexes : \A p \in Range(wait_queue[m]) :
          last_lock[p] = m /\ <<p, m>> \in inside

\* Processes that do not end inside a mutex: the owner is one that called lock.
OwnersSound ==
    ~HoldersDie => \A m \in Mutexes : owner[m] # NULL =>
        /\ owner[m] \in Live
        /\ <<pid[owner[m]], m>> \in inside
        /\ pid[owner[m]] \notin Range(wait_queue[m])

MutexInv ==
    /\ Inv
    /\ MutexTypeOK
    /\ LocksCount
    /\ WaitersPlaced
    /\ IdsSound
    /\ ClientsSound
    /\ OwnersSound

-----------------------------------------------------------------------------
(* The caller and the processes that wait                                  *)

LEMMA WaitersArePlaced == WaitersPlaced <=> Placed(PidsOf("WAITING"), Mutexes, wait_queue)
BY DEF WaitersPlaced, Placed

\* A step that leaves the scheduler alone.
LEMMA QuietFacts ==
    ASSUME UNCHANGED <<procVars, schedVars>>
    PROVE  /\ Live' = Live /\ pid' = pid /\ next_pid' = next_pid
           /\ PidsOf("WAITING")' = PidsOf("WAITING")
           /\ me' = me
BY DEF procVars, schedVars, Live, PidsOf, me

\* The process that makes a call is live and waits for nothing.
LEMMA CallerFacts ==
    ASSUME MutexInv, Caller
    PROVE  /\ active_proc \in Live /\ active_proc \in Slots
           /\ me \in Nat /\ me \in 0 .. next_pid - 1 /\ me \in Pids
           /\ \A s \in Live : pid[s] = me => s = active_proc
           /\ me \notin PidsOf("WAITING")
           /\ \A m \in Mutexes : me \notin Range(wait_queue[m])
<1>1. Inv /\ MutexTypeOK /\ WaitersPlaced /\ active_proc # NULL /\ me # 0
  BY DEF MutexInv, Caller, me
<1>2. /\ active_proc \in Live /\ active_proc \in Slots
      /\ state[active_proc] = "ACTIVE" /\ me \in Nat
  BY <1>1, ActiveFacts DEF me
<1>3. next_pid \in Nat /\ me \in 0 .. next_pid - 1
  BY <1>1, <1>2 DEF Inv, TypeOK, TableSound, me
<1>4. me \in Pids
  BY <1>1, <1>3, MaxPidAssumption DEF MutexTypeOK, Pids
<1>5. \A s \in Live : pid[s] = me => s = active_proc
  BY <1>1, <1>2 DEF Inv, TableSound, me
<1>6. me \notin PidsOf("WAITING")
  BY <1>2, <1>5 DEF PidsOf
<1>7. \A m \in Mutexes : me \notin Range(wait_queue[m])
  BY <1>1, <1>6 DEF WaitersPlaced
<1> QED
  BY <1>2, <1>3, <1>4, <1>5, <1>6, <1>7

LEMMA WaitersArePids ==
    ASSUME MutexInv
    PROVE  \A m \in Mutexes : Range(wait_queue[m]) \subseteq Pids
<1>1. next_pid \in Nat /\ next_pid <= MaxPid + 1 /\ MaxPid \in Nat
  BY MaxPidAssumption DEF MutexInv, Inv, TypeOK, MutexTypeOK
<1>2. ASSUME NEW p \in PidsOf("WAITING") PROVE p \in Pids
  <2>1. p \in 0 .. next_pid - 1 /\ p # 0
    BY <1>2 DEF PidsOf, MutexInv, Inv, TableSound, Placement
  <2> QED
    BY <1>1, <2>1 DEF Pids
<1> QED
  BY <1>2 DEF MutexInv, WaitersPlaced

\* A caller that has called lock and not unlock owns the mutex.
LEMMA InsiderOwns ==
    ASSUME MutexInv, Caller, NEW m \in Mutexes, <<me, m>> \in inside
    PROVE  owner[m] = active_proc
BY CallerFacts DEF MutexInv, ClientsSound, me

\* Whoever waits is known, and is not the caller.
LEMMA WaiterFacts ==
    ASSUME MutexInv, NEW m \in Mutexes, wait_queue[m] # <<>>
    PROVE  LET p == Head(wait_queue[m])
           IN  /\ p \in PidsOf("WAITING") /\ p \in Range(wait_queue[m])
               /\ \E s \in Live : s \in Slots /\ s # NULL /\ pid[s] = p /\ pid_to_proc(p) = s
<1> DEFINE p == Head(wait_queue[m])
<1>1. p \in PidsOf("WAITING") /\ p \in Range(wait_queue[m])
  <2>1. /\ wait_queue \in [Mutexes -> Seq(Nat)]
        /\ Placed(PidsOf("WAITING"), Mutexes, wait_queue)
    BY WaitersArePlaced DEF MutexInv, MutexTypeOK
  <2> QED
    BY <2>1, FirstWaits, Zenon
<1>2. PICK s \in Live : pid[s] = p
  BY <1>1 DEF PidsOf
<1>3. s \in Slots /\ s # NULL /\ pid_to_proc(p) = s
  BY <1>2, PidToProc, NullAssumption DEF MutexInv, Inv, Live
<1> QED
  BY <1>1, <1>2, <1>3

-----------------------------------------------------------------------------
(* Every step is a step of KProc                                           *)

\* A lock of a taken mutex always finds room in its wait queue: the caller
\* blocks.
LEMMA LockBlocks ==
    ASSUME MutexInv, NEW m \in Mutexes, kmutex_lock_taken(m)
    PROVE  /\ Block
           /\ wait_queue' = [wait_queue EXCEPT ![m] = Append(@, me)]
           /\ locks' = [locks EXCEPT ![m] = @ + 1]
<1>1. active_proc # NULL /\ Inv
  BY DEF kmutex_lock_taken, Caller, MutexInv
<1>2. /\ wait_queue[m] \in Seq(Nat) /\ IsInjective(wait_queue[m])
      /\ Range(wait_queue[m]) \subseteq PidsOf("WAITING")
  BY DEF MutexInv, MutexTypeOK, WaitersPlaced
<1>3. ~ queue_is_full(wait_queue[m])
  BY <1>1, <1>2, RoomToWait
<1>4. Block
  BY <1>3 DEF kmutex_lock_taken, StopCaller, Block
<1> QED
  BY <1>3, <1>4 DEF kmutex_lock_taken, CountLock, queue_in

\* An unlock that finds more locks always finds a waiter: it is woken.
LEMMA UnlockWakes ==
    ASSUME MutexInv, NEW m \in Mutexes, kmutex_unlock_pass(m)
    PROVE  /\ wait_queue[m] # <<>>
           /\ LET p == Head(wait_queue[m])
              IN  /\ WakePid(p)
                  /\ owner' = [owner EXCEPT ![m] = pid_to_proc(p)]
           /\ wait_queue' = [wait_queue EXCEPT ![m] = Tail(@)]
           /\ locks' = [locks EXCEPT ![m] = @ - 1]
<1>1. locks[m] = Len(wait_queue[m]) + 1 /\ locks[m] # 1
  BY DEF kmutex_unlock_pass, MutexInv, LocksCount
<1>2. wait_queue[m] # <<>>
  BY <1>1
<1> QED
  BY <1>2 DEF kmutex_unlock_pass, HandOver, NextWaiter

LEMMA StepOfKProc ==
    ASSUME MutexInv, MutexNext
    PROVE  Next
<1>1. CASE ProcWork
  BY <1>1 DEF ProcWork, Next
<1>2. CASE kmutex_init
  BY <1>2 DEF kmutex_init, Next, ProcEntry, OtherEntry
<1>3. ASSUME NEW m \in Mutexes, kmutex_destroy(m) PROVE Next
  BY <1>3 DEF kmutex_destroy, Next, ProcEntry, OtherEntry
<1>4. ASSUME NEW m \in Mutexes, kmutex_lock_free(m) PROVE Next
  BY <1>4 DEF kmutex_lock_free, Next, ProcEntry, OtherEntry
<1>5. ASSUME NEW m \in Mutexes, kmutex_lock_taken(m) PROVE Next
  BY <1>5, LockBlocks DEF Next, SyncEntry
<1>6. ASSUME NEW m \in Mutexes, kmutex_unlock_last(m) PROVE Next
  BY <1>6 DEF kmutex_unlock_last, Next, ProcEntry, OtherEntry
<1>7. ASSUME NEW m \in Mutexes, kmutex_unlock_pass(m) PROVE Next
  <2> DEFINE p == Head(wait_queue[m])
  <2>1. WakePid(p) /\ p \in PidsOf("WAITING") /\ Inv
    BY <1>7, UnlockWakes, WaiterFacts DEF MutexInv
  <2> HIDE DEF p
  <2>2. PICK s \in Live : Unblock(s)
    BY <2>1, WakeFacts
  <2> QED
    BY <2>2 DEF Live, Next, SyncEntry
<1> QED
  BY <1>1, <1>2, <1>3, <1>4, <1>5, <1>6, <1>7 DEF MutexNext, MutexCall, kmutex_unlock

-----------------------------------------------------------------------------
(* The steps keep the invariant                                            *)

\* What the invariant says of the mutexes and their clients.
TableInv ==
    /\ MutexTypeOK
    /\ LocksCount
    /\ WaitersPlaced
    /\ IdsSound
    /\ ClientsSound
    /\ OwnersSound

LEMMA ProcWorkInv ==
    ASSUME MutexInv, ProcWork
    PROVE  TableInv'
<1>1. /\ UNCHANGED <<locks, owner, wait_queue, mutex_queue, clients, handles, inside, last_lock>>
      /\ ~HoldersDie /\ Dies => \A m \in Mutexes : <<me, m>> \notin inside
  BY DEF ProcWork, mutexVars, tableVars, clientVars
<1>2. /\ PidsOf("WAITING")' = PidsOf("WAITING")
      /\ next_pid \in Nat /\ next_pid' \in {next_pid, next_pid + 1}
      /\ next_pid' # next_pid => next_pid < MaxPid
      /\ \A s \in Live' : \/ s \in Live /\ pid'[s] = pid[s]
                          \/ pid'[s] = next_pid /\ next_pid' = next_pid + 1
      /\ \A s \in Live : \/ s \in Live' /\ pid'[s] = pid[s]
                         \/ s = active_proc /\ pid'[s] = -1
  BY WorkFacts DEF ProcWork, MutexInv
<1>3. MutexTypeOK'
  BY <1>1, <1>2, MaxPidAssumption DEF MutexInv, MutexTypeOK
<1>4. LocksCount' /\ WaitersPlaced' /\ IdsSound'
  <2>1. LocksCount' /\ IdsSound'
    BY <1>1 DEF MutexInv, LocksCount, IdsSound
  <2>2. WaitersPlaced'
    BY <1>1, <1>2 DEF MutexInv, WaitersPlaced
  <2> QED
    BY <2>1, <2>2
<1>5. ClientsSound'
  <2>1. inside' \subseteq (0 .. next_pid' - 1) \X Mutexes
    BY <1>1, <1>2 DEF MutexInv, ClientsSound
  <2>2. ASSUME NEW m \in Mutexes, NEW s \in Live', <<pid'[s], m>> \in inside'
        PROVE  owner'[m] = s \/ pid'[s] \in Range(wait_queue'[m])
    <3>1. <<next_pid, m>> \notin inside
      BY <1>2 DEF MutexInv, ClientsSound
    <3>2. s \in Live /\ pid'[s] = pid[s]
      BY <1>1, <1>2, <2>2, <3>1
    <3> QED
      BY <1>1, <2>2, <3>2 DEF MutexInv, ClientsSound
  <2> QED
    BY <1>1, <2>1, <2>2 DEF MutexInv, ClientsSound, Disciplined
<1>6. OwnersSound'
  <2> SUFFICES ASSUME ~HoldersDie, NEW m \in Mutexes, owner[m] # NULL
               PROVE  /\ owner[m] \in Live'
                      /\ <<pid'[owner[m]], m>> \in inside
                      /\ pid'[owner[m]] \notin Range(wait_queue[m])
    BY <1>1 DEF OwnersSound, HoldersDie
  <2> DEFINE s == owner[m]
  <2>1. s \in Live /\ <<pid[s], m>> \in inside /\ pid[s] \notin Range(wait_queue[m])
    BY DEF MutexInv, OwnersSound
  <2>2. ~ (s = active_proc /\ pid'[s] = -1)
    <3>1. s # NULL
      BY DEF s
    <3> QED
      BY <1>1, <2>1, <3>1 DEF Dies, me
  <2> QED
    BY <1>2, <2>1, <2>2
<1> QED
  BY <1>3, <1>4, <1>5, <1>6 DEF TableInv

\* An id that the allocator gives out has no owner and no waiter: the entry
\* that kmutex_init clears was clear.
LEMMA InitCallInv ==
    ASSUME MutexInv, kmutex_init
    PROVE  TableInv'
<1> DEFINE id == Head(mutex_queue)
<1>1. /\ mutex_queue \in Seq(Mutexes) /\ IsInjective(mutex_queue) /\ mutex_queue # <<>>
  BY DEF kmutex_init, MutexInv, MutexTypeOK, IdsSound
<1>2. /\ id \in Mutexes /\ id \in Range(mutex_queue)
      /\ Tail(mutex_queue) \in Seq(Mutexes)
      /\ IsInjective(Tail(mutex_queue))
      /\ Range(Tail(mutex_queue)) = Range(mutex_queue) \ {id}
  BY <1>1, TailFacts
<1>3. locks[id] = 0 /\ owner[id] = NULL /\ wait_queue[id] = <<>>
  BY <1>2 DEF MutexInv, IdsSound
<1>4. /\ locks' = [locks EXCEPT ![id] = 0]
      /\ owner' = [owner EXCEPT ![id] = NULL]
      /\ wait_queue' = [wait_queue EXCEPT ![id] = <<>>]
      /\ mutex_queue' = Tail(mutex_queue)
      /\ handles' = handles \cup {id}
      /\ UNCHANGED <<procVars, schedVars, clients, inside, last_lock>>
  BY DEF kmutex_init
<1> HIDE DEF id
<1>5. MutexTypeOK
  BY DEF MutexInv
<1>6. locks' = locks /\ owner' = owner /\ wait_queue' = wait_queue
  BY <1>2, <1>3, <1>4, <1>5 DEF MutexTypeOK
<1>7. /\ Live' = Live /\ pid' = pid /\ next_pid' = next_pid
      /\ PidsOf("WAITING")' = PidsOf("WAITING")
  BY <1>4, QuietFacts
<1>8. MutexTypeOK'
  BY <1>2, <1>4, <1>5, <1>6, <1>7 DEF MutexTypeOK
<1>9. LocksCount' /\ WaitersPlaced'
  <2>1. LocksCount'
    BY <1>6 DEF MutexInv, LocksCount
  <2>2. WaitersPlaced'
    BY <1>6, <1>7 DEF MutexInv, WaitersPlaced
  <2> QED
    BY <2>1, <2>2
<1>10. IdsSound'
  BY <1>2, <1>4, <1>6 DEF MutexInv, IdsSound
<1>11. ClientsSound' /\ OwnersSound'
  BY <1>4, <1>6, <1>7 DEF MutexInv, ClientsSound, OwnersSound, Disciplined, HoldersDie
<1> QED
  BY <1>8, <1>9, <1>10, <1>11 DEF TableInv

\* An id comes back to the allocator, which has room for all of them.
LEMMA DestroyCallInv ==
    ASSUME MutexInv, NEW m \in Mutexes, kmutex_destroy(m)
    PROVE  TableInv'
<1>1. /\ UNCHANGED <<procVars, schedVars, locks, owner, wait_queue, clients, inside, last_lock>>
      /\ m \in handles
  BY DEF kmutex_destroy
<1>2. /\ Live' = Live /\ pid' = pid /\ next_pid' = next_pid
      /\ PidsOf("WAITING")' = PidsOf("WAITING")
  BY <1>1, QuietFacts
<1>3. LocksCount' /\ WaitersPlaced' /\ ClientsSound' /\ OwnersSound'
  <2>1. LocksCount'
    BY <1>1 DEF MutexInv, LocksCount
  <2>2. WaitersPlaced'
    BY <1>1, <1>2 DEF MutexInv, WaitersPlaced
  <2>3. ClientsSound' /\ OwnersSound'
    BY <1>1, <1>2 DEF MutexInv, ClientsSound, OwnersSound, Disciplined, HoldersDie
  <2> QED
    BY <2>1, <2>2, <2>3
<1>4. MutexTypeOK' /\ IdsSound'
  <2>1. CASE IsLocked(m)
    <3>1. mutex_queue' = mutex_queue /\ handles' = handles
      BY <2>1 DEF kmutex_destroy
    <3> QED
      BY <1>1, <1>2, <3>1 DEF MutexInv, MutexTypeOK, IdsSound
  <2>2. CASE ~ IsLocked(m)
    <3>1. mutex_queue' = queue_in(mutex_queue, m) /\ handles' = handles \ {m}
      BY <2>2 DEF kmutex_destroy
    <3>2. /\ mutex_queue \in Seq(Mutexes) /\ IsInjective(mutex_queue)
          /\ Range(mutex_queue) = Mutexes \ handles /\ m \notin Range(mutex_queue)
      BY <1>1 DEF MutexInv, MutexTypeOK, IdsSound
    <3>3. ~ queue_is_full(mutex_queue)
      BY <1>1, <3>2, MutexAssumption, RoomForId DEF Mutexes, MutexInv, MutexTypeOK
    <3>4. /\ queue_in(mutex_queue, m) = Append(mutex_queue, m)
          /\ Append(mutex_queue, m) \in Seq(Mutexes)
          /\ IsInjective(Append(mutex_queue, m))
          /\ Range(Append(mutex_queue, m)) = Range(mutex_queue) \cup {m}
      BY <3>2, <3>3, AppendFacts DEF queue_in
    <3>5. locks[m] = 0 /\ owner[m] = NULL /\ wait_queue[m] = <<>>
      <4>1. /\ locks[m] \in Nat /\ ~ (locks[m] > 0) /\ wait_queue[m] \in Seq(Nat)
            /\ locks[m] = Len(wait_queue[m]) + IF owner[m] = NULL THEN 0 ELSE 1
        BY <2>2 DEF MutexInv, MutexTypeOK, LocksCount, IsLocked
      <4> DEFINE n == Len(wait_queue[m])
      <4>2. n \in Nat /\ locks[m] = n + IF owner[m] = NULL THEN 0 ELSE 1
        BY <4>1
      <4> HIDE DEF n
      <4>3. n = 0 /\ locks[m] = 0 /\ owner[m] = NULL
        <5>1. locks[m] = 0
          <6>1. locks[m] \in Nat /\ ~ (locks[m] > 0)
            BY <4>1, Zenon
          <6> QED
            BY <6>1
        <5>2. owner[m] = NULL
          BY <4>2, <5>1
        <5> QED
          BY <4>2, <5>1, <5>2
      <4> QED
        BY <4>1, <4>3, EmptySeq DEF n
    <3>6. MutexTypeOK'
      BY <1>1, <1>2, <3>1, <3>4 DEF MutexInv, MutexTypeOK
    <3>7. IdsSound'
      BY <1>1, <3>1, <3>2, <3>4, <3>5 DEF MutexInv, IdsSound
    <3> QED
      BY <3>6, <3>7
  <2> QED
    BY <2>1, <2>2
<1> QED
  BY <1>3, <1>4 DEF TableInv

\* The mutex was free: nobody else that lives has called lock.
LEMMA LockFreeInv ==
    ASSUME MutexInv, NEW m \in Mutexes, kmutex_lock_free(m)
    PROVE  TableInv'
<1>1. /\ owner[m] = NULL /\ m \in handles
      /\ owner' = [owner EXCEPT ![m] = active_proc]
      /\ locks' = [locks EXCEPT ![m] = @ + 1]
      /\ UNCHANGED <<procVars, schedVars, wait_queue, mutex_queue, handles, clients>>
      /\ Caller
  BY DEF kmutex_lock_free, CountLock, MayLock, Enter
<1>2. /\ Live' = Live /\ pid' = pid /\ next_pid' = next_pid
      /\ PidsOf("WAITING")' = PidsOf("WAITING")
  BY <1>1, QuietFacts
<1>3. /\ active_proc \in Live /\ active_proc \in Slots /\ active_proc # NULL
      /\ me \in Nat /\ me \in 0 .. next_pid - 1 /\ me \in Pids
      /\ \A s \in Live : pid[s] = me => s = active_proc
      /\ \A n \in Mutexes : me \notin Range(wait_queue[n])
  BY <1>1, CallerFacts DEF Caller
<1>4. MutexTypeOK /\ LocksCount /\ WaitersPlaced /\ IdsSound /\ ClientsSound /\ OwnersSound
  BY DEF MutexInv
<1>5. /\ locks[m] \in Nat
      /\ wait_queue[m] \in Seq(Nat)
      /\ locks[m] = Len(wait_queue[m])
  BY <1>1, <1>4 DEF MutexTypeOK, LocksCount
<1>6. /\ \A n \in Mutexes : owner'[n] = IF n = m THEN active_proc ELSE owner[n]
      /\ \A n \in Mutexes : locks'[n] = IF n = m THEN locks[n] + 1 ELSE locks[n]
  BY <1>1, <1>4 DEF MutexTypeOK
<1>7. MutexTypeOK'
  <2>1. last_lock' \in [Pids -> Mutexes \cup {NULL}]
    BY <1>4 DEF kmutex_lock_free, Enter, MutexTypeOK
  <2>2. owner' \in [Mutexes -> Slots \cup {NULL}]
    BY <1>1, <1>3, <1>4 DEF MutexTypeOK
  <2>3. locks' \in [Mutexes -> Nat]
    BY <1>1, <1>4, <1>5 DEF MutexTypeOK
  <2> QED
    BY <1>1, <1>2, <1>4, <2>1, <2>2, <2>3 DEF MutexTypeOK
<1>8. LocksCount'
  BY <1>1, <1>3, <1>4, <1>5, <1>6 DEF LocksCount
<1>9. WaitersPlaced'
  BY <1>1, <1>2, <1>4 DEF WaitersPlaced
<1>10. IdsSound'
  <2>1. m \notin Range(mutex_queue) /\ Range(mutex_queue) \subseteq Mutexes
    BY <1>1, <1>4 DEF IdsSound
  <2> QED
    BY <1>1, <1>4, <1>6, <2>1 DEF IdsSound
<1>11. CASE ~Disciplined
  <2>1. inside' = inside /\ ~HoldersDie'= ~HoldersDie /\ Disciplined' = Disciplined
    BY <1>1, <1>11 DEF kmutex_lock_free, Enter, Disciplined, HoldersDie
  <2>2. ClientsSound'
    BY <1>2, <1>4, <1>11, <2>1 DEF ClientsSound
  <2>3. OwnersSound'
    BY <1>11, <2>1 DEF OwnersSound, Disciplined, HoldersDie
  <2> QED
    BY <1>7, <1>8, <1>9, <1>10, <2>2, <2>3 DEF TableInv
<1>12. CASE Disciplined
  <2>1. /\ inside' = inside \cup {<<me, m>>}
        /\ last_lock' = [last_lock EXCEPT ![me] = m]
    BY <1>12 DEF kmutex_lock_free, Enter
  <2>2. \A n \in Mutexes : \A p \in Range(wait_queue[n]) :
            last_lock'[p] = n /\ <<p, n>> \in inside'
    <3> SUFFICES ASSUME NEW n \in Mutexes, NEW p \in Range(wait_queue[n])
                 PROVE  last_lock'[p] = n /\ <<p, n>> \in inside'
      OBVIOUS
    <3>1. p \in Pids /\ p # me /\ last_lock[p] = n /\ <<p, n>> \in inside
      BY <1>3, <1>4, <1>12, WaitersArePids DEF ClientsSound
    <3> QED
      BY <1>4, <2>1, <3>1 DEF MutexTypeOK
  <2>3. inside' \subseteq (0 .. next_pid - 1) \X Mutexes
    BY <1>3, <1>4, <2>1 DEF ClientsSound
  <2>4. ASSUME NEW n \in Mutexes, NEW s \in Live, <<pid[s], n>> \in inside'
        PROVE  owner'[n] = s \/ pid[s] \in Range(wait_queue[n])
    <3>1. CASE <<pid[s], n>> = <<me, m>>
      BY <1>3, <1>6, <3>1
    <3>2. CASE <<pid[s], n>> \in inside
      <4>1. owner[n] = s \/ pid[s] \in Range(wait_queue[n])
        BY <1>4, <3>2 DEF ClientsSound
      <4>2. s # NULL
        BY NullAssumption DEF Live
      <4> QED
        BY <1>1, <1>6, <4>1, <4>2
    <3> QED
      BY <2>1, <2>4, <3>1, <3>2
  <2>5. ClientsSound'
    BY <1>1, <1>2, <1>12, <2>2, <2>3, <2>4 DEF ClientsSound, Disciplined
  <2>6. OwnersSound'
    <3> SUFFICES ASSUME ~HoldersDie, NEW n \in Mutexes, owner'[n] # NULL
                 PROVE  /\ owner'[n] \in Live
                        /\ <<pid[owner'[n]], n>> \in inside'
                        /\ pid[owner'[n]] \notin Range(wait_queue[n])
      BY <1>1, <1>2 DEF OwnersSound, HoldersDie
    <3>1. CASE n = m
      BY <1>3, <1>6, <2>1, <3>1 DEF me
    <3>2. CASE n # m
      BY <1>4, <1>6, <2>1, <3>2 DEF OwnersSound
    <3> QED
      BY <3>1, <3>2
  <2> QED
    BY <1>7, <1>8, <1>9, <1>10, <2>5, <2>6 DEF TableInv
<1> QED
  BY <1>11, <1>12

\* The caller joins the processes that wait, and one wait queue.
LEMMA LockTakenInv ==
    ASSUME MutexInv, NEW m \in Mutexes, kmutex_lock_taken(m)
    PROVE  TableInv'
<1> DEFINE W == PidsOf("WAITING")
<1>1. /\ owner[m] # NULL /\ m \in handles
      /\ wait_queue' = [wait_queue EXCEPT ![m] = Append(@, me)]
      /\ locks' = [locks EXCEPT ![m] = @ + 1]
      /\ UNCHANGED <<owner, mutex_queue, handles, clients>>
      /\ Caller /\ Block
  BY LockBlocks DEF kmutex_lock_taken, MayLock, Enter
<1>2. /\ W' = W \cup {me}
      /\ Live' = Live /\ pid' = pid /\ next_pid' = next_pid
  BY <1>1, BlockFacts DEF MutexInv, me
<1>3. /\ active_proc \in Live /\ active_proc \in Slots
      /\ me \in Nat /\ me \in 0 .. next_pid - 1 /\ me \in Pids
      /\ \A s \in Live : pid[s] = me => s = active_proc
      /\ me \notin W
      /\ \A n \in Mutexes : me \notin Range(wait_queue[n])
  BY <1>1, CallerFacts
<1>4. MutexTypeOK /\ LocksCount /\ WaitersPlaced /\ IdsSound /\ ClientsSound /\ OwnersSound
  BY DEF MutexInv
<1> HIDE DEF W
<1>5. /\ Placed(W \cup {me}, Mutexes, wait_queue')
      /\ wait_queue' \in [Mutexes -> Seq(Nat)]
      /\ \A n \in Mutexes : Range(wait_queue'[n]) =
            IF n = m THEN Range(wait_queue[n]) \cup {me} ELSE Range(wait_queue[n])
      /\ \A n \in Mutexes : Len(wait_queue'[n]) =
            IF n = m THEN Len(wait_queue[n]) + 1 ELSE Len(wait_queue[n])
  <2>1. wait_queue \in [Mutexes -> Seq(Nat)] /\ Placed(W, Mutexes, wait_queue)
    BY <1>4, WaitersArePlaced DEF MutexTypeOK, W
  <2>2. wait_queue' = Joined(wait_queue, m, me)
    BY <1>1 DEF Joined
  <2>3. me \in Nat /\ me \notin W
    BY <1>3
  <2>4. Placed(W \cup {me}, Mutexes, wait_queue')
    BY <2>1, <2>2, <2>3, JoinQueue, Zenon
  <2>5. Grew(Mutexes, wait_queue, m, me, wait_queue')
    BY <2>1, <2>2, <2>3, JoinedFacts, Zenon
  <2> QED
    BY <2>4, <2>5 DEF Grew
<1>6. \A n \in Mutexes : locks'[n] = IF n = m THEN locks[n] + 1 ELSE locks[n]
  BY <1>1, <1>4 DEF MutexTypeOK
<1>7. MutexTypeOK'
  <2>1. last_lock' \in [Pids -> Mutexes \cup {NULL}]
    BY <1>4 DEF kmutex_lock_taken, Enter, MutexTypeOK
  <2>2. locks' \in [Mutexes -> Nat]
    BY <1>1, <1>4 DEF MutexTypeOK
  <2> QED
    BY <1>1, <1>2, <1>4, <1>5, <2>1, <2>2 DEF MutexTypeOK
<1>8. LocksCount'
  <2>1. \A n \in Mutexes : locks[n] \in Nat /\ Len(wait_queue[n]) \in Nat
    BY <1>4 DEF MutexTypeOK
  <2> QED
    BY <1>1, <1>4, <1>5, <1>6, <2>1 DEF LocksCount
<1>9. WaitersPlaced'
  BY <1>2, <1>5 DEF WaitersPlaced, Placed, W
<1>10. IdsSound'
  <2>1. m \notin Range(mutex_queue) /\ Range(mutex_queue) \subseteq Mutexes
    BY <1>1, <1>4 DEF IdsSound
  <2>2. \A n \in Mutexes : n # m => wait_queue'[n] = wait_queue[n]
    BY <1>1, <1>4 DEF MutexTypeOK
  <2> QED
    BY <1>1, <1>4, <1>6, <2>1, <2>2 DEF IdsSound
<1>11. CASE ~Disciplined
  <2>1. inside' = inside /\ Disciplined' = Disciplined
    BY <1>1, <1>11 DEF kmutex_lock_taken, Enter, Disciplined
  <2>2. ClientsSound'
    BY <1>2, <1>4, <1>11, <2>1 DEF ClientsSound
  <2>3. OwnersSound'
    BY <1>11, <2>1 DEF OwnersSound, Disciplined, HoldersDie
  <2> QED
    BY <1>7, <1>8, <1>9, <1>10, <2>2, <2>3 DEF TableInv
<1>12. CASE Disciplined
  <2>1. /\ inside' = inside \cup {<<me, m>>}
        /\ last_lock' = [last_lock EXCEPT ![me] = m]
        /\ <<me, m>> \notin inside
    BY <1>12 DEF kmutex_lock_taken, Enter, MayLock
  <2>2. \A n \in Mutexes : \A p \in Range(wait_queue'[n]) :
            last_lock'[p] = n /\ <<p, n>> \in inside'
    <3> SUFFICES ASSUME NEW n \in Mutexes, NEW p \in Range(wait_queue'[n])
                 PROVE  last_lock'[p] = n /\ <<p, n>> \in inside'
      OBVIOUS
    <3>1. CASE p = me
      BY <1>3, <1>4, <1>5, <2>1, <3>1 DEF MutexTypeOK
    <3>2. CASE p # me
      <4>1. p \in Pids /\ last_lock[p] = n /\ <<p, n>> \in inside
        BY <1>4, <1>5, <1>12, <3>2, WaitersArePids, SMTT(20) DEF ClientsSound
      <4> QED
        BY <1>4, <2>1, <3>2, <4>1 DEF MutexTypeOK
    <3> QED
      BY <3>1, <3>2
  <2>3. inside' \subseteq (0 .. next_pid - 1) \X Mutexes
    BY <1>3, <1>4, <2>1 DEF ClientsSound
  <2>4. ASSUME NEW n \in Mutexes, NEW s \in Live, <<pid[s], n>> \in inside'
        PROVE  owner[n] = s \/ pid[s] \in Range(wait_queue'[n])
    <3>1. CASE <<pid[s], n>> = <<me, m>>
      BY <1>5, <3>1
    <3>2. CASE <<pid[s], n>> \in inside
      BY <1>4, <1>5, <3>2 DEF ClientsSound
    <3> QED
      BY <2>1, <2>4, <3>1, <3>2
  <2>5. ClientsSound'
    BY <1>1, <1>2, <1>12, <2>2, <2>3, <2>4 DEF ClientsSound, Disciplined
  <2>6. OwnersSound'
    <3> SUFFICES ASSUME ~HoldersDie, NEW n \in Mutexes, owner[n] # NULL
                 PROVE  /\ owner[n] \in Live
                        /\ <<pid[owner[n]], n>> \in inside'
                        /\ pid[owner[n]] \notin Range(wait_queue'[n])
      BY <1>1, <1>2 DEF OwnersSound, HoldersDie
    <3>1. /\ owner[n] \in Live
          /\ <<pid[owner[n]], n>> \in inside
          /\ pid[owner[n]] \notin Range(wait_queue[n])
      BY <1>4 DEF OwnersSound
    <3> QED
      BY <1>5, <2>1, <3>1
  <2> QED
    BY <1>7, <1>8, <1>9, <1>10, <2>5, <2>6 DEF TableInv
<1> QED
  BY <1>11, <1>12

\* What an unlock means to its clients.
LEMMA LeaveFacts ==
    ASSUME NEW m \in Mutexes, Leave(m), MayUnlock(m)
    PROVE  /\ inside' = inside \ {<<me, m>>}
           /\ UNCHANGED <<clients, handles, last_lock>>
           /\ m \in handles
           /\ Disciplined => <<me, m>> \in inside
           /\ Disciplined' = Disciplined /\ HoldersDie' = HoldersDie
BY DEF Leave, MayUnlock, Disciplined, HoldersDie

\* Nobody owns the mutex, or the caller was the last to lock it.
LEMMA UnlockLastInv ==
    ASSUME MutexInv, NEW m \in Mutexes, kmutex_unlock_last(m)
    PROVE  TableInv'
<1>1. /\ owner[m] = NULL \/ locks[m] = 1
      /\ owner' = [owner EXCEPT ![m] = NULL]
      /\ locks' = IF owner[m] = NULL THEN locks ELSE [locks EXCEPT ![m] = 0]
      /\ UNCHANGED <<procVars, schedVars, wait_queue, mutex_queue>>
      /\ Caller /\ Leave(m) /\ MayUnlock(m)
  BY DEF kmutex_unlock_last
<1>2. /\ Live' = Live /\ pid' = pid /\ next_pid' = next_pid
      /\ PidsOf("WAITING")' = PidsOf("WAITING")
  BY <1>1, QuietFacts
<1>3. /\ inside' = inside \ {<<me, m>>}
      /\ UNCHANGED <<clients, handles, last_lock>>
      /\ m \in handles
      /\ Disciplined => <<me, m>> \in inside
      /\ Disciplined' = Disciplined /\ HoldersDie' = HoldersDie
  BY <1>1, LeaveFacts
<1>4. MutexTypeOK /\ LocksCount /\ WaitersPlaced /\ IdsSound /\ ClientsSound /\ OwnersSound
  BY DEF MutexInv
<1>5. Len(wait_queue[m]) \in Nat /\ locks[m] \in Nat /\ 0 \in Nat
  BY <1>4 DEF MutexTypeOK
<1>6. locks'[m] = Len(wait_queue[m]) /\ \A n \in Mutexes : n # m => locks'[n] = locks[n]
  <2>1. locks[m] = Len(wait_queue[m]) + IF owner[m] = NULL THEN 0 ELSE 1
    BY <1>4 DEF LocksCount
  <2>2. CASE owner[m] = NULL
    BY <1>1, <1>5, <2>1, <2>2
  <2>3. CASE owner[m] # NULL
    <3>1. Len(wait_queue[m]) = 0
      BY <1>1, <1>5, <2>1, <2>3
    <3> QED
      BY <1>1, <1>4, <2>3, <3>1 DEF MutexTypeOK
  <2> QED
    BY <2>2, <2>3
<1>7. owner'[m] = NULL /\ \A n \in Mutexes : n # m => owner'[n] = owner[n]
  BY <1>1, <1>4 DEF MutexTypeOK
<1>8. MutexTypeOK'
  <2>1. locks' \in [Mutexes -> Nat]
    BY <1>1, <1>4, <1>5 DEF MutexTypeOK
  <2>2. owner' \in [Mutexes -> Slots \cup {NULL}]
    BY <1>1, <1>4 DEF MutexTypeOK
  <2> QED
    BY <1>1, <1>2, <1>3, <1>4, <2>1, <2>2 DEF MutexTypeOK
<1>9. LocksCount'
  <2> SUFFICES ASSUME NEW n \in Mutexes
               PROVE  locks'[n] = Len(wait_queue[n]) + IF owner'[n] = NULL THEN 0 ELSE 1
    BY <1>1 DEF LocksCount
  <2>1. CASE n = m
    BY <1>5, <1>6, <1>7, <2>1
  <2>2. CASE n # m
    BY <1>4, <1>6, <1>7, <2>2 DEF LocksCount
  <2> QED
    BY <2>1, <2>2
<1>10. WaitersPlaced'
  BY <1>1, <1>2, <1>4 DEF WaitersPlaced
<1>11. IdsSound'
  <2>1. m \notin Range(mutex_queue) /\ Range(mutex_queue) \subseteq Mutexes
    BY <1>3, <1>4 DEF IdsSound
  <2> QED
    BY <1>1, <1>3, <1>4, <1>6, <1>7, <2>1 DEF IdsSound
<1>12. CASE ~Disciplined
  <2>1. inside' = {}
    BY <1>3, <1>4, <1>12 DEF ClientsSound
  <2>2. ClientsSound'
    BY <1>3, <1>12, <2>1 DEF ClientsSound
  <2>3. OwnersSound'
    BY <1>3, <1>12 DEF OwnersSound, Disciplined, HoldersDie
  <2> QED
    BY <1>8, <1>9, <1>10, <1>11, <2>2, <2>3 DEF TableInv
<1>13. CASE Disciplined
  <2>1. /\ active_proc \in Live /\ pid[active_proc] = me
        /\ \A s \in Live : pid[s] = me => s = active_proc
        /\ \A n \in Mutexes : me \notin Range(wait_queue[n])
    BY <1>1, CallerFacts DEF me
  <2>2. owner[m] = active_proc
    BY <1>1, <1>3, <1>13, InsiderOwns
  <2>3. \A n \in Mutexes : \A p \in Range(wait_queue[n]) :
            last_lock[p] = n /\ <<p, n>> \in inside'
    <3> SUFFICES ASSUME NEW n \in Mutexes, NEW p \in Range(wait_queue[n])
                 PROVE  last_lock[p] = n /\ <<p, n>> \in inside'
      OBVIOUS
    <3>1. p # me /\ last_lock[p] = n /\ <<p, n>> \in inside
      BY <1>4, <1>13, <2>1 DEF ClientsSound
    <3> QED
      BY <1>3, <3>1
  <2>4. ASSUME NEW n \in Mutexes, NEW s \in Live, <<pid[s], n>> \in inside'
        PROVE  owner'[n] = s \/ pid[s] \in Range(wait_queue[n])
    <3>1. owner[n] = s \/ pid[s] \in Range(wait_queue[n])
      BY <1>3, <1>4, <2>4 DEF ClientsSound
    <3>2. CASE n = m
      BY <1>3, <2>1, <2>2, <2>4, <3>1, <3>2
    <3>3. CASE n # m
      BY <1>7, <3>1, <3>3
    <3> QED
      BY <3>2, <3>3
  <2>5. ClientsSound'
    <3>1. inside' \subseteq (0 .. next_pid' - 1) \X Mutexes
      BY <1>2, <1>3, <1>4 DEF ClientsSound
    <3> QED
      BY <1>1, <1>2, <1>3, <1>13, <2>3, <2>4, <3>1 DEF ClientsSound
  <2>6. OwnersSound'
    <3> SUFFICES ASSUME ~HoldersDie, NEW n \in Mutexes, owner'[n] # NULL
                 PROVE  /\ owner'[n] \in Live
                        /\ <<pid[owner'[n]], n>> \in inside'
                        /\ pid[owner'[n]] \notin Range(wait_queue[n])
      BY <1>1, <1>2, <1>3 DEF OwnersSound
    <3>1. n # m /\ owner'[n] = owner[n]
      BY <1>7
    <3> QED
      BY <1>3, <1>4, <3>1 DEF OwnersSound
  <2> QED
    BY <1>8, <1>9, <1>10, <1>11, <2>5, <2>6 DEF TableInv
<1> QED
  BY <1>12, <1>13

\* The first waiter takes the mutex over.
LEMMA UnlockPassInv ==
    ASSUME MutexInv, NEW m \in Mutexes, kmutex_unlock_pass(m)
    PROVE  TableInv'
<1> DEFINE W == PidsOf("WAITING")
           p == Head(wait_queue[m])
<1>1. /\ owner[m] # NULL /\ wait_queue[m] # <<>>
      /\ owner' = [owner EXCEPT ![m] = pid_to_proc(p)]
      /\ wait_queue' = [wait_queue EXCEPT ![m] = Tail(@)]
      /\ locks' = [locks EXCEPT ![m] = @ - 1]
      /\ UNCHANGED mutex_queue
      /\ WakePid(p)
      /\ Caller /\ Leave(m) /\ MayUnlock(m)
  BY UnlockWakes DEF kmutex_unlock_pass
<1>2. MutexTypeOK /\ LocksCount /\ WaitersPlaced /\ IdsSound /\ ClientsSound /\ OwnersSound
  BY DEF MutexInv
<1>3. PICK w \in Live : w \in Slots /\ w # NULL /\ pid[w] = p /\ pid_to_proc(p) = w
  BY <1>1, WaiterFacts, Zenon
<1>4. p \in W /\ p \in Range(wait_queue[m])
  BY <1>1, WaiterFacts, Zenon
<1>5. /\ W' = W \ {p}
      /\ Live' = Live /\ pid' = pid /\ next_pid' = next_pid
  BY <1>1, <1>4, WakeFacts DEF MutexInv
<1> HIDE DEF W, p
<1>6. /\ Placed(W \ {p}, Mutexes, wait_queue')
      /\ wait_queue' \in [Mutexes -> Seq(Nat)]
      /\ \A n \in Mutexes : Range(wait_queue'[n]) = Range(wait_queue[n]) \ {p}
      /\ \A n \in Mutexes : Len(wait_queue'[n]) =
            IF n = m THEN Len(wait_queue[n]) - 1 ELSE Len(wait_queue[n])
  <2>1. wait_queue \in [Mutexes -> Seq(Nat)] /\ Placed(W, Mutexes, wait_queue)
    BY <1>2, WaitersArePlaced DEF MutexTypeOK, W
  <2>2. p = Head(wait_queue[m]) /\ wait_queue' = Shortened(wait_queue, m) /\ wait_queue[m] # <<>>
    BY <1>1 DEF p, Shortened
  <2>3. Placed(W \ {p}, Mutexes, wait_queue')
    BY <2>1, <2>2, LeaveQueue, Zenon
  <2>4. Shrank(Mutexes, wait_queue, m, wait_queue')
    BY <2>1, <2>2, ShortenedFacts, Zenon
  <2> QED
    BY <2>2, <2>3, <2>4 DEF Shrank
<1>7. /\ inside' = inside \ {<<me, m>>}
      /\ UNCHANGED <<clients, handles, last_lock>>
      /\ m \in handles
      /\ Disciplined => <<me, m>> \in inside
      /\ Disciplined' = Disciplined /\ HoldersDie' = HoldersDie
  BY <1>1, LeaveFacts
<1>8. owner'[m] = w /\ \A n \in Mutexes : n # m => owner'[n] = owner[n]
  BY <1>1, <1>2, <1>3 DEF MutexTypeOK
<1>9. \A n \in Mutexes : locks[n] \in Nat /\ Len(wait_queue[n]) \in Nat
  BY <1>2 DEF MutexTypeOK
<1>10. /\ locks'[m] = locks[m] - 1 /\ \A n \in Mutexes : n # m => locks'[n] = locks[n]
       /\ locks[m] = Len(wait_queue[m]) + 1
  BY <1>1, <1>2 DEF MutexTypeOK, LocksCount
<1>11. MutexTypeOK'
  <2>1. locks[m] - 1 \in Nat
    BY <1>9, <1>10
  <2>2. locks' \in [Mutexes -> Nat]
    BY <1>1, <1>2, <2>1 DEF MutexTypeOK
  <2>3. owner' \in [Mutexes -> Slots \cup {NULL}]
    BY <1>1, <1>2, <1>3 DEF MutexTypeOK
  <2> QED
    BY <1>1, <1>2, <1>5, <1>6, <1>7, <2>2, <2>3 DEF MutexTypeOK
<1>12. LocksCount'
  <2> SUFFICES ASSUME NEW n \in Mutexes
               PROVE  locks'[n] = Len(wait_queue'[n]) + IF owner'[n] = NULL THEN 0 ELSE 1
    BY DEF LocksCount
  <2>1. CASE n = m
    BY <1>3, <1>6, <1>8, <1>9, <1>10, <2>1
  <2>2. CASE n # m
    BY <1>2, <1>6, <1>8, <1>10, <2>2 DEF LocksCount
  <2> QED
    BY <2>1, <2>2
<1>13. WaitersPlaced'
  BY <1>5, <1>6 DEF WaitersPlaced, Placed, W
<1>14. IdsSound'
  <2>1. m \notin Range(mutex_queue) /\ Range(mutex_queue) \subseteq Mutexes
    BY <1>2, <1>7 DEF IdsSound
  <2>2. \A n \in Mutexes : n # m => wait_queue'[n] = wait_queue[n]
    BY <1>1, <1>2 DEF MutexTypeOK
  <2> QED
    BY <1>1, <1>2, <1>7, <1>8, <1>10, <2>1, <2>2 DEF IdsSound
<1>15. CASE ~Disciplined
  <2>1. inside' = {}
    BY <1>2, <1>7, <1>15 DEF ClientsSound
  <2>2. ClientsSound'
    BY <1>7, <1>15, <2>1 DEF ClientsSound
  <2>3. OwnersSound'
    BY <1>7, <1>15 DEF OwnersSound, Disciplined, HoldersDie
  <2> QED
    BY <1>11, <1>12, <1>13, <1>14, <2>2, <2>3 DEF TableInv
<1>16. CASE Disciplined
  <2>1. /\ active_proc \in Live /\ pid[active_proc] = me
        /\ \A s \in Live : pid[s] = me => s = active_proc
        /\ \A n \in Mutexes : me \notin Range(wait_queue[n])
    BY <1>1, CallerFacts DEF me
  <2>2. owner[m] = active_proc
    BY <1>1, <1>7, <1>16, InsiderOwns
  <2>3. \A n \in Mutexes : \A x \in Range(wait_queue'[n]) :
            last_lock[x] = n /\ <<x, n>> \in inside'
    <3> SUFFICES ASSUME NEW n \in Mutexes, NEW x \in Range(wait_queue'[n])
                 PROVE  last_lock[x] = n /\ <<x, n>> \in inside'
      OBVIOUS
    <3>1. x # me /\ last_lock[x] = n /\ <<x, n>> \in inside
      BY <1>2, <1>6, <1>16, <2>1 DEF ClientsSound
    <3> QED
      BY <1>7, <3>1
  <2>4. ASSUME NEW n \in Mutexes, NEW s \in Live, <<pid[s], n>> \in inside'
        PROVE  owner'[n] = s \/ pid[s] \in Range(wait_queue'[n])
    <3>1. owner[n] = s \/ pid[s] \in Range(wait_queue[n])
      BY <1>2, <1>7, <2>4 DEF ClientsSound
    <3>2. CASE n = m
      <4>1. pid[s] \in Range(wait_queue[m])
        BY <1>7, <2>1, <2>2, <2>4, <3>1, <3>2
      <4>2. CASE pid[s] = p
        <5>1. s = w
          BY <1>3, <4>2 DEF MutexInv, Inv, TableSound
        <5> QED
          BY <1>8, <3>2, <5>1
      <4>3. CASE pid[s] # p
        BY <1>6, <3>2, <4>1, <4>3
      <4> QED
        BY <4>2, <4>3
    <3>3. CASE n # m
      <4>1. p \notin Range(wait_queue[n])
        BY <1>2, <1>4, <3>3 DEF WaitersPlaced
      <4> QED
        BY <1>6, <1>8, <3>1, <3>3, <4>1
    <3> QED
      BY <3>2, <3>3
  <2>5. ClientsSound'
    <3>1. inside' \subseteq (0 .. next_pid' - 1) \X Mutexes
      BY <1>2, <1>5, <1>7 DEF ClientsSound
    <3> QED
      BY <1>5, <1>7, <1>16, <2>3, <2>4, <3>1 DEF ClientsSound
  <2>6. OwnersSound'
    <3> SUFFICES ASSUME ~HoldersDie, NEW n \in Mutexes, owner'[n] # NULL
                 PROVE  /\ owner'[n] \in Live
                        /\ <<pid[owner'[n]], n>> \in inside'
                        /\ pid[owner'[n]] \notin Range(wait_queue'[n])
      BY <1>5, <1>7 DEF OwnersSound
    <3>1. CASE n = m
      <4>1. <<p, m>> \in inside /\ p # me
        BY <1>2, <1>4, <1>16, <2>1 DEF ClientsSound
      <4> QED
        BY <1>3, <1>6, <1>7, <1>8, <3>1, <4>1
    <3>2. CASE n # m
      <4>1. /\ owner[n] \in Live
            /\ <<pid[owner[n]], n>> \in inside
            /\ pid[owner[n]] \notin Range(wait_queue[n])
            /\ owner'[n] = owner[n]
        BY <1>2, <1>8, <3>2 DEF OwnersSound
      <4> QED
        BY <1>6, <1>7, <3>2, <4>1
    <3> QED
      BY <3>1, <3>2
  <2> QED
    BY <1>11, <1>12, <1>13, <1>14, <2>5, <2>6 DEF TableInv
<1> QED
  BY <1>15, <1>16

LEMMA StutterInv ==
    ASSUME MutexInv, UNCHANGED <<vars, mutexVars>>
    PROVE  TableInv'
<1>1. UNCHANGED <<procVars, schedVars, locks, owner, wait_queue, mutex_queue,
                  clients, handles, inside, last_lock>>
  BY DEF vars, mutexVars, tableVars, clientVars
<1>2. /\ Live' = Live /\ pid' = pid /\ next_pid' = next_pid
      /\ PidsOf("WAITING")' = PidsOf("WAITING")
  BY <1>1, QuietFacts
<1>3. MutexTypeOK' /\ LocksCount' /\ IdsSound'
  BY <1>1, <1>2 DEF MutexInv, MutexTypeOK, LocksCount, IdsSound
<1>4. WaitersPlaced'
  BY <1>1, <1>2 DEF MutexInv, WaitersPlaced
<1>5. ClientsSound' /\ OwnersSound'
  BY <1>1, <1>2 DEF MutexInv, ClientsSound, OwnersSound, Disciplined, HoldersDie
<1> QED
  BY <1>3, <1>4, <1>5 DEF TableInv

-----------------------------------------------------------------------------
(* The theorems                                                            *)

LEMMA MutexInitInv == MutexInit => MutexInv
<1> SUFFICES ASSUME MutexInit PROVE MutexInv
  OBVIOUS
<1> USE DEF MutexInit
<1>1. Inv
  BY InitInv
<1>2. PidsOf("WAITING") = {}
  BY DEF Init, PidsOf, Live
<1>3. /\ locks = [m \in Mutexes |-> 0]
      /\ owner = [m \in Mutexes |-> NULL]
      /\ wait_queue = [m \in Mutexes |-> <<>>]
      /\ mutex_queue = [i \in 1 .. MutexMax |-> i - 1]
      /\ handles = {} /\ inside = {}
      /\ last_lock = [p \in Pids |-> NULL]
      /\ next_pid = BootProcs
  BY DEF Init
<1>4. MutexMax \in Nat
  BY MutexAssumption
<1> HIDE DEF MutexInit
<1>5. MutexTypeOK
  <2>1. mutex_queue \in Seq(Mutexes)
    BY <1>3, <1>4 DEF Mutexes
  <2>2. next_pid <= MaxPid + 1
    BY <1>3, BootProcsAssumption, ProcMaxAssumption, MaxPidAssumption
  <2> QED
    BY <1>3, <2>1, <2>2 DEF MutexTypeOK
<1>6. LocksCount
  BY <1>3 DEF LocksCount
<1>7. WaitersPlaced
  <2>1. \A m \in Mutexes : Range(wait_queue[m]) = {} /\ IsInjective(wait_queue[m])
    BY <1>3 DEF Range, IsInjective
  <2> QED
    BY <1>2, <2>1 DEF WaitersPlaced
<1>8. IdsSound
  <2>1. IsInjective(mutex_queue)
    BY <1>3, <1>4 DEF IsInjective
  <2>2. Range(mutex_queue) = Mutexes
    <3>1. ASSUME NEW m \in Mutexes PROVE m \in Range(mutex_queue)
      <4>1. m + 1 \in 1 .. MutexMax /\ mutex_queue[m + 1] = m
        BY <1>3, <1>4, <3>1 DEF Mutexes
      <4> QED
        BY <1>3, <4>1 DEF Range
    <3>2. ASSUME NEW i \in 1 .. MutexMax PROVE mutex_queue[i] \in Mutexes
      BY <1>3, <1>4, <3>2 DEF Mutexes
    <3> QED
      BY <1>3, <3>1, <3>2 DEF Range
  <2> QED
    BY <1>3, <2>1, <2>2 DEF IdsSound
<1>9. ClientsSound /\ OwnersSound
  <2>1. \A m \in Mutexes : Range(wait_queue[m]) = {} /\ owner[m] = NULL
    BY <1>3 DEF Range
  <2> QED
    BY <1>3, <2>1 DEF ClientsSound, OwnersSound
<1> QED
  BY <1>1, <1>5, <1>6, <1>7, <1>8, <1>9 DEF MutexInv

LEMMA MutexStep ==
    ASSUME MutexInv, [MutexNext]_<<vars, mutexVars>>
    PROVE  [Next]_vars
BY StepOfKProc

LEMMA MutexNextInv ==
    ASSUME MutexInv, [MutexNext]_<<vars, mutexVars>>
    PROVE  MutexInv'
<1>1. Inv'
  BY MutexStep, NextInv DEF MutexInv
<1>2. CASE MutexNext
  <2>1. ASSUME ProcWork \/ kmutex_init PROVE TableInv'
    BY <1>1, <2>1, ProcWorkInv, InitCallInv
  <2>2. ASSUME NEW m \in Mutexes, MutexCall(m) PROVE TableInv'
    BY <2>2, DestroyCallInv, LockFreeInv, LockTakenInv, UnlockLastInv, UnlockPassInv
    DEF MutexCall, kmutex_unlock
  <2> QED
    BY <1>1, <1>2, <2>1, <2>2 DEF MutexNext, MutexInv, TableInv
<1>3. CASE UNCHANGED <<vars, mutexVars>>
  BY <1>1, <1>3, StutterInv DEF MutexInv, TableInv
<1> QED
  BY <1>2, <1>3

(***************************************************************************)
(* The invariant that the theorems below take their parts from holds in    *)
(* every reachable state, for every number of processes and mutexes and    *)
(* for clients of every kind.                                              *)
(***************************************************************************)
THEOREM MutexSafety == MutexSpec => []MutexInv
BY MutexInitInv, MutexNextInv, PTL DEF MutexSpec

(***************************************************************************)
(* kmutex_lock and kmutex_unlock keep the count and the wait queue in      *)
(* step, so no waiter is stranded, whoever locks and unlocks.              *)
(***************************************************************************)
THEOREM LocksCounted == MutexSpec => []LocksCount
<1>1. MutexInv => LocksCount
  BY DEF MutexInv
<1> QED
  BY <1>1, MutexSafety, PTL

(***************************************************************************)
(* A process waits exactly when it is in one wait queue, once.             *)
(***************************************************************************)
THEOREM MutexWaitersPlaced == MutexSpec => []WaitersPlaced
<1>1. MutexInv => WaitersPlaced
  BY DEF MutexInv
<1> QED
  BY <1>1, MutexSafety, PTL

(***************************************************************************)
(* kmutex_init and kmutex_destroy never leak an id, never hand one out     *)
(* twice, and hand out no mutex that is owned or waited for.               *)
(***************************************************************************)
THEOREM MutexIdsSound == MutexSpec => []IdsSound
<1>1. MutexInv => IdsSound
  BY DEF MutexInv
<1> QED
  BY <1>1, MutexSafety, PTL

(***************************************************************************)
(* The mutex calls drive the scheduler only in the ways that KProc allows, *)
(* so what is proved of KProc, NoPanic and Placement included, holds with  *)
(* them: in particular a full wait queue, which would leave a caller in    *)
(* the state WAITING on the CPU, and an unknown waiter never come up.      *)
(***************************************************************************)
THEOREM MutexImplementsKProc == MutexSpec => ImplementsKProc
<1>1. MutexInit => Init
  BY DEF MutexInit
<1>2. MutexInv /\ [MutexNext]_<<vars, mutexVars>> => [Next]_vars
  BY MutexStep
<1> QED
  BY <1>1, <1>2, MutexSafety, PTL DEF MutexSpec, ImplementsKProc, Spec

\* A process that is back from lock is the owner.
LEMMA HolderOwns ==
    ASSUME MutexInv, NEW m \in Mutexes, NEW p, Holds(p, m)
    PROVE  \E s \in Live : pid[s] = p /\ owner[m] = s
<1>1. PICK s \in Live : pid[s] = p /\ (state[s] = "WAITING" => last_lock[p] # m)
  BY DEF Holds
<1>2. <<pid[s], m>> \in inside /\ Disciplined
  BY <1>1 DEF Holds, MutexInv, ClientsSound
<1>3. CASE p \in Range(wait_queue[m])
  <2>1. p \in PidsOf("WAITING") /\ last_lock[p] = m
    BY <1>2, <1>3 DEF MutexInv, WaitersPlaced, ClientsSound
  <2>2. PICK t \in Live : pid[t] = p /\ state[t] = "WAITING"
    BY <2>1 DEF PidsOf
  <2>3. t = s
    BY <1>1, <2>2 DEF MutexInv, Inv, TableSound
  <2> QED
    BY <1>1, <2>1, <2>2, <2>3
<1>4. CASE p \notin Range(wait_queue[m])
  BY <1>1, <1>2, <1>4 DEF MutexInv, ClientsSound
<1> QED
  BY <1>3, <1>4

(***************************************************************************)
(* Two processes are never back from lock on the same mutex, if each       *)
(* unlocks only what it locked: also when holders end without unlocking,   *)
(* and when a mutex passes to a process that runs much later.              *)
(***************************************************************************)
THEOREM MutualExclusionHolds == MutexSpec => []MutualExclusion
<1>1. MutexInv => MutualExclusion
  <2> SUFFICES ASSUME MutexInv, NEW m \in Mutexes, NEW p \in Pids, NEW q \in Pids,
                      Holds(p, m), Holds(q, m)
               PROVE  p = q
    BY DEF MutualExclusion
  <2>1. \E s \in Live : pid[s] = p /\ owner[m] = s
    BY HolderOwns
  <2>2. \E s \in Live : pid[s] = q /\ owner[m] = s
    BY HolderOwns
  <2> QED
    BY <2>1, <2>2
<1> QED
  BY <1>1, MutexSafety, PTL

(***************************************************************************)
(* Unless processes end while they hold a mutex, its owner is a live       *)
(* process that is back from lock.                                         *)
(***************************************************************************)
THEOREM OwnersHold == MutexSpec => [](~HoldersDie => OwnerHolds)
<1>1. MutexInv => (~HoldersDie => OwnerHolds)
  <2> SUFFICES ASSUME MutexInv, ~HoldersDie, NEW m \in Mutexes, owner[m] # NULL
               PROVE  owner[m] \in Live /\ Holds(pid[owner[m]], m)
    BY DEF OwnerHolds
  <2> DEFINE s == owner[m]
             p == pid[s]
  <2>1. s \in Live /\ <<p, m>> \in inside /\ p \notin Range(wait_queue[m])
    BY DEF MutexInv, OwnersSound
  <2>2. ASSUME state[s] = "WAITING" PROVE last_lock[p] # m
    <3>1. p \in PidsOf("WAITING")
      BY <2>1, <2>2 DEF PidsOf
    <3>2. PICK n \in Mutexes : p \in Range(wait_queue[n])
      BY <3>1 DEF MutexInv, WaitersPlaced
    <3>3. Disciplined
      BY <2>1 DEF MutexInv, ClientsSound
    <3> QED
      BY <2>1, <3>2, <3>3 DEF MutexInv, ClientsSound
  <2> QED
    BY <2>1, <2>2 DEF Holds
<1> QED
  BY <1>1, MutexSafety, PTL

(***************************************************************************)
(* Waiters are served in the order in which they called lock: a step adds  *)
(* one at the end of a wait queue, or takes the first one out.             *)
(***************************************************************************)
THEOREM MutexWaitersInOrder == MutexSpec => WaitersInOrder
<1> DEFINE Ordered == \A m \in Mutexes :
             \/ \E p \in Pids : wait_queue'[m] = Append(wait_queue[m], p)
             \/ wait_queue[m] # <<>> /\ wait_queue'[m] = Tail(wait_queue[m])
             \/ wait_queue'[m] = wait_queue[m]
<1>1. ASSUME MutexInv, [MutexNext]_<<vars, mutexVars>> PROVE [Ordered]_wait_queue
  <2>1. wait_queue \in [Mutexes -> Seq(Nat)]
    BY <1>1 DEF MutexInv, MutexTypeOK
  <2>2. CASE kmutex_init
    <3>1. mutex_queue \in Seq(Mutexes) /\ mutex_queue # <<>>
      BY <1>1, <2>2 DEF kmutex_init, MutexInv, MutexTypeOK
    <3>2. Head(mutex_queue) \in Range(mutex_queue)
      BY <1>1, <3>1, TailFacts DEF MutexInv, IdsSound
    <3>3. wait_queue[Head(mutex_queue)] = <<>>
      BY <1>1, <3>2 DEF MutexInv, IdsSound
    <3> QED
      BY <2>1, <2>2, <3>3 DEF kmutex_init
  <2>3. ASSUME NEW m \in Mutexes, kmutex_lock_taken(m) PROVE Ordered
    <3>1. wait_queue' = [wait_queue EXCEPT ![m] = Append(@, me)]
      BY <1>1, <2>3, LockBlocks
    <3>2. me \in Pids
      BY <1>1, <2>3, CallerFacts DEF kmutex_lock_taken
    <3> QED
      BY <2>1, <3>1, <3>2
  <2>4. ASSUME NEW m \in Mutexes, kmutex_unlock_pass(m) PROVE Ordered
    <3>1. /\ wait_queue[m] # <<>>
          /\ wait_queue' = [wait_queue EXCEPT ![m] = Tail(@)]
      BY <1>1, <2>4, UnlockWakes
    <3> QED
      BY <2>1, <3>1
  <2>5. CASE \/ ProcWork
             \/ \E m \in Mutexes : \/ kmutex_destroy(m)
                                   \/ kmutex_lock_free(m)
                                   \/ kmutex_unlock_last(m)
    BY <2>5 DEF ProcWork, mutexVars, tableVars, kmutex_destroy, kmutex_lock_free,
                kmutex_unlock_last
  <2>6. CASE UNCHANGED <<vars, mutexVars>>
    BY <2>6 DEF mutexVars, tableVars
  <2> HIDE DEF Ordered
  <2> QED
    BY <1>1, <2>2, <2>3, <2>4, <2>5, <2>6 DEF MutexNext, MutexCall, kmutex_unlock
<1>2. MutexInv /\ [MutexNext]_<<vars, mutexVars>> => [Ordered]_wait_queue
  BY <1>1
<1> QED
  BY <1>2, MutexSafety, PTL DEF MutexSpec, WaitersInOrder


-----------------------------------------------------------------------------
(* The shells: the invariant                                               *)

Labels == {"check", "init", "store", "nap", "load", "lock", "use", "reload", "unlock",
           "command", "exit", "gone"}
Topics == {"mutex", "first", "again", "any"} \cup Why
Steps == Labels \X Topics

ShellTypes ==
    /\ pc \in [Shell -> Steps]
    /\ eax \in [Shell -> Int]
    /\ shell_mutex \in [{0, 1} -> Mutexes \cup {-1}]
    /\ users \subseteq Shell
    /\ late \in BOOLEAN
    /\ clients = "wild"

(***************************************************************************)
(* An id that is stored, or about to be, was given by kmutex_init and      *)
(* never taken back; a shell past its set-up finds one; and the one it has *)
(* loaded for a call is such an id.                                        *)
(***************************************************************************)
IdsStored ==
    /\ \A x \in {0, 1} : shell_mutex[x] # -1 => shell_mutex[x] \in handles
    /\ \A p \in Shell :
          /\ pc[p][1] = "store" => eax[p] \in handles
          /\ pc[p][1] \notin {"check", "init", "store"} => shell_mutex[p % 2] # -1
          /\ pc[p][1] \in {"lock", "unlock"} => eax[p] \in handles

\* Process p owns the mutex of its parity, or waits for it.
Owns(p) ==
    LET m == shell_mutex[p % 2]
    IN  \A s \in Live : pid[s] = p => owner[m] = s \/ p \in Range(wait_queue[m])

\* What shell p has to do with its mutex, once the mutex does not change any more.
Settled(p) ==
    /\ pc[p][1] \in {"lock", "use", "reload", "unlock"} => p \in users
    /\ pc[p][1] \in {"lock", "unlock"} => eax[p] = shell_mutex[p % 2]
    /\ pc[p][1] \in {"use", "reload", "unlock"} => Owns(p)

OwnersKnown == ~late => \A p \in Shell : Settled(p)

ShellInv == MutexInv /\ ShellTypes /\ IdsStored /\ OwnersKnown

-----------------------------------------------------------------------------
(* The active shell                                                        *)

LEMMA ShellFacts ==
    ASSUME NEW p \in Shell
    PROVE  p \in Nat /\ p # 0 /\ p % 2 \in {0, 1}
BY ShellAssumption, BootProcsAssumption, ProcMaxAssumption

LEMMA AtFacts ==
    ASSUME ShellInv, NEW step, At(step)
    PROVE  /\ me \in Shell /\ pc[me] = step /\ Caller /\ phase = "user"
           /\ me \in Nat /\ me % 2 \in {0, 1}
<1>1. me \in Shell /\ pc[me] = step /\ Caller /\ phase = "user"
  BY DEF At, me, ShellInv, ShellTypes
<1> QED
  BY <1>1, ShellFacts

\* The active shell goes on; the others stay where they are.
LEMMA GotoFacts ==
    ASSUME ShellInv, me \in Shell, NEW next \in Steps, Goto(next)
    PROVE  /\ pc' \in [Shell -> Steps]
           /\ pc'[me] = next
           /\ \A p \in Shell : p # me => pc'[p] = pc[p]
BY DEF ShellInv, ShellTypes, Goto, me

LEMMA LoadFacts ==
    ASSUME ShellInv, me \in Shell, NEW value \in Int, Load(value)
    PROVE  /\ eax' \in [Shell -> Int]
           /\ eax'[me] = value
           /\ \A p \in Shell : p # me => eax'[p] = eax[p]
BY DEF ShellInv, ShellTypes, Load, me

LEMMA ReturnFacts ==
    ASSUME ShellInv, me \in Shell, NEW call \in Int, NEW value \in Int, Return(call, value)
    PROVE  /\ eax' \in [Shell -> Int]
           /\ active_proc' # NULL => eax'[me] = value
           /\ \A p \in Shell : p # me => eax'[p] = eax[p]
<1> DEFINE rc == IF active_proc' = NULL THEN call ELSE value
<1>1. rc \in Int /\ Load(rc)
  BY DEF Return
<1> QED
  BY <1>1, LoadFacts

\* The processes of the next state are processes of this one.
SameProcesses == \A s \in Live' : s \in Live /\ pid'[s] = pid[s]

LEMMA SameProcessesIf ==
    ASSUME Inv, KernelWork \/ UNCHANGED procVars \/ ProcExit
    PROVE  SameProcesses
<1>1. CASE UNCHANGED procVars
  BY <1>1 DEF SameProcesses, procVars, Live
<1>2. CASE KernelWork
  BY <1>2 DEF KernelWork, TimerTick, KernelStep, TimerWake, TimerCountDown, TimerDone,
     SchedulerRun, SchedulerKeep, SchedulerSwitch, SameProcesses, procVars, Live
<1>3. CASE ProcExit
  <2>1. pid \in [Slots -> Int]
    BY DEF Inv, TypeOK
  <2>2. (\E e : pid' = [pid EXCEPT ![e] = -1]) \/ pid' = pid
    BY <1>3 DEF ProcExit, kproc_destroy, Release, ClearFields, procVars
  <2> QED
    BY <2>1, <2>2 DEF SameProcesses, Live
<1> QED
  BY <1>1, <1>2, <1>3

\* Whoever owns a mutex that a step does not touch still does.
LEMMA StillOwns ==
    ASSUME NEW p, Owns(p), SameProcesses, NEW m, m = shell_mutex[p % 2],
           shell_mutex'[p % 2] = m, owner'[m] = owner[m], wait_queue'[m] = wait_queue[m]
    PROVE  Owns(p)'
BY DEF Owns, SameProcesses

-----------------------------------------------------------------------------
(* Every step is a step of KMutex                                          *)

LEMMA CalledIds ==
    ASSUME ShellInv, me \in Shell, pc[me][1] \in {"lock", "unlock"}
    PROVE  /\ eax[me] \in handles /\ eax[me] \in Mutexes
           /\ ~late => eax[me] = shell_mutex[me % 2]
BY DEF ShellInv, IdsStored, OwnersKnown, Settled, MutexInv, MutexTypeOK

LEMMA StepOfKMutex ==
    ASSUME ShellInv, ShellNext
    PROVE  MutexNext \/ UNCHANGED <<vars, mutexVars>>
<1>1. HoldersDie
  BY DEF ShellInv, ShellTypes, HoldersDie
<1>2. ASSUME KernelWork \/ ProcEntry, UNCHANGED mutexVars PROVE MutexNext
  BY <1>1, <1>2 DEF MutexNext, ProcWork
<1>3. ASSUME NEW why \in Why, mutex_lock(why) \/ mutex_unlock(why) PROVE MutexNext
  <2>1. me \in Shell /\ pc[me][1] \in {"lock", "unlock"}
    BY <1>3, AtFacts DEF mutex_lock, mutex_unlock
  <2>2. eax[me] \in Mutexes
    BY <2>1, CalledIds
  <2> QED
    BY <1>3, <2>2 DEF mutex_lock, mutex_unlock, MutexNext, MutexCall
<1>4. CASE mutex_init
  BY <1>4 DEF mutex_init, MutexNext
<1>5. CASE Check \/ Store \/ Command
  BY <1>5 DEF Check, Store, Command, Local
<1>6. CASE proc_sleep("first") \/ proc_sleep("again")
  <2>1. me \in Shell
    BY <1>6, AtFacts DEF proc_sleep
  <2>2. Nap[me] \in Seconds
    BY <2>1, ShellAssumption
  <2> QED
    BY <1>2, <1>6, <2>2 DEF proc_sleep, ProcEntry
<1>7. ASSUME NEW why \in Why,
             LoadId("load", why, "lock") \/ LoadId("reload", why, "unlock")
      PROVE  UNCHANGED <<vars, mutexVars>>
  BY <1>7 DEF LoadId, Local
<1>8. ASSUME NEW why \in Why, Use(why) PROVE MutexNext
  <2>1. me \in Shell
    BY <1>8, AtFacts DEF Use
  <2>2. Nap[me] \in Seconds
    BY <2>1, ShellAssumption
  <2> QED
    BY <1>2, <1>8, <2>2 DEF Use, ProcEntry
<1>9. CASE proc_exit
  BY <1>2, <1>9 DEF proc_exit, ProcEntry
<1>10. CASE Meanwhile
  BY <1>2, <1>10 DEF Meanwhile
<1> QED
  BY <1>3, <1>4, <1>5, <1>6, <1>7, <1>8, <1>9, <1>10 DEF ShellNext, ShellStep

-----------------------------------------------------------------------------
(* The steps keep the invariant                                            *)

SettledInv == ShellTypes /\ IdsStored /\ OwnersKnown

\* What a step has to say of the active shell, which goes on to next, and of
\* the owners, for the invariant to hold again.
LEMMA ShellMoves ==
    ASSUME ShellInv, NEW q \in Shell, q = me, NEW next \in Steps, Goto(next),
           eax' \in [Shell -> Int], \A p \in Shell : p # q => eax'[p] = eax[p],
           UNCHANGED <<shell_mutex, late, clients>>,
           users \subseteq users', users' \subseteq Shell, handles \subseteq handles',
           next[1] = "store" => eax'[q] \in handles',
           next[1] \notin {"check", "init", "store"} => shell_mutex[q % 2] # -1,
           next[1] \in {"lock", "unlock"} => eax'[q] = shell_mutex[q % 2],
           next[1] \in {"lock", "use", "reload", "unlock"} /\ ~late => q \in users',
           next[1] \in {"use", "reload", "unlock"} /\ ~late => Owns(q)',
           \A p \in Shell : p # q /\ ~late /\ shell_mutex[p % 2] \in handles /\ Owns(p)
               => Owns(p)'
    PROVE  SettledInv'
<1>1. /\ pc' \in [Shell -> Steps] /\ pc'[q] = next
      /\ \A p \in Shell : p # q => pc'[p] = pc[p]
  BY GotoFacts
<1>2. ShellTypes'
  BY <1>1 DEF ShellInv, ShellTypes
<1>3. \A p \in Shell : p % 2 \in {0, 1}
  BY ShellFacts
<1>4. \A x \in {0, 1} : shell_mutex[x] # -1 => shell_mutex[x] \in handles
  BY DEF ShellInv, IdsStored
<1>5. IdsStored'
  BY <1>1, <1>3, <1>4 DEF ShellInv, IdsStored
<1>6. ASSUME ~late, NEW p \in Shell PROVE Settled(p)'
  <2>1. CASE p = q
    BY <1>1, <1>6, <2>1 DEF Settled
  <2>2. CASE p # q
    <3>1. Settled(p) /\ pc'[p] = pc[p] /\ eax'[p] = eax[p]
      BY <1>1, <1>6, <2>2 DEF ShellInv, OwnersKnown
    <3>2. pc[p][1] \in {"use", "reload", "unlock"} => shell_mutex[p % 2] \in handles
      BY <1>3, <1>4 DEF ShellInv, IdsStored
    <3>3. pc[p][1] \in {"use", "reload", "unlock"} => Owns(p)'
      BY <1>6, <2>2, <3>1, <3>2 DEF Settled
    <3> QED
      BY <3>1, <3>3 DEF Settled
  <2> QED
    BY <2>1, <2>2
<1>7. OwnersKnown'
  BY <1>6 DEF OwnersKnown
<1> QED
  BY <1>2, <1>5, <1>7 DEF SettledInv

\* The steps that do not touch a mutex, or only one that nobody has been given.
LEMMA QuietMoves ==
    ASSUME ShellInv, NEW q \in Shell, q = me, NEW next \in Steps, Goto(next),
           eax' \in [Shell -> Int], \A p \in Shell : p # q => eax'[p] = eax[p],
           UNCHANGED <<shell_mutex, late, clients>>,
           users \subseteq users', users' \subseteq Shell, handles \subseteq handles',
           next[1] = "store" => eax'[q] \in handles',
           next[1] \notin {"check", "init", "store"} => shell_mutex[q % 2] # -1,
           next[1] \in {"lock", "unlock"} => eax'[q] = shell_mutex[q % 2],
           next[1] \in {"lock", "use", "reload", "unlock"} /\ ~late => q \in users',
           next[1] \in {"use", "reload", "unlock"} => pc[q][1] \in {"use", "reload", "unlock"},
           SameProcesses,
           \A m \in handles : owner'[m] = owner[m] /\ wait_queue'[m] = wait_queue[m]
    PROVE  SettledInv'
<1>1. ASSUME NEW p \in Shell, shell_mutex[p % 2] \in handles, Owns(p) PROVE Owns(p)'
  BY <1>1, StillOwns
<1>2. next[1] \in {"use", "reload", "unlock"} /\ ~late => Owns(q)'
  <2> SUFFICES ASSUME pc[q][1] \in {"use", "reload", "unlock"}, ~late PROVE Owns(q)'
    OBVIOUS
  <2>1. q % 2 \in {0, 1}
    BY ShellFacts
  <2>2. Owns(q) /\ shell_mutex[q % 2] \in handles
    BY <2>1 DEF ShellInv, OwnersKnown, Settled, IdsStored
  <2> QED
    BY <1>1, <2>2
<1> QED
  BY <1>1, <1>2, ShellMoves

LEMMA CheckKeeps ==
    ASSUME ShellInv, Check
    PROVE  SettledInv'
<1>1. PICK q \in Shell : q = me /\ pc[q] = <<"check", "mutex">> /\ q % 2 \in {0, 1}
  BY AtFacts DEF Check
<1> DEFINE next == IF shell_mutex[q % 2] < 0 THEN <<"init", "mutex">> ELSE <<"nap", "first">>
<1>2. next \in Steps /\ Goto(next)
  BY <1>1 DEF Check, Mine, Steps, Labels, Topics
<1>3. next[1] \in {"init", "nap"} /\ (next[1] = "nap" => shell_mutex[q % 2] # -1)
  OBVIOUS
<1> HIDE DEF next
<1>4. /\ UNCHANGED <<eax, shell_mutex, users, late, clients, handles, owner, wait_queue>>
      /\ UNCHANGED procVars
  BY DEF Check, Local, observers, vars, mutexVars, tableVars, clientVars
<1>5. eax' \in [Shell -> Int] /\ users' \subseteq Shell
  BY <1>4 DEF ShellInv, ShellTypes
<1>6. SameProcesses
  BY <1>4, SameProcessesIf DEF ShellInv, MutexInv
<1> QED
  BY <1>1, <1>2, <1>3, <1>4, <1>5, <1>6, QuietMoves

\* The ids that are handed out are not those of the mutexes in use.
LEMMA InitKeeps ==
    ASSUME ShellInv, mutex_init
    PROVE  SettledInv'
<1> DEFINE id == Head(mutex_queue)
           next == <<"store", "mutex">>
<1>1. PICK q \in Shell : q = me
  BY AtFacts DEF mutex_init
<1>2. next \in Steps /\ Goto(next)
  BY DEF mutex_init, Steps, Labels, Topics
<1>3. id \in Mutexes /\ id \notin handles
  <2>1. /\ mutex_queue \in Seq(Mutexes) /\ mutex_queue # <<>>
        /\ IsInjective(mutex_queue) /\ Range(mutex_queue) = Mutexes \ handles
    BY DEF ShellInv, MutexInv, MutexTypeOK, IdsSound, mutex_init, kmutex_init
  <2> QED
    BY <2>1, TailFacts
<1>4. /\ UNCHANGED <<shell_mutex, users, late, clients>> /\ UNCHANGED procVars
      /\ owner' = [owner EXCEPT ![id] = NULL] /\ wait_queue' = [wait_queue EXCEPT ![id] = <<>>]
      /\ handles' = handles \cup {id}
      /\ active_proc' = active_proc /\ active_proc # NULL
      /\ Return(SYSCALL_MUTEX_INIT, id)
  BY DEF mutex_init, kmutex_init, observers, schedVars, Caller
<1> HIDE DEF id
<1>5. /\ eax' \in [Shell -> Int] /\ eax'[q] = id
      /\ \A p \in Shell : p # q => eax'[p] = eax[p]
  <2>1. id \in Int /\ SYSCALL_MUTEX_INIT \in Int
    BY <1>3 DEF Mutexes, SYSCALL_MUTEX_INIT
  <2> QED
    BY <1>1, <1>4, <2>1, ReturnFacts
<1>6. \A m \in handles : owner'[m] = owner[m] /\ wait_queue'[m] = wait_queue[m]
  BY <1>3, <1>4 DEF ShellInv, MutexInv, MutexTypeOK
<1>7. SameProcesses
  BY <1>4, SameProcessesIf DEF ShellInv, MutexInv
<1>8. users' \subseteq Shell
  BY <1>4 DEF ShellInv, ShellTypes
<1>9. next[1] = "store"
  OBVIOUS
<1> HIDE DEF next
<1> QED
  BY <1>1, <1>2, <1>3, <1>4, <1>5, <1>6, <1>7, <1>8, <1>9, QuietMoves

\* A store changes the mutex of shells that have not loaded one, or it is late.
LEMMA StoreKeeps ==
    ASSUME ShellInv, Store
    PROVE  SettledInv'
<1>1. PICK q \in Shell : q = me /\ pc[q] = <<"store", "mutex">> /\ q % 2 \in {0, 1}
  BY AtFacts DEF Store
<1>2. /\ shell_mutex' = [shell_mutex EXCEPT ![q % 2] = eax[q]]
      /\ late' = (late \/ \E p \in users : p % 2 = q % 2)
      /\ UNCHANGED <<eax, users, clients, handles, owner, wait_queue, pid, active_proc>>
      /\ Goto(<<"nap", "first">>)
  BY <1>1 DEF Store, Local, observers, vars, procVars, schedVars, mutexVars, tableVars, clientVars, me
<1>3. /\ pc' \in [Shell -> Steps] /\ pc'[q] = <<"nap", "first">>
      /\ \A p \in Shell : p # q => pc'[p] = pc[p]
  <2>1. <<"nap", "first">> \in Steps
    BY DEF Steps, Labels, Topics
  <2> QED
    BY <1>1, <1>2, <2>1, GotoFacts
<1>4. eax[q] \in handles /\ eax[q] \in Mutexes /\ eax[q] # -1
  <2>1. eax[q] \in handles
    BY <1>1 DEF ShellInv, IdsStored
  <2>2. eax[q] \in Mutexes
    BY <2>1 DEF ShellInv, MutexInv, MutexTypeOK
  <2>3. \A m \in Mutexes : m # -1
    BY MutexAssumption DEF Mutexes
  <2> QED
    BY <2>1, <2>2, <2>3
<1>5. ShellTypes'
  BY <1>2, <1>3, <1>4 DEF ShellInv, ShellTypes
<1>6. \A p \in Shell : p % 2 \in {0, 1}
  BY ShellFacts
<1>7. \A x \in {0, 1} : shell_mutex'[x] = IF x = q % 2 THEN eax[q] ELSE shell_mutex[x]
  BY <1>1, <1>2 DEF ShellInv, ShellTypes
<1>8. IdsStored'
  BY <1>1, <1>2, <1>3, <1>4, <1>6, <1>7 DEF ShellInv, IdsStored
<1>9. ASSUME ~late', NEW p \in Shell PROVE Settled(p)'
  <2>1. ~late /\ \A r \in users : r % 2 # q % 2
    BY <1>2, <1>9
  <2>2. CASE p = q
    BY <1>3, <2>2 DEF Settled
  <2>3. CASE p # q
    <3>1. Settled(p) /\ pc'[p] = pc[p]
      BY <1>3, <2>1, <2>3 DEF ShellInv, OwnersKnown
    <3>2. CASE p \in users
      <4>1. shell_mutex'[p % 2] = shell_mutex[p % 2]
        BY <1>6, <1>7, <2>1, <3>2
      <4>2. Owns(p) => Owns(p)'
        BY <1>2, <4>1 DEF Owns, Live
      <4> QED
        BY <1>2, <3>1, <3>2, <4>1, <4>2 DEF Settled
    <3>3. CASE p \notin users
      BY <1>2, <3>1, <3>3 DEF Settled
    <3> QED
      BY <3>2, <3>3
  <2> QED
    BY <2>2, <2>3
<1> QED
  BY <1>5, <1>8, <1>9 DEF SettledInv, OwnersKnown

\* A shell past its set-up finds the id of a mutex.
LEMMA SetUp ==
    ASSUME ShellInv, NEW p \in Shell, pc[p][1] \notin {"check", "init", "store"}
    PROVE  shell_mutex[p % 2] # -1 /\ shell_mutex[p % 2] \in handles
BY ShellFacts DEF ShellInv, IdsStored

\* The calls and steps that leave the mutexes alone.
LEMMA KernelQuiet ==
    ASSUME ShellInv, UNCHANGED mutexVars, UNCHANGED <<shell_mutex, late>>,
           \/ UNCHANGED vars
           \/ ProcExit \/ OtherEntry \/ KernelWork
           \/ \E seconds \in Int : ProcSleep(seconds)
    PROVE  /\ SameProcesses
           /\ UNCHANGED <<shell_mutex, late, clients, handles>> /\ handles \subseteq handles'
           /\ \A m \in handles : owner'[m] = owner[m] /\ wait_queue'[m] = wait_queue[m]
<1>1. Inv
  BY DEF ShellInv, MutexInv
<1>2. KernelWork \/ UNCHANGED procVars \/ ProcExit
  BY DEF OtherEntry, ProcSleep, vars
<1>3. SameProcesses
  BY <1>1, <1>2, SameProcessesIf
<1> QED
  BY <1>3 DEF mutexVars, tableVars, clientVars

LEMMA SleepKeeps ==
    ASSUME ShellInv, NEW which \in {"first", "again"}, proc_sleep(which)
    PROVE  SettledInv'
<1> DEFINE next == <<"load", "read">>
<1>1. PICK q \in Shell : q = me /\ pc[q] = <<"nap", which>>
  BY AtFacts DEF proc_sleep
<1>2. next \in Steps /\ Goto(next) /\ next[1] = "load"
  BY DEF proc_sleep, Steps, Labels, Topics, Why
<1> HIDE DEF next
<1>3. /\ Return(SYSCALL_PROC_SLEEP, 0) /\ ProcSleep(Nap[q])
      /\ UNCHANGED mutexVars /\ UNCHANGED <<shell_mutex, late>> /\ users' = users
  BY <1>1 DEF proc_sleep, observers
<1>4. SYSCALL_PROC_SLEEP \in Int /\ 0 \in Int /\ Nap[q] \in Int
  BY ShellAssumption, SleepAssumption DEF SYSCALL_PROC_SLEEP
<1>5. eax' \in [Shell -> Int] /\ \A p \in Shell : p # q => eax'[p] = eax[p]
  BY <1>1, <1>3, <1>4, ReturnFacts
<1>6. /\ SameProcesses
      /\ UNCHANGED <<shell_mutex, late, clients, handles>> /\ handles \subseteq handles'
      /\ \A m \in handles : owner'[m] = owner[m] /\ wait_queue'[m] = wait_queue[m]
  BY <1>3, <1>4, KernelQuiet
<1>7. users \subseteq users' /\ users' \subseteq Shell
  BY <1>3 DEF ShellInv, ShellTypes
<1>8. shell_mutex[q % 2] # -1
  BY <1>1, SetUp
<1> QED
  BY <1>1, <1>2, <1>5, <1>6, <1>7, <1>8, QuietMoves

LEMMA LoadKeeps ==
    ASSUME ShellInv, NEW why \in Why, NEW label, NEW to,
           <<label, to>> \in {<<"load", "lock">>, <<"reload", "unlock">>},
           LoadId(label, why, to)
    PROVE  SettledInv'
<1> DEFINE next == <<to, why>>
<1>1. PICK q \in Shell : q = me /\ pc[q] = <<label, why>> /\ q % 2 \in {0, 1}
  BY AtFacts DEF LoadId
<1>2. next \in Steps /\ Goto(next) /\ next[1] = to
  BY DEF LoadId, Steps, Labels, Topics
<1> HIDE DEF next
<1>3. /\ Load(shell_mutex[q % 2]) /\ users' = users \cup {q}
      /\ UNCHANGED vars /\ UNCHANGED mutexVars /\ UNCHANGED <<shell_mutex, late>>
  BY <1>1 DEF LoadId, Mine, Local
<1>4. shell_mutex[q % 2] \in Int
  BY <1>1 DEF ShellInv, ShellTypes, Mutexes
<1>5. /\ eax' \in [Shell -> Int] /\ eax'[q] = shell_mutex[q % 2]
      /\ \A p \in Shell : p # q => eax'[p] = eax[p]
  BY <1>1, <1>3, <1>4, LoadFacts
<1>6. /\ SameProcesses
      /\ UNCHANGED <<shell_mutex, late, clients, handles>> /\ handles \subseteq handles'
      /\ \A m \in handles : owner'[m] = owner[m] /\ wait_queue'[m] = wait_queue[m]
  BY <1>3, KernelQuiet
<1>7. users \subseteq users' /\ users' \subseteq Shell /\ q \in users'
  BY <1>3 DEF ShellInv, ShellTypes
<1>8. shell_mutex[q % 2] # -1
  BY <1>1, SetUp
<1> QED
  BY <1>1, <1>2, <1>5, <1>6, <1>7, <1>8, QuietMoves

LEMMA UseKeeps ==
    ASSUME ShellInv, NEW why \in Why, Use(why)
    PROVE  SettledInv'
<1> DEFINE next == <<"reload", why>>
<1>1. PICK q \in Shell : q = me /\ pc[q] = <<"use", why>> /\ q % 2 \in {0, 1}
  BY AtFacts DEF Use
<1>2. next \in Steps /\ Goto(next) /\ next[1] = "reload"
  BY DEF Use, Steps, Labels, Topics
<1> HIDE DEF next
<1>3. /\ Return(SYSCALL_PROC_SLEEP, 0) /\ (OtherEntry \/ ProcSleep(Nap[q]))
      /\ UNCHANGED mutexVars /\ UNCHANGED <<shell_mutex, late>> /\ users' = users
  BY <1>1 DEF Use, observers
<1>4. SYSCALL_PROC_SLEEP \in Int /\ 0 \in Int /\ Nap[q] \in Int
  BY ShellAssumption, SleepAssumption DEF SYSCALL_PROC_SLEEP
<1>5. eax' \in [Shell -> Int] /\ \A p \in Shell : p # q => eax'[p] = eax[p]
  BY <1>1, <1>3, <1>4, ReturnFacts
<1>6. /\ SameProcesses
      /\ UNCHANGED <<shell_mutex, late, clients, handles>> /\ handles \subseteq handles'
      /\ \A m \in handles : owner'[m] = owner[m] /\ wait_queue'[m] = wait_queue[m]
  BY <1>3, <1>4, KernelQuiet
<1>7. /\ users \subseteq users' /\ users' \subseteq Shell
      /\ ~late => q \in users'
  BY <1>1, <1>3 DEF ShellInv, ShellTypes, OwnersKnown, Settled
<1>8. shell_mutex[q % 2] # -1
  BY <1>1, SetUp
<1> QED
  BY <1>1, <1>2, <1>5, <1>6, <1>7, <1>8, QuietMoves

LEMMA CommandKeeps ==
    ASSUME ShellInv, Command
    PROVE  SettledInv'
<1>1. PICK q \in Shell : q = me /\ pc[q] = <<"command", "any">>
  BY AtFacts DEF Command
<1>2. PICK next \in {<<"load", "read">>, <<"nap", "again">>, <<"load", "hold">>, <<"exit", "any">>} :
        Goto(next)
  BY DEF Command
<1>3. next \in Steps /\ next[1] \in {"load", "nap", "exit"}
  BY DEF Steps, Labels, Topics, Why
<1>4. UNCHANGED vars /\ UNCHANGED mutexVars /\ UNCHANGED <<eax, shell_mutex, users, late>>
  BY DEF Command, Local, observers
<1>5. /\ SameProcesses
      /\ UNCHANGED <<shell_mutex, late, clients, handles>> /\ handles \subseteq handles'
      /\ \A m \in handles : owner'[m] = owner[m] /\ wait_queue'[m] = wait_queue[m]
  BY <1>4, KernelQuiet
<1>6. users \subseteq users' /\ users' \subseteq Shell /\ eax' \in [Shell -> Int]
  BY <1>4 DEF ShellInv, ShellTypes
<1>7. shell_mutex[q % 2] # -1
  BY <1>1, SetUp
<1> QED
  BY <1>1, <1>2, <1>3, <1>4, <1>5, <1>6, <1>7, QuietMoves

LEMMA ExitKeeps ==
    ASSUME ShellInv, proc_exit
    PROVE  SettledInv'
<1> DEFINE next == <<"gone", "any">>
<1>1. PICK q \in Shell : q = me /\ pc[q] = <<"exit", "any">>
  BY AtFacts DEF proc_exit
<1>2. next \in Steps /\ Goto(next) /\ next[1] = "gone"
  BY DEF proc_exit, Steps, Labels, Topics
<1> HIDE DEF next
<1>3. /\ Return(SYSCALL_PROC_EXIT, 0) /\ ProcExit
      /\ UNCHANGED mutexVars /\ UNCHANGED <<shell_mutex, late>> /\ users' = users
  BY DEF proc_exit, observers
<1>4. SYSCALL_PROC_EXIT \in Int /\ 0 \in Int
  BY DEF SYSCALL_PROC_EXIT
<1>5. eax' \in [Shell -> Int] /\ \A p \in Shell : p # q => eax'[p] = eax[p]
  BY <1>1, <1>3, <1>4, ReturnFacts
<1>6. /\ SameProcesses
      /\ UNCHANGED <<shell_mutex, late, clients, handles>> /\ handles \subseteq handles'
      /\ \A m \in handles : owner'[m] = owner[m] /\ wait_queue'[m] = wait_queue[m]
  BY <1>3, KernelQuiet
<1>7. users \subseteq users' /\ users' \subseteq Shell
  BY <1>3 DEF ShellInv, ShellTypes
<1>8. shell_mutex[q % 2] # -1
  BY <1>1, SetUp
<1> QED
  BY <1>1, <1>2, <1>5, <1>6, <1>7, <1>8, QuietMoves

\* The steps of the kernel: the shells stay where they are.
LEMMA MeanwhileKeeps ==
    ASSUME ShellInv, Meanwhile \/ UNCHANGED allVars
    PROVE  SettledInv'
<1>1. /\ UNCHANGED mutexVars /\ UNCHANGED <<pc, eax, shell_mutex, users, late>>
      /\ UNCHANGED vars \/ KernelWork
  BY DEF Meanwhile, allVars, shellVars, observers
<1>2. /\ SameProcesses /\ UNCHANGED <<clients, handles>>
      /\ \A m \in handles : owner'[m] = owner[m] /\ wait_queue'[m] = wait_queue[m]
  BY <1>1, KernelQuiet
<1>3. ShellTypes' /\ IdsStored'
  BY <1>1, <1>2 DEF ShellInv, ShellTypes, IdsStored
<1>4. ASSUME ~late, NEW p \in Shell PROVE Settled(p)'
  <2>1. Settled(p)
    BY <1>4 DEF ShellInv, OwnersKnown
  <2>2. CASE pc[p][1] \in {"use", "reload", "unlock"}
    <3>1. shell_mutex[p % 2] \in handles
      BY <2>2, SetUp
    <3>2. Owns(p)'
      BY <1>1, <1>2, <2>1, <2>2, <3>1, StillOwns DEF Settled
    <3> QED
      BY <1>1, <2>1, <3>2 DEF Settled
  <2>3. CASE pc[p][1] \notin {"use", "reload", "unlock"}
    BY <1>1, <2>1, <2>3 DEF Settled
  <2> QED
    BY <2>2, <2>3
<1> QED
  BY <1>1, <1>3, <1>4 DEF SettledInv, OwnersKnown

\* What a lock and an unlock do not touch.
LEMMA CallQuiet ==
    ASSUME ShellInv, NEW m \in Mutexes,
           kmutex_lock_free(m) \/ kmutex_lock_taken(m) \/ kmutex_unlock(m)
    PROVE  UNCHANGED <<clients, handles>> /\ UNCHANGED procVars /\ active_proc # NULL /\ Caller
<1>1. CASE kmutex_lock_free(m) \/ kmutex_lock_taken(m)
  BY <1>1 DEF kmutex_lock_free, kmutex_lock_taken, Enter, Caller
<1>2. CASE kmutex_unlock(m)
  BY <1>2 DEF kmutex_unlock, kmutex_unlock_last, kmutex_unlock_pass, Leave, Caller, WakePid, WakeUp
<1> QED
  BY <1>1, <1>2

\* A lock call leaves the owners and those that wait, and makes the caller one.
LEMMA LockOwns ==
    ASSUME ShellInv, NEW m \in Mutexes, kmutex_lock_free(m) \/ kmutex_lock_taken(m),
           NEW q, q = me, UNCHANGED shell_mutex
    PROVE  /\ \A p : shell_mutex[p % 2] \in handles /\ Owns(p) => Owns(p)'
           /\ m = shell_mutex[q % 2] => Owns(q)'
<1>1. MutexInv /\ UNCHANGED pid /\ Caller /\ Live' = Live
  BY CallQuiet DEF ShellInv, procVars, Live
<1>2. /\ owner \in [Mutexes -> Slots \cup {NULL}] /\ wait_queue \in [Mutexes -> Seq(Nat)]
      /\ handles \subseteq Mutexes
  BY <1>1 DEF MutexInv, MutexTypeOK
<1>3. \A s \in Live : s \in Slots /\ s # NULL /\ (pid[s] = q => s = active_proc)
  BY <1>1, CallerFacts, NullAssumption DEF Live
<1>4. CASE kmutex_lock_free(m)
  <2>1. owner[m] = NULL /\ owner' = [owner EXCEPT ![m] = active_proc] /\ wait_queue' = wait_queue
    BY <1>4 DEF kmutex_lock_free
  <2>2. \A n \in Mutexes : owner'[n] = IF n = m THEN active_proc ELSE owner[n]
    BY <1>2, <2>1
  <2> QED
    BY <1>1, <1>2, <1>3, <2>1, <2>2 DEF Owns
<1>5. CASE kmutex_lock_taken(m)
  <2>1. owner' = owner /\ wait_queue' = [wait_queue EXCEPT ![m] = Append(@, q)]
    BY <1>1, <1>5, LockBlocks DEF kmutex_lock_taken
  <2>2. wait_queue[m] \in Seq(Nat) /\ q \in Nat
    BY <1>1, <1>2, CallerFacts
  <2>3. Range(Append(wait_queue[m], q)) = Range(wait_queue[m]) \cup {q}
    BY <2>2, AppendFacts
  <2>4. \A n \in Mutexes : wait_queue'[n] = IF n = m THEN Append(wait_queue[m], q) ELSE wait_queue[n]
    BY <1>2, <2>1
  <2>5. /\ \A n \in Mutexes : Range(wait_queue[n]) \subseteq Range(wait_queue'[n])
        /\ q \in Range(wait_queue'[m])
    BY <2>3, <2>4
  <2> QED
    BY <1>1, <1>2, <2>1, <2>5 DEF Owns
<1> QED
  BY <1>4, <1>5

\* The owner gives its mutex up, to the first of those that wait if there is one.
LEMMA UnlockOwns ==
    ASSUME ShellInv, NEW m \in Mutexes, kmutex_unlock(m), owner[m] = active_proc,
           NEW q, q = me, UNCHANGED shell_mutex
    PROVE  \A p : p # q /\ shell_mutex[p % 2] \in handles /\ Owns(p) => Owns(p)'
<1>1. MutexInv /\ UNCHANGED pid /\ Caller /\ Live' = Live
  BY CallQuiet DEF ShellInv, procVars, Live
<1>2. /\ owner \in [Mutexes -> Slots \cup {NULL}] /\ wait_queue \in [Mutexes -> Seq(Nat)]
      /\ handles \subseteq Mutexes
  BY <1>1 DEF MutexInv, MutexTypeOK
<1>3. ASSUME NEW p, p # q, NEW s \in Live, pid[s] = p PROVE owner[m] # s
  BY <1>3 DEF me
<1>4. CASE kmutex_unlock_last(m)
  <2>1. owner' = [owner EXCEPT ![m] = NULL] /\ wait_queue' = wait_queue
    BY <1>4 DEF kmutex_unlock_last
  <2>2. \A n \in Mutexes : n # m => owner'[n] = owner[n]
    BY <1>2, <2>1
  <2> QED
    BY <1>1, <1>2, <1>3, <2>1, <2>2 DEF Owns
<1>5. CASE kmutex_unlock_pass(m)
  <2> DEFINE h == Head(wait_queue[m])
  <2>1. /\ wait_queue[m] # <<>>
        /\ owner' = [owner EXCEPT ![m] = pid_to_proc(h)]
        /\ wait_queue' = [wait_queue EXCEPT ![m] = Tail(@)]
    BY <1>1, <1>5, UnlockWakes
  <2>2. \E s \in Live : pid[s] = h /\ pid_to_proc(h) = s
    BY <1>1, <2>1, WaiterFacts
  <2>3. Range(Tail(wait_queue[m])) = Range(wait_queue[m]) \ {h}
    <3>1. wait_queue[m] \in Seq(Nat) /\ IsInjective(wait_queue[m])
      BY <1>1, <1>2 DEF MutexInv, WaitersPlaced
    <3> QED
      BY <2>1, <3>1, TailFacts
  <2> HIDE DEF h
  <2>4. \A s \in Live : pid[s] = h => pid_to_proc(h) = s
    BY <1>1, <2>2 DEF MutexInv, Inv, TableSound
  <2>5. \A n \in Mutexes :
           /\ n # m => owner'[n] = owner[n] /\ wait_queue'[n] = wait_queue[n]
           /\ n = m => owner'[n] = pid_to_proc(h) /\ Range(wait_queue'[n]) = Range(wait_queue[n]) \ {h}
    BY <1>2, <2>1, <2>3
  <2>6. ASSUME NEW p, p # q, shell_mutex[p % 2] \in handles, Owns(p),
               NEW s \in Live, pid[s] = p
        PROVE  \/ owner'[shell_mutex[p % 2]] = s
               \/ p \in Range(wait_queue'[shell_mutex[p % 2]])
    <3> DEFINE n == shell_mutex[p % 2]
    <3>1. n \in Mutexes /\ (owner[n] = s \/ p \in Range(wait_queue[n]))
      BY <1>2, <2>6 DEF Owns
    <3> HIDE DEF n
    <3>2. owner'[n] = s \/ p \in Range(wait_queue'[n])
      BY <1>3, <2>4, <2>5, <2>6, <3>1
    <3> QED
      BY <3>2 DEF n
  <2> QED
    BY <1>1, <2>6 DEF Owns
<1> QED
  BY <1>4, <1>5 DEF kmutex_unlock

LEMMA LockKeeps ==
    ASSUME ShellInv, NEW why \in Why, mutex_lock(why)
    PROVE  SettledInv'
<1> DEFINE next == <<"use", why>>
<1>1. PICK q \in Shell : q = me /\ pc[q] = <<"lock", why>>
  BY AtFacts DEF mutex_lock
<1>2. next \in Steps /\ Goto(next) /\ next[1] = "use"
  BY DEF mutex_lock, Steps, Labels, Topics
<1> HIDE DEF next
<1>3. PICK m \in Mutexes : m = eax[q] /\ (~late => m = shell_mutex[q % 2])
  BY <1>1, CalledIds
<1>4. /\ kmutex_lock_free(m) \/ kmutex_lock_taken(m)
      /\ Return(SYSCALL_MUTEX_LOCK, locks'[m])
      /\ UNCHANGED <<shell_mutex, late>> /\ users' = users
  BY <1>1, <1>3 DEF mutex_lock, observers
<1>5. locks'[m] \in Int /\ SYSCALL_MUTEX_LOCK \in Int
  BY <1>4 DEF kmutex_lock_free, kmutex_lock_taken, CountLock, ShellInv, MutexInv, MutexTypeOK, SYSCALL_MUTEX_LOCK
<1>6. eax' \in [Shell -> Int] /\ \A p \in Shell : p # q => eax'[p] = eax[p]
  BY <1>1, <1>4, <1>5, ReturnFacts
<1>7. UNCHANGED <<clients, handles>> /\ handles \subseteq handles'
  BY <1>4, CallQuiet
<1>8. /\ \A p : shell_mutex[p % 2] \in handles /\ Owns(p) => Owns(p)'
      /\ ~late => Owns(q)'
  BY <1>1, <1>3, <1>4, LockOwns
<1>9. /\ users \subseteq users' /\ users' \subseteq Shell
      /\ ~late => q \in users'
  BY <1>1, <1>4 DEF ShellInv, ShellTypes, OwnersKnown, Settled
<1>10. shell_mutex[q % 2] # -1
  BY <1>1, SetUp
<1> QED
  BY <1>1, <1>2, <1>4, <1>6, <1>7, <1>8, <1>9, <1>10, ShellMoves

LEMMA UnlockKeeps ==
    ASSUME ShellInv, NEW why \in Why, mutex_unlock(why)
    PROVE  SettledInv'
<1> DEFINE next == AfterUnlock(why)
<1>1. PICK q \in Shell : q = me /\ pc[q] = <<"unlock", why>>
  BY AtFacts DEF mutex_unlock
<1>2. next \in Steps /\ Goto(next) /\ next[1] \in {"command", "load"}
  BY DEF mutex_unlock, AfterUnlock, Steps, Labels, Topics, Why
<1> HIDE DEF next
<1>3. PICK m \in Mutexes : m = eax[q] /\ (~late => m = shell_mutex[q % 2])
  BY <1>1, CalledIds
<1>4. /\ kmutex_unlock(m)
      /\ Return(SYSCALL_MUTEX_UNLOCK, locks'[m])
      /\ UNCHANGED <<shell_mutex, late>> /\ users' = users
  BY <1>1, <1>3 DEF mutex_unlock, observers
<1>5. locks'[m] \in Int /\ SYSCALL_MUTEX_UNLOCK \in Int
  BY <1>4 DEF kmutex_unlock, kmutex_unlock_last, kmutex_unlock_pass, ShellInv, MutexInv,
     MutexTypeOK, SYSCALL_MUTEX_UNLOCK
<1>6. eax' \in [Shell -> Int] /\ \A p \in Shell : p # q => eax'[p] = eax[p]
  BY <1>1, <1>4, <1>5, ReturnFacts
<1>7. UNCHANGED <<clients, handles>> /\ handles \subseteq handles'
  BY <1>4, CallQuiet
<1>8. ~late => owner[m] = active_proc
  <2> SUFFICES ASSUME ~late PROVE owner[m] = active_proc
    OBVIOUS
  <2>1. Owns(q) /\ m = shell_mutex[q % 2]
    BY <1>1, <1>3 DEF ShellInv, OwnersKnown, Settled
  <2>2. active_proc \in Live /\ pid[active_proc] = q /\ q \notin Range(wait_queue[m])
    BY <1>1, <1>4, CallQuiet, CallerFacts DEF ShellInv, me
  <2> QED
    BY <2>1, <2>2 DEF Owns
<1>9. \A p \in Shell : p # q /\ ~late /\ shell_mutex[p % 2] \in handles /\ Owns(p) => Owns(p)'
  BY <1>1, <1>4, <1>8, UnlockOwns
<1>10. users \subseteq users' /\ users' \subseteq Shell
  BY <1>4 DEF ShellInv, ShellTypes
<1>11. shell_mutex[q % 2] # -1
  BY <1>1, SetUp
<1> QED
  BY <1>1, <1>2, <1>4, <1>6, <1>7, <1>9, <1>10, <1>11, ShellMoves

-----------------------------------------------------------------------------
(* The theorems                                                            *)

LEMMA ShellInitInv == ShellInit => ShellInv
<1> SUFFICES ASSUME ShellInit PROVE ShellInv
  OBVIOUS
<1>1. MutexInv /\ clients = "wild"
  BY MutexInitInv, ShellAssumption DEF ShellInit, MutexInit
<1>2. /\ pc = [p \in Shell |-> <<"check", "mutex">>] /\ eax = [p \in Shell |-> 0]
      /\ shell_mutex = [parity \in {0, 1} |-> -1] /\ users = {} /\ late = FALSE
  BY DEF ShellInit
<1>3. <<"check", "mutex">> \in Steps
  BY DEF Steps, Labels, Topics
<1>4. ShellTypes
  <2>1. pc \in [Shell -> Steps]
    BY <1>2, <1>3
  <2>2. eax \in [Shell -> Int] /\ shell_mutex \in [{0, 1} -> Mutexes \cup {-1}]
    BY <1>2
  <2>3. users \subseteq Shell /\ late \in BOOLEAN
    BY <1>2
  <2> QED
    BY <1>1, <2>1, <2>2, <2>3 DEF ShellTypes
<1>5. \A p \in Shell : pc[p][1] = "check"
  BY <1>2
<1>6. IdsStored /\ OwnersKnown
  BY <1>2, <1>5 DEF IdsStored, OwnersKnown, Settled
<1> QED
  BY <1>1, <1>4, <1>6 DEF ShellInv

LEMMA StepOrStutter ==
    ASSUME ShellInv, [ShellNext]_allVars
    PROVE  [MutexNext]_<<vars, mutexVars>>
BY StepOfKMutex DEF allVars

LEMMA ShellNextInv ==
    ASSUME ShellInv, [ShellNext]_allVars
    PROVE  ShellInv'
<1>1. MutexInv'
  BY StepOrStutter, MutexNextInv DEF ShellInv
<1>2. SettledInv'
  <2>1. CASE Check
    BY <2>1, CheckKeeps
  <2>2. CASE mutex_init
    BY <2>2, InitKeeps
  <2>3. CASE Store
    BY <2>3, StoreKeeps
  <2>4. CASE proc_sleep("first") \/ proc_sleep("again")
    BY <2>4, SleepKeeps
  <2>5. ASSUME NEW why \in Why,
               LoadId("load", why, "lock") \/ LoadId("reload", why, "unlock")
        PROVE  SettledInv'
    <3>1. CASE LoadId("load", why, "lock")
      BY <3>1, LoadKeeps
    <3>2. CASE LoadId("reload", why, "unlock")
      BY <3>2, LoadKeeps
    <3> QED
      BY <2>5, <3>1, <3>2
  <2>6. ASSUME NEW why \in Why, mutex_lock(why) PROVE SettledInv'
    BY <2>6, LockKeeps
  <2>7. ASSUME NEW why \in Why, Use(why) PROVE SettledInv'
    BY <2>7, UseKeeps
  <2>8. ASSUME NEW why \in Why, mutex_unlock(why) PROVE SettledInv'
    BY <2>8, UnlockKeeps
  <2>9. CASE Command
    BY <2>9, CommandKeeps
  <2>10. CASE proc_exit
    BY <2>10, ExitKeeps
  <2>11. CASE Meanwhile \/ UNCHANGED allVars
    BY <2>11, MeanwhileKeeps
  <2> QED
    BY <2>1, <2>2, <2>3, <2>4, <2>5, <2>6, <2>7, <2>8, <2>9, <2>10, <2>11 DEF ShellNext, ShellStep
<1> QED
  BY <1>1, <1>2 DEF ShellInv, SettledInv

\* The invariant that the theorems below take their parts from.
THEOREM ShellSafety == ShellSpec => []ShellInv
BY ShellInitInv, ShellNextInv, PTL DEF ShellSpec

(***************************************************************************)
(* A shell does nothing to the mutexes but what kmutex.c lets any client   *)
(* do, so every theorem about KMutex, and about the processes under it, is *)
(* one about the shells.                                                   *)
(***************************************************************************)
THEOREM ShellsImplementKMutex == ShellSpec => MutexSpec
<1>1. ShellInit => MutexInit
  BY DEF ShellInit
<1>2. ShellInv /\ [ShellNext]_allVars => [MutexNext]_<<vars, mutexVars>>
  BY StepOrStutter
<1> QED
  BY <1>1, <1>2, ShellSafety, PTL DEF ShellSpec, MutexSpec

\* The id of a call that a shell is about to make is that of a mutex in use.
CallsValid == \A p \in Shell : pc[p][1] \in {"lock", "unlock"} => eax[p] \in handles

(***************************************************************************)
(* However the ticks fall between the check of the id, kmutex_init and the *)
(* store, no shell ever calls lock or unlock before there is a mutex, with *)
(* -1 or with the id of a mutex that is not in use.                        *)
(***************************************************************************)
THEOREM ShellCallsValid == ShellSpec => []CallsValid
<1>1. ShellInv => CallsValid
  BY DEF ShellInv, IdsStored, CallsValid
<1> QED
  BY <1>1, ShellSafety, PTL

(***************************************************************************)
(* A shell that is back from lock owns the mutex of its parity until it    *)
(* calls unlock, unless an id was stored after a shell had loaded another. *)
(***************************************************************************)
THEOREM ShellsInsideOwn == ShellSpec => []InsideOwns
<1>1. ShellInv => InsideOwns
  <2> SUFFICES ASSUME ShellInv, ~late, NEW p \in Shell, Inside(p)
               PROVE  \E s \in Live : pid[s] = p /\ owner[shell_mutex[p % 2]] = s
    BY DEF InsideOwns
  <2>1. PICK s \in Live : pid[s] = p /\ state[s] # "WAITING"
    BY DEF Inside
  <2>2. shell_mutex[p % 2] \in Mutexes
    <3>1. shell_mutex[p % 2] \in handles
      BY SetUp DEF Inside
    <3> QED
      BY <3>1 DEF ShellInv, MutexInv, MutexTypeOK
  <2>3. p \notin PidsOf("WAITING")
    BY <2>1 DEF PidsOf, ShellInv, MutexInv, Inv, TableSound
  <2>4. p \notin Range(wait_queue[shell_mutex[p % 2]])
    BY <2>2, <2>3 DEF ShellInv, MutexInv, WaitersPlaced
  <2>5. Owns(p)
    BY DEF ShellInv, OwnersKnown, Settled, Inside
  <2> QED
    BY <2>1, <2>4, <2>5 DEF Owns
<1> QED
  BY <1>1, ShellSafety, PTL

=============================================================================
