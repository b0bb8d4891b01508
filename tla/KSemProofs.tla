----------------------------- MODULE KSemProofs -----------------------------
(***************************************************************************)
(* Proofs about KSem for every number of processes and semaphores, every   *)
(* bound on a count and both kinds of client: every semaphore call is a    *)
(* step of KProc, no post is lost on a waiter, and clients that post what  *)
(* they waited for share exactly the units there are.  Then proofs about   *)
(* its client PingPong, for any number of pings and pongs, any ticks and   *)
(* any sleeps: no unit is lost while they create their semaphores, in      *)
(* whatever order they come, nor afterwards.                               *)
(***************************************************************************)
EXTENDS PingPong, KProcProofs

-----------------------------------------------------------------------------
(* The invariant                                                           *)

SemTypeOK ==
    /\ allocated \in [Sems -> BOOLEAN]
    /\ count \in [Sems -> Nat]
    /\ wait_queue \in [Sems -> Seq(Nat)]
    /\ sem_queue \in Seq(Sems)
    /\ handles \subseteq Sems
    /\ last_wait \in [Pids -> Sems \cup {NULL}]
    /\ initial \in [Sems -> Nat]
    /\ next_pid <= MaxPid + 1

(***************************************************************************)
(* What the calls of disciplined clients have to do with the semaphores:   *)
(* who called wait is alive, the semaphore still exists, and a process     *)
(* waits for no semaphore but the one of its last call.                    *)
(***************************************************************************)
ClientsSound ==
    /\ Disciplined \/ inside = {}
    /\ inside \subseteq (1 .. next_pid - 1) \X handles
    /\ \A m \in Sems : \A p \in Pids : <<p, m>> \in inside => \E s \in Live : pid[s] = p
    /\ Disciplined => \A m \in Sems : \A p \in Range(wait_queue[m]) :
          last_wait[p] = m /\ <<p, m>> \in inside

\* The processes that called wait and did not have to wait, or were served.
Served(m) == {p \in Pids : <<p, m>> \in inside /\ p \notin Range(wait_queue[m])}

\* UnitsConserved, counted by the wait queues and not by the states.
UnitsSound ==
    Disciplined => \A m \in handles : count[m] + Cardinality(Served(m)) = initial[m]

TableInv ==
    /\ SemTypeOK
    /\ NoUnitWhileWaiting
    /\ WaitersPlaced
    /\ IdsSound
    /\ ClientsSound

SemInv == Inv /\ TableInv /\ UnitsSound

-----------------------------------------------------------------------------
(* The caller and the processes that wait                                  *)

LEMMA WaitersArePlaced == WaitersPlaced <=> Placed(PidsOf("WAITING"), Sems, wait_queue)
BY DEF WaitersPlaced, Placed

\* A step that leaves the scheduler alone.
LEMMA QuietFacts ==
    ASSUME UNCHANGED <<procVars, schedVars>>
    PROVE  /\ Live' = Live /\ pid' = pid /\ next_pid' = next_pid
           /\ PidsOf("WAITING")' = PidsOf("WAITING")
BY DEF procVars, schedVars, Live, PidsOf

\* The process that makes a call is live and waits for nothing.
LEMMA CallerFacts ==
    ASSUME SemInv, Caller
    PROVE  /\ active_proc \in Live /\ pid[active_proc] = me
           /\ me \in Nat /\ me \in 1 .. next_pid - 1 /\ me \in Pids
           /\ me \notin PidsOf("WAITING")
           /\ \A m \in Sems : me \notin Range(wait_queue[m])
<1>1. Inv /\ SemTypeOK /\ WaitersPlaced /\ active_proc # NULL /\ me # 0
  BY DEF SemInv, TableInv, Caller, me
<1>2. active_proc \in Live /\ state[active_proc] = "ACTIVE" /\ me \in Nat
  BY <1>1, ActiveFacts DEF me
<1>3. next_pid \in Nat /\ me \in 1 .. next_pid - 1
  BY <1>1, <1>2 DEF Inv, TypeOK, TableSound, me
<1>4. me \in Pids
  BY <1>1, <1>3, MaxPidAssumption DEF SemTypeOK, Pids
<1>5. \A s \in Live : pid[s] = me => s = active_proc
  BY <1>1, <1>2 DEF Inv, TableSound, me
<1>6. me \notin PidsOf("WAITING")
  BY <1>2, <1>5 DEF PidsOf
<1>7. \A m \in Sems : me \notin Range(wait_queue[m])
  BY <1>1, <1>6 DEF WaitersPlaced
<1> QED
  BY <1>2, <1>3, <1>4, <1>6, <1>7 DEF me

\* Whoever waits is a live process that a client may be.
LEMMA WaiterFacts ==
    ASSUME SemInv, NEW m \in Sems, NEW p \in Range(wait_queue[m])
    PROVE  p \in Pids /\ p \in PidsOf("WAITING") /\ \E s \in Live : pid[s] = p
<1>1. p \in PidsOf("WAITING")
  BY DEF SemInv, TableInv, WaitersPlaced
<1>2. next_pid \in Nat /\ next_pid <= MaxPid + 1 /\ MaxPid \in Nat
  BY MaxPidAssumption DEF SemInv, TableInv, Inv, TypeOK, SemTypeOK
<1>3. p \in 0 .. next_pid - 1 /\ p # 0
  BY <1>1 DEF PidsOf, SemInv, Inv, TableSound, Placement
<1> QED
  BY <1>1, <1>2, <1>3 DEF Pids, PidsOf

\* The processes that have a unit are those that were served.
LEMMA HoldersAreServed ==
    ASSUME SemInv, Disciplined, NEW m \in Sems
    PROVE  Holders(m) = Served(m)
<1>1. ASSUME NEW p \in Pids, Holds(p, m) PROVE p \notin Range(wait_queue[m])
  <2>1. PICK s \in Live : pid[s] = p /\ (state[s] = "WAITING" => last_wait[p] # m)
    BY <1>1 DEF Holds
  <2> SUFFICES ASSUME p \in Range(wait_queue[m]) PROVE FALSE
    OBVIOUS
  <2>2. last_wait[p] = m
    BY DEF SemInv, TableInv, ClientsSound
  <2>3. PICK t \in Live : pid[t] = p /\ state[t] = "WAITING"
    BY WaiterFacts DEF PidsOf
  <2>4. t = s
    BY <2>1, <2>3 DEF SemInv, Inv, TableSound
  <2> QED
    BY <2>1, <2>2, <2>3, <2>4
<1>2. ASSUME NEW p \in Served(m) PROVE Holds(p, m)
  <2>1. p \in Pids /\ <<p, m>> \in inside /\ p \notin Range(wait_queue[m])
    BY <1>2 DEF Served
  <2>2. PICK s \in Live : pid[s] = p
    BY <2>1 DEF SemInv, TableInv, ClientsSound
  <2>3. ASSUME state[s] = "WAITING" PROVE last_wait[p] # m
    <3>1. p \in PidsOf("WAITING")
      BY <2>2, <2>3 DEF PidsOf
    <3>2. PICK n \in Sems : p \in Range(wait_queue[n])
      BY <3>1 DEF SemInv, TableInv, WaitersPlaced
    <3> QED
      BY <2>1, <3>2 DEF SemInv, TableInv, ClientsSound
  <2> QED
    BY <2>1, <2>2, <2>3 DEF Holds
<1> QED
  BY <1>1, <1>2 DEF Holders, Served, Holds

LEMMA ServedFinite ==
    ASSUME NEW m
    PROVE  IsFiniteSet(Served(m)) /\ Cardinality(Served(m)) \in Nat
<1>1. IsFiniteSet(Pids)
  BY MaxPidAssumption, FS_Interval DEF Pids
<1>2. Served(m) \in SUBSET Pids
  BY DEF Served
<1> QED
  BY <1>1, <1>2, FS_Subset, FS_CardinalityType

-----------------------------------------------------------------------------
(* Every step is a step of KProc                                           *)

\* A wait for a unit always finds room in the wait queue: the caller blocks.
LEMMA WaitBlocks ==
    ASSUME SemInv, NEW m \in Sems, ksem_wait_block(m)
    PROVE  Block /\ wait_queue' = [wait_queue EXCEPT ![m] = Append(@, me)]
<1>1. active_proc # NULL /\ Inv
  BY DEF ksem_wait_block, Caller, SemInv
<1>2. /\ wait_queue[m] \in Seq(Nat) /\ IsInjective(wait_queue[m])
      /\ Range(wait_queue[m]) \subseteq PidsOf("WAITING")
  BY DEF SemInv, TableInv, SemTypeOK, WaitersPlaced
<1>3. ~ queue_is_full(wait_queue[m])
  BY <1>1, <1>2, RoomToWait
<1>4. Block
  BY <1>3 DEF ksem_wait_block, StopCaller, Block
<1> QED
  BY <1>3, <1>4 DEF ksem_wait_block, queue_in

\* A post that finds a waiter wakes it.
LEMMA PostWakes ==
    ASSUME SemInv, NEW m \in Sems, ksem_post_pass(m)
    PROVE  LET p == Head(wait_queue[m])
           IN  /\ WakePid(p)
               /\ p \in Range(wait_queue[m]) /\ p \in PidsOf("WAITING")
               /\ wait_queue' = [wait_queue EXCEPT ![m] = Tail(@)]
               /\ count' = count
<1>1. count' = count
  BY DEF ksem_post_pass, AfterHandOver, SemInv, TableInv, SemTypeOK
<1>2. /\ wait_queue \in [Sems -> Seq(Nat)] /\ wait_queue[m] # <<>>
      /\ Placed(PidsOf("WAITING"), Sems, wait_queue)
  BY WaitersArePlaced DEF SemInv, TableInv, SemTypeOK, ksem_post_pass
<1>3. Head(wait_queue[m]) \in PidsOf("WAITING") /\ Head(wait_queue[m]) \in Range(wait_queue[m])
  BY <1>2, FirstWaits, Zenon
<1> QED
  BY <1>1, <1>3 DEF ksem_post_pass, NextWaiter

LEMMA StepOfKProc ==
    ASSUME SemInv, SemNext
    PROVE  Next
<1>1. CASE ProcWork
  BY <1>1 DEF ProcWork, Next
<1>2. ASSUME NEW value \in Values, ksem_init(value) PROVE Next
  BY <1>2 DEF ksem_init, Next, ProcEntry, OtherEntry
<1>3. ASSUME NEW m \in Sems, SemRefuse(m) \/ ksem_destroy(m) PROVE Next
  BY <1>3 DEF SemRefuse, ksem_destroy, Next, ProcEntry, OtherEntry
<1>4. ASSUME NEW m \in Sems, ksem_wait_free(m) \/ ksem_post_keep(m) PROVE Next
  BY <1>4 DEF ksem_wait_free, ksem_post_keep, Next, ProcEntry, OtherEntry
<1>5. ASSUME NEW m \in Sems, ksem_wait_block(m) PROVE Next
  BY <1>5, WaitBlocks DEF Next, SyncEntry
<1>6. ASSUME NEW m \in Sems, ksem_post_pass(m) PROVE Next
  <2> DEFINE p == Head(wait_queue[m])
  <2>1. WakePid(p) /\ p \in PidsOf("WAITING") /\ Inv
    BY <1>6, PostWakes DEF SemInv
  <2> HIDE DEF p
  <2>2. PICK s \in Live : Unblock(s)
    BY <2>1, WakeFacts
  <2> QED
    BY <2>2 DEF Live, Next, SyncEntry
<1> QED
  BY <1>1, <1>2, <1>3, <1>4, <1>5, <1>6 DEF SemNext, SemCall, ksem_post

-----------------------------------------------------------------------------
(* The steps keep the invariant                                            *)

\* A step that hands no unit out and takes none back, or both at once.
LEMMA UnitsStep ==
    ASSUME SemInv, clients' = clients, initial' = initial, handles' \subseteq handles,
           Disciplined => \A n \in handles' :
               count'[n] + Cardinality(Served(n)') = count[n] + Cardinality(Served(n))
    PROVE  UnitsSound'
BY DEF SemInv, UnitsSound, Disciplined

\* A step that leaves waiters and clients alone.
LEMMA UnitsSame ==
    ASSUME SemInv, handles' \subseteq handles,
           UNCHANGED <<count, wait_queue, clients, inside, initial>>
    PROVE  UnitsSound'
<1>1. \A n \in handles' : Served(n)' = Served(n)
  BY DEF Served
<1> QED
  BY <1>1, UnitsStep

LEMMA ProcWorkInv ==
    ASSUME SemInv, ProcWork
    PROVE  TableInv' /\ UnitsSound'
<1>1. /\ UNCHANGED <<allocated, count, wait_queue, sem_queue>>
      /\ UNCHANGED <<clients, handles, inside, last_wait, initial>>
      /\ Disciplined /\ Dies => \A m \in Sems : <<me, m>> \notin inside
  BY DEF ProcWork, semVars, tableVars, clientVars
<1>2. /\ PidsOf("WAITING")' = PidsOf("WAITING")
      /\ next_pid \in Nat /\ next_pid' \in {next_pid, next_pid + 1}
      /\ next_pid' # next_pid => next_pid < MaxPid
      /\ \A s \in Live : \/ s \in Live' /\ pid'[s] = pid[s]
                         \/ s = active_proc /\ pid'[s] = -1
  BY WorkFacts DEF ProcWork, SemInv
<1>3. SemTypeOK'
  BY <1>1, <1>2, MaxPidAssumption DEF SemInv, TableInv, SemTypeOK
<1>4. NoUnitWhileWaiting' /\ IdsSound'
  BY <1>1 DEF SemInv, TableInv, NoUnitWhileWaiting, IdsSound
<1>5. WaitersPlaced'
  BY <1>1, <1>2 DEF SemInv, TableInv, WaitersPlaced
<1>6. ClientsSound'
  <2>1. inside' \subseteq (1 .. next_pid' - 1) \X handles'
    BY <1>1, <1>2 DEF SemInv, TableInv, ClientsSound
  <2>2. ASSUME NEW m \in Sems, NEW p \in Pids, <<p, m>> \in inside'
        PROVE  \E s \in Live' : pid'[s] = p
    <3>1. PICK s \in Live : pid[s] = p
      BY <1>1, <2>2 DEF SemInv, TableInv, ClientsSound
    <3>2. ~ (s = active_proc /\ pid'[s] = -1)
      <4>1. Disciplined
        BY <1>1, <2>2 DEF SemInv, TableInv, ClientsSound
      <4>2. s # NULL
        BY NullAssumption DEF Live
      <4> QED
        BY <1>1, <2>2, <3>1, <4>1, <4>2 DEF Dies, me
    <3> QED
      BY <1>2, <3>1, <3>2
  <2> QED
    BY <1>1, <2>1, <2>2 DEF SemInv, TableInv, ClientsSound, Disciplined
<1>7. UnitsSound'
  BY <1>1, UnitsSame
<1> QED
  BY <1>3, <1>4, <1>5, <1>6, <1>7 DEF TableInv

\* Nobody waits for a semaphore that the allocator gives out, and nobody has a
\* unit of it.
LEMMA InitCallInv ==
    ASSUME SemInv, NEW value \in Values, ksem_init(value)
    PROVE  TableInv' /\ UnitsSound'
<1>1. UNCHANGED <<procVars, schedVars, clients, inside, last_wait>>
  BY DEF ksem_init
<1>2. /\ Live' = Live /\ pid' = pid /\ next_pid' = next_pid
      /\ PidsOf("WAITING")' = PidsOf("WAITING")
  BY <1>1, QuietFacts
<1>3. SemTypeOK /\ NoUnitWhileWaiting /\ WaitersPlaced /\ IdsSound /\ ClientsSound
  BY DEF SemInv, TableInv
<1>4. CASE UNCHANGED <<tableVars, handles, initial>>
  <2>1. /\ UNCHANGED <<allocated, count, wait_queue, sem_queue, handles, initial>>
        /\ UnitsSound'
    BY <1>1, <1>4, UnitsSame DEF tableVars
  <2>2. SemTypeOK' /\ NoUnitWhileWaiting' /\ IdsSound'
    BY <1>1, <1>2, <1>3, <2>1 DEF SemTypeOK, NoUnitWhileWaiting, IdsSound
  <2>3. WaitersPlaced'
    BY <1>2, <1>3, <2>1 DEF WaitersPlaced
  <2>4. ClientsSound'
    BY <1>1, <1>2, <1>3, <2>1 DEF ClientsSound, Disciplined
  <2> QED
    BY <2>1, <2>2, <2>3, <2>4 DEF TableInv
<1>5. CASE ~ (value < 0 \/ value > SemMax \/ sem_queue = <<>>)
  <2> DEFINE id == Head(sem_queue)
  <2>1. /\ sem_queue' = Tail(sem_queue)
        /\ allocated' = [allocated EXCEPT ![id] = TRUE]
        /\ count' = [count EXCEPT ![id] = value]
        /\ wait_queue' = [wait_queue EXCEPT ![id] = <<>>]
        /\ handles' = handles \cup {id}
        /\ initial' = IF Disciplined THEN [initial EXCEPT ![id] = value] ELSE initial
    BY <1>5 DEF ksem_init
  <2>2. value \in Nat /\ sem_queue # <<>>
    <3>1. ~ (value < 0) /\ sem_queue # <<>>
      BY <1>5, Zenon
    <3> QED
      BY <3>1, SemAssumption
  <2>3. /\ id \in Sems /\ id \in Range(sem_queue)
        /\ Tail(sem_queue) \in Seq(Sems)
        /\ IsInjective(Tail(sem_queue))
        /\ Range(Tail(sem_queue)) = Range(sem_queue) \ {id}
    BY <1>3, <2>2, TailFacts DEF SemTypeOK, IdsSound
  <2> HIDE DEF id
  <2>4. wait_queue' = wait_queue /\ wait_queue[id] = <<>> /\ id \notin handles
    BY <1>3, <2>1, <2>3 DEF SemTypeOK, IdsSound
  <2>5. \A n \in Sems : count'[n] = IF n = id THEN value ELSE count[n]
    BY <1>3, <2>1, <2>3 DEF SemTypeOK
  <2>6. SemTypeOK'
    <3>1. allocated' \in [Sems -> BOOLEAN]
      BY <1>3, <2>1 DEF SemTypeOK
    <3>2. count' \in [Sems -> Nat] /\ initial' \in [Sems -> Nat]
      BY <1>3, <2>1, <2>2 DEF SemTypeOK
    <3> QED
      BY <1>1, <1>2, <1>3, <2>1, <2>3, <2>4, <3>1, <3>2 DEF SemTypeOK
  <2>7. NoUnitWhileWaiting'
    BY <1>3, <2>4, <2>5 DEF NoUnitWhileWaiting
  <2>8. WaitersPlaced'
    <3>1. wait_queue' = wait_queue
      BY <2>4
    <3> QED
      BY <1>2, <1>3, <3>1 DEF WaitersPlaced
  <2>9. IdsSound'
    BY <1>3, <2>1, <2>3, <2>4 DEF IdsSound
  <2>10. ClientsSound'
    <3>1. inside' \subseteq (1 .. next_pid' - 1) \X handles'
      BY <1>1, <1>2, <1>3, <2>1 DEF ClientsSound
    <3> QED
      BY <1>1, <1>2, <1>3, <2>4, <3>1 DEF ClientsSound, Disciplined
  <2>11. UnitsSound'
    <3> SUFFICES ASSUME Disciplined, NEW n \in handles'
                 PROVE  count'[n] + Cardinality(Served(n)') = initial'[n]
      BY <1>1 DEF UnitsSound, Disciplined
    <3>1. Served(n)' = Served(n) /\ n \in Sems
      BY <1>1, <1>3, <2>1, <2>3, <2>4 DEF Served, SemTypeOK
    <3>2. CASE n = id
      <4>1. Served(n) = {}
        BY <1>3, <2>4, <3>2 DEF Served, ClientsSound
      <4>2. initial'[n] = value /\ count'[n] = value
        BY <1>3, <2>1, <2>3, <2>5, <3>2 DEF SemTypeOK
      <4> QED
        BY <2>2, <3>1, <4>1, <4>2, FS_EmptySet
    <3>3. CASE n # id
      <4>1. initial'[n] = initial[n] /\ count'[n] = count[n] /\ n \in handles
        BY <1>3, <2>1, <2>5, <3>1, <3>3 DEF SemTypeOK
      <4> QED
        BY <3>1, <4>1 DEF SemInv, UnitsSound
    <3> QED
      BY <3>2, <3>3
  <2> QED
    BY <2>6, <2>7, <2>8, <2>9, <2>10, <2>11 DEF TableInv
<1> QED
  BY <1>4, <1>5 DEF ksem_init

\* An id comes back to the allocator, which has room for all of them; with a
\* unit in the count nobody waits.
LEMMA DestroyCallInv ==
    ASSUME SemInv, NEW m \in Sems, ksem_destroy(m)
    PROVE  TableInv' /\ UnitsSound'
<1>1. /\ UNCHANGED <<procVars, schedVars, allocated, count, wait_queue>>
      /\ UNCHANGED <<clients, inside, last_wait, initial>>
      /\ m \in handles
      /\ Disciplined => \A p \in Pids : <<p, m>> \notin inside
  BY DEF ksem_destroy, MayDestroy
<1>2. /\ Live' = Live /\ pid' = pid /\ next_pid' = next_pid
      /\ PidsOf("WAITING")' = PidsOf("WAITING")
  BY <1>1, QuietFacts
<1>3. SemTypeOK /\ NoUnitWhileWaiting /\ WaitersPlaced /\ IdsSound /\ ClientsSound
  BY DEF SemInv, TableInv
<1>4. NoUnitWhileWaiting' /\ WaitersPlaced'
  <2>1. NoUnitWhileWaiting'
    BY <1>1, <1>3 DEF NoUnitWhileWaiting
  <2>2. WaitersPlaced'
    BY <1>1, <1>2, <1>3 DEF WaitersPlaced
  <2> QED
    BY <2>1, <2>2
<1>5. CASE InUse(m)
  <2>1. sem_queue' = sem_queue /\ handles' = handles
    BY <1>5 DEF ksem_destroy
  <2>2. SemTypeOK' /\ IdsSound' /\ ClientsSound'
    BY <1>1, <1>2, <1>3, <2>1 DEF SemTypeOK, IdsSound, ClientsSound, Disciplined
  <2>3. UnitsSound'
    BY <1>1, <2>1, UnitsSame
  <2> QED
    BY <1>4, <2>2, <2>3 DEF TableInv
<1>6. CASE ~ InUse(m)
  <2>1. sem_queue' = queue_in(sem_queue, m) /\ handles' = handles \ {m}
    BY <1>6 DEF ksem_destroy
  <2>2. /\ sem_queue \in Seq(Sems) /\ IsInjective(sem_queue)
        /\ Range(sem_queue) = Sems \ handles /\ m \notin Range(sem_queue)
    BY <1>1, <1>3 DEF SemTypeOK, IdsSound
  <2>3. ~ queue_is_full(sem_queue)
    BY <1>1, <2>2, SemAssumption, RoomForId DEF Sems
  <2>4. /\ queue_in(sem_queue, m) = Append(sem_queue, m)
        /\ Append(sem_queue, m) \in Seq(Sems)
        /\ IsInjective(Append(sem_queue, m))
        /\ Range(Append(sem_queue, m)) = Range(sem_queue) \cup {m}
    BY <2>2, <2>3, AppendFacts DEF queue_in
  <2>5. wait_queue[m] = <<>>
    BY <1>3, <1>6 DEF InUse, NoUnitWhileWaiting
  <2>6. SemTypeOK'
    BY <1>1, <1>2, <1>3, <2>1, <2>4 DEF SemTypeOK
  <2>7. IdsSound'
    BY <1>1, <1>3, <2>1, <2>2, <2>4, <2>5 DEF IdsSound
  <2>8. ClientsSound'
    <3>1. ASSUME NEW p, <<p, m>> \in inside PROVE FALSE
      <4>1. p \in Pids
        BY <1>3, <3>1, MaxPidAssumption DEF ClientsSound, SemTypeOK, Pids, SemInv, Inv, TypeOK
      <4> QED
        BY <1>1, <1>3, <3>1, <4>1 DEF ClientsSound
    <3>2. inside' \subseteq (1 .. next_pid' - 1) \X handles'
      BY <1>1, <1>2, <1>3, <2>1, <3>1 DEF ClientsSound
    <3> QED
      BY <1>1, <1>2, <1>3, <3>2 DEF ClientsSound, Disciplined
  <2>9. UnitsSound'
    <3>1. handles' \subseteq handles
      BY <2>1
    <3> QED
      BY <1>1, <3>1, UnitsSame
  <2> QED
    BY <1>4, <2>6, <2>7, <2>8, <2>9 DEF TableInv
<1> QED
  BY <1>5, <1>6

\* A unit of the count goes to the caller.
LEMMA WaitFreeInv ==
    ASSUME SemInv, NEW m \in Sems, ksem_wait_free(m)
    PROVE  TableInv' /\ UnitsSound'
<1>1. /\ count[m] # 0 /\ m \in handles
      /\ count' = IF count[m] > 0 THEN [count EXCEPT ![m] = @ - 1] ELSE count
      /\ UNCHANGED <<procVars, schedVars, allocated, wait_queue, sem_queue>>
      /\ UNCHANGED <<clients, handles, initial>>
      /\ Caller /\ Enter(m) /\ MayWait(m)
  BY DEF ksem_wait_free, MayWait, Enter
<1>2. /\ Live' = Live /\ pid' = pid /\ next_pid' = next_pid
      /\ PidsOf("WAITING")' = PidsOf("WAITING")
  BY <1>1, QuietFacts
<1>3. /\ active_proc \in Live /\ pid[active_proc] = me
      /\ me \in 1 .. next_pid - 1 /\ me \in Pids
      /\ \A n \in Sems : me \notin Range(wait_queue[n])
  BY <1>1, CallerFacts
<1>4. SemTypeOK /\ NoUnitWhileWaiting /\ WaitersPlaced /\ IdsSound /\ ClientsSound
  BY DEF SemInv, TableInv
<1>5. /\ count[m] - 1 \in Nat /\ wait_queue[m] = <<>>
      /\ count' = [count EXCEPT ![m] = @ - 1]
  <2>1. count[m] \in Nat /\ wait_queue[m] = <<>>
    BY <1>1, <1>4 DEF SemTypeOK, NoUnitWhileWaiting
  <2> QED
    BY <1>1, <2>1
<1>6. count'[m] = count[m] - 1 /\ \A n \in Sems : n # m => count'[n] = count[n]
  BY <1>4, <1>5 DEF SemTypeOK
<1>7. SemTypeOK'
  <2>1. count' \in [Sems -> Nat]
    BY <1>4, <1>5 DEF SemTypeOK
  <2>2. last_wait' \in [Pids -> Sems \cup {NULL}]
    BY <1>1, <1>4 DEF SemTypeOK, Enter
  <2> QED
    BY <1>1, <1>2, <1>4, <2>1, <2>2 DEF SemTypeOK
<1>8. NoUnitWhileWaiting' /\ IdsSound'
  BY <1>1, <1>4, <1>5, <1>6 DEF NoUnitWhileWaiting, IdsSound
<1>9. WaitersPlaced'
  BY <1>1, <1>2, <1>4 DEF WaitersPlaced
<1>10. CASE ~ Disciplined
  <2>1. inside' = inside
    BY <1>1, <1>10 DEF Enter
  <2>2. ClientsSound'
    BY <1>1, <1>2, <1>4, <1>10, <2>1 DEF ClientsSound, Disciplined
  <2>3. UnitsSound'
    BY <1>1, <1>10 DEF UnitsSound, Disciplined
  <2> QED
    BY <1>7, <1>8, <1>9, <2>2, <2>3 DEF TableInv
<1>11. CASE Disciplined
  <2>1. /\ inside' = inside \cup {<<me, m>>}
        /\ last_wait' = [last_wait EXCEPT ![me] = m]
        /\ <<me, m>> \notin inside
    BY <1>1, <1>11 DEF Enter, MayWait
  <2>2. ClientsSound'
    <3>1. inside' \subseteq (1 .. next_pid' - 1) \X handles'
      BY <1>1, <1>2, <1>3, <1>4, <2>1 DEF ClientsSound
    <3>2. ASSUME NEW n \in Sems, NEW p \in Pids, <<p, n>> \in inside'
          PROVE  \E s \in Live : pid[s] = p
      BY <1>3, <1>4, <2>1, <3>2 DEF ClientsSound
    <3>3. ASSUME NEW n \in Sems, NEW p \in Range(wait_queue[n])
          PROVE  last_wait'[p] = n /\ <<p, n>> \in inside'
      <4>1. p \in Pids /\ p # me /\ last_wait[p] = n /\ <<p, n>> \in inside
        BY <1>3, <1>4, <1>11, WaiterFacts DEF ClientsSound
      <4> QED
        BY <1>4, <2>1, <4>1 DEF SemTypeOK
    <3> QED
      BY <1>1, <1>2, <1>11, <3>1, <3>2, <3>3 DEF ClientsSound, Disciplined
  <2>3. ASSUME NEW n \in handles
        PROVE  count'[n] + Cardinality(Served(n)') = count[n] + Cardinality(Served(n))
    <3>1. CASE n = m
      <4>1. Served(m)' = Served(m) \cup {me} /\ me \notin Served(m)
        BY <1>1, <1>3, <2>1 DEF Served
      <4>2. Cardinality(Served(m)') = Cardinality(Served(m)) + 1
        BY <4>1, ServedFinite, FS_AddElement
      <4>3. Cardinality(Served(m)) \in Nat /\ count[m] \in Nat
        BY <1>4, ServedFinite DEF SemTypeOK
      <4> QED
        BY <1>6, <3>1, <4>2, <4>3
    <3>2. CASE n # m
      <4>1. Served(n)' = Served(n)
        BY <1>1, <2>1, <3>2 DEF Served
      <4> QED
        BY <1>4, <1>6, <3>2, <4>1 DEF SemTypeOK
    <3> QED
      BY <3>1, <3>2
  <2>4. UnitsSound'
    BY <1>1, <2>3, UnitsStep
  <2> QED
    BY <1>7, <1>8, <1>9, <2>2, <2>4 DEF TableInv
<1> QED
  BY <1>10, <1>11

\* There is no unit: the caller joins the processes that wait.
LEMMA WaitBlockInv ==
    ASSUME SemInv, NEW m \in Sems, ksem_wait_block(m)
    PROVE  TableInv' /\ UnitsSound'
<1> DEFINE W == PidsOf("WAITING")
<1>1. /\ count[m] = 0 /\ m \in handles
      /\ wait_queue' = [wait_queue EXCEPT ![m] = Append(@, me)]
      /\ UNCHANGED <<allocated, count, sem_queue, clients, handles, initial>>
      /\ Caller /\ Block /\ Enter(m) /\ MayWait(m)
  BY WaitBlocks DEF ksem_wait_block, MayWait, Enter
<1>2. /\ W' = W \cup {me}
      /\ Live' = Live /\ pid' = pid /\ next_pid' = next_pid
  BY <1>1, BlockFacts DEF SemInv, me
<1>3. /\ active_proc \in Live /\ pid[active_proc] = me
      /\ me \in Nat /\ me \in 1 .. next_pid - 1 /\ me \in Pids
      /\ me \notin W
      /\ \A n \in Sems : me \notin Range(wait_queue[n])
  BY <1>1, CallerFacts
<1>4. SemTypeOK /\ NoUnitWhileWaiting /\ WaitersPlaced /\ IdsSound /\ ClientsSound
  BY DEF SemInv, TableInv
<1> HIDE DEF W
<1>5. Placed(W \cup {me}, Sems, wait_queue') /\ Grew(Sems, wait_queue, m, me, wait_queue')
  <2>1. wait_queue \in [Sems -> Seq(Nat)] /\ Placed(W, Sems, wait_queue)
    BY <1>4, WaitersArePlaced DEF SemTypeOK, W
  <2>2. wait_queue' = Joined(wait_queue, m, me)
    BY <1>1 DEF Joined
  <2>3. me \in Nat /\ me \notin W
    BY <1>3
  <2>4. Placed(W \cup {me}, Sems, wait_queue')
    BY <2>1, <2>2, <2>3, JoinQueue, Zenon
  <2>5. Grew(Sems, wait_queue, m, me, wait_queue')
    BY <2>1, <2>2, <2>3, JoinedFacts, Zenon
  <2> QED
    BY <2>4, <2>5
<1>6. /\ wait_queue' \in [Sems -> Seq(Nat)]
      /\ Range(wait_queue'[m]) = Range(wait_queue[m]) \cup {me}
      /\ \A n \in Sems : n # m => wait_queue'[n] = wait_queue[n]
  BY <1>5 DEF Grew
<1>7. SemTypeOK'
  <2>1. last_wait' \in [Pids -> Sems \cup {NULL}]
    BY <1>1, <1>4 DEF SemTypeOK, Enter
  <2> QED
    BY <1>1, <1>2, <1>4, <1>6, <2>1 DEF SemTypeOK
<1>8. NoUnitWhileWaiting'
  BY <1>1, <1>4, <1>6 DEF NoUnitWhileWaiting
<1>9. WaitersPlaced'
  BY <1>2, <1>5 DEF WaitersPlaced, Placed, W
<1>10. IdsSound'
  <2>1. m \notin Range(sem_queue) /\ Range(sem_queue) \subseteq Sems
    BY <1>1, <1>4 DEF IdsSound
  <2> QED
    BY <1>1, <1>4, <1>6, <2>1 DEF IdsSound
<1>11. CASE ~ Disciplined
  <2>1. inside' = inside
    BY <1>1, <1>11 DEF Enter
  <2>2. ClientsSound'
    BY <1>1, <1>2, <1>4, <1>11, <2>1 DEF ClientsSound, Disciplined
  <2>3. UnitsSound'
    BY <1>1, <1>11 DEF UnitsSound, Disciplined
  <2> QED
    BY <1>7, <1>8, <1>9, <1>10, <2>2, <2>3 DEF TableInv
<1>12. CASE Disciplined
  <2>1. /\ inside' = inside \cup {<<me, m>>}
        /\ last_wait' = [last_wait EXCEPT ![me] = m]
        /\ <<me, m>> \notin inside
    BY <1>1, <1>12 DEF Enter, MayWait
  <2>2. ClientsSound'
    <3>1. inside' \subseteq (1 .. next_pid' - 1) \X handles'
      BY <1>1, <1>2, <1>3, <1>4, <2>1 DEF ClientsSound
    <3>2. ASSUME NEW n \in Sems, NEW p \in Pids, <<p, n>> \in inside'
          PROVE  \E s \in Live : pid[s] = p
      BY <1>3, <1>4, <2>1, <3>2 DEF ClientsSound
    <3>3. ASSUME NEW n \in Sems, NEW p \in Range(wait_queue'[n])
          PROVE  last_wait'[p] = n /\ <<p, n>> \in inside'
      <4>1. CASE p = me
        <5>1. n = m
          BY <1>3, <1>6, <3>3, <4>1
        <5> QED
          BY <1>3, <1>4, <2>1, <4>1, <5>1 DEF SemTypeOK
      <4>2. CASE p # me
        <5>1. p \in Range(wait_queue[n])
          BY <1>6, <3>3, <4>2
        <5>2. p \in Pids /\ last_wait[p] = n /\ <<p, n>> \in inside
          BY <1>4, <1>12, <5>1, WaiterFacts DEF ClientsSound
        <5> QED
          BY <1>4, <2>1, <4>2, <5>2 DEF SemTypeOK
      <4> QED
        BY <4>1, <4>2
    <3> QED
      BY <1>1, <1>2, <1>12, <3>1, <3>2, <3>3 DEF ClientsSound, Disciplined
  <2>3. ASSUME NEW n \in handles PROVE Served(n)' = Served(n)
    <3>1. n \in Sems
      BY <1>4 DEF SemTypeOK
    <3>2. CASE n = m
      BY <1>6, <2>1, <3>2 DEF Served
    <3>3. CASE n # m
      BY <1>6, <2>1, <3>1, <3>3 DEF Served
    <3> QED
      BY <3>2, <3>3
  <2>4. UnitsSound'
    BY <1>1, <2>3, UnitsStep
  <2> QED
    BY <1>7, <1>8, <1>9, <1>10, <2>2, <2>4 DEF TableInv
<1> QED
  BY <1>11, <1>12

\* What a post means to its clients.
LEMMA LeaveFacts ==
    ASSUME NEW m \in Sems, Leave(m), MayPost(m)
    PROVE  /\ inside' = inside \ {<<me, m>>}
           /\ UNCHANGED <<clients, handles, last_wait, initial>>
           /\ Disciplined => <<me, m>> \in inside
BY DEF Leave, MayPost

\* Nobody waits: the unit of the caller goes to the count.
LEMMA PostKeepInv ==
    ASSUME SemInv, NEW m \in Sems, ksem_post_keep(m)
    PROVE  TableInv' /\ UnitsSound'
<1>1. /\ wait_queue[m] = <<>>
      /\ count' = [count EXCEPT ![m] = @ + 1]
      /\ UNCHANGED <<procVars, schedVars, allocated, wait_queue, sem_queue>>
      /\ Caller /\ Leave(m) /\ MayPost(m)
  BY DEF ksem_post_keep
<1>2. /\ Live' = Live /\ pid' = pid /\ next_pid' = next_pid
      /\ PidsOf("WAITING")' = PidsOf("WAITING")
  BY <1>1, QuietFacts
<1>3. /\ inside' = inside \ {<<me, m>>}
      /\ UNCHANGED <<clients, handles, last_wait, initial>>
      /\ Disciplined => <<me, m>> \in inside
  BY <1>1, LeaveFacts
<1>4. SemTypeOK /\ NoUnitWhileWaiting /\ WaitersPlaced /\ IdsSound /\ ClientsSound
  BY DEF SemInv, TableInv
<1>5. /\ count[m] \in Nat /\ count' \in [Sems -> Nat]
      /\ count'[m] = count[m] + 1 /\ \A n \in Sems : n # m => count'[n] = count[n]
  BY <1>1, <1>4 DEF SemTypeOK
<1>6. SemTypeOK'
  BY <1>1, <1>2, <1>3, <1>4, <1>5 DEF SemTypeOK
<1>7. NoUnitWhileWaiting' /\ IdsSound'
  BY <1>1, <1>3, <1>4, <1>5 DEF NoUnitWhileWaiting, IdsSound
<1>8. WaitersPlaced'
  <2>1. wait_queue' = wait_queue
    BY <1>1
  <2> QED
    BY <1>2, <1>4, <2>1 DEF WaitersPlaced
<1>9. /\ me \in Pids /\ \A n \in Sems : me \notin Range(wait_queue[n])
  BY <1>1, CallerFacts
<1>10. ClientsSound'
  <2>1. inside' \subseteq (1 .. next_pid' - 1) \X handles'
    BY <1>2, <1>3, <1>4 DEF ClientsSound
  <2>2. Disciplined' \/ inside' = {}
    BY <1>3, <1>4 DEF ClientsSound, Disciplined
  <2>3. ASSUME Disciplined, NEW n \in Sems, NEW p \in Range(wait_queue[n])
        PROVE  last_wait[p] = n /\ <<p, n>> \in inside'
    <3>1. p # me /\ last_wait[p] = n /\ <<p, n>> \in inside
      BY <1>4, <1>9, <2>3 DEF ClientsSound
    <3> QED
      BY <1>3, <3>1
  <2> QED
    BY <1>1, <1>2, <1>3, <1>4, <2>1, <2>2, <2>3 DEF ClientsSound, Disciplined
<1>11. ASSUME Disciplined, NEW n \in handles
       PROVE  count'[n] + Cardinality(Served(n)') = count[n] + Cardinality(Served(n))
  <2>1. CASE n = m
    <3>1. Served(m)' = Served(m) \ {me} /\ me \in Served(m)
      BY <1>1, <1>3, <1>9, <1>11 DEF Served
    <3>2. Cardinality(Served(m)') = Cardinality(Served(m)) - 1
      BY <3>1, ServedFinite, FS_RemoveElement
    <3>3. Cardinality(Served(m)) \in Nat
      BY ServedFinite
    <3> QED
      BY <1>5, <2>1, <3>2, <3>3
  <2>2. CASE n # m
    <3>1. Served(n)' = Served(n)
      BY <1>1, <1>3, <2>2 DEF Served
    <3> QED
      BY <1>4, <1>5, <2>2, <3>1 DEF SemTypeOK
  <2> QED
    BY <2>1, <2>2
<1>12. UnitsSound'
  BY <1>3, <1>11, UnitsStep
<1> QED
  BY <1>6, <1>7, <1>8, <1>10, <1>12 DEF TableInv

\* The first waiter takes over the unit of the caller.
LEMMA PostPassInv ==
    ASSUME SemInv, NEW m \in Sems, ksem_post_pass(m)
    PROVE  TableInv' /\ UnitsSound'
<1> DEFINE W == PidsOf("WAITING")
           p == Head(wait_queue[m])
<1>1. /\ wait_queue[m] # <<>>
      /\ wait_queue' = [wait_queue EXCEPT ![m] = Tail(@)]
      /\ count' = count
      /\ UNCHANGED <<allocated, sem_queue>>
      /\ WakePid(p) /\ p \in W /\ p \in Range(wait_queue[m])
      /\ Caller /\ Leave(m) /\ MayPost(m)
  BY PostWakes DEF ksem_post_pass
<1>2. /\ W' = W \ {p}
      /\ Live' = Live /\ pid' = pid /\ next_pid' = next_pid
  BY <1>1, WakeFacts DEF SemInv
<1>3. /\ inside' = inside \ {<<me, m>>}
      /\ UNCHANGED <<clients, handles, last_wait, initial>>
      /\ Disciplined => <<me, m>> \in inside
  BY <1>1, LeaveFacts
<1>4. SemTypeOK /\ NoUnitWhileWaiting /\ WaitersPlaced /\ IdsSound /\ ClientsSound
  BY DEF SemInv, TableInv
<1>5. me \in Pids /\ me \notin W /\ \A n \in Sems : me \notin Range(wait_queue[n])
  BY <1>1, CallerFacts
<1> HIDE DEF W, p
<1>6. Placed(W \ {p}, Sems, wait_queue') /\ Shrank(Sems, wait_queue, m, wait_queue')
  <2>1. wait_queue \in [Sems -> Seq(Nat)] /\ Placed(W, Sems, wait_queue)
    BY <1>4, WaitersArePlaced DEF SemTypeOK, W
  <2>2. p = Head(wait_queue[m]) /\ wait_queue' = Shortened(wait_queue, m) /\ wait_queue[m] # <<>>
    BY <1>1 DEF p, Shortened
  <2>3. Placed(W \ {p}, Sems, wait_queue')
    BY <2>1, <2>2, LeaveQueue, Zenon
  <2>4. Shrank(Sems, wait_queue, m, wait_queue')
    BY <2>1, <2>2, ShortenedFacts, Zenon
  <2> QED
    BY <2>3, <2>4
<1>7. /\ wait_queue' \in [Sems -> Seq(Nat)]
      /\ \A n \in Sems : Range(wait_queue'[n]) = Range(wait_queue[n]) \ {p}
      /\ \A n \in Sems : n # m => wait_queue'[n] = wait_queue[n]
  BY <1>6 DEF Shrank, p
<1>8. SemTypeOK'
  BY <1>1, <1>2, <1>3, <1>4, <1>7 DEF SemTypeOK
<1>9. NoUnitWhileWaiting'
  BY <1>1, <1>4, <1>7 DEF NoUnitWhileWaiting
<1>10. WaitersPlaced'
  BY <1>2, <1>6 DEF WaitersPlaced, Placed, W
<1>11. IdsSound'
  <2>1. m \notin Range(sem_queue) /\ Range(sem_queue) \subseteq Sems
    BY <1>1, <1>4 DEF IdsSound
  <2> QED
    BY <1>1, <1>3, <1>4, <1>7, <2>1 DEF IdsSound
<1>12. ClientsSound'
  <2>1. inside' \subseteq (1 .. next_pid' - 1) \X handles'
    BY <1>2, <1>3, <1>4 DEF ClientsSound
  <2>2. Disciplined' \/ inside' = {}
    BY <1>3, <1>4 DEF ClientsSound, Disciplined
  <2>3. ASSUME Disciplined, NEW n \in Sems, NEW q \in Range(wait_queue'[n])
        PROVE  last_wait[q] = n /\ <<q, n>> \in inside'
    <3>1. q \in Range(wait_queue[n]) /\ q # me
      BY <1>5, <1>7, <2>3
    <3>2. last_wait[q] = n /\ <<q, n>> \in inside
      BY <1>4, <2>3, <3>1 DEF ClientsSound
    <3> QED
      BY <1>3, <3>1, <3>2
  <2> QED
    BY <1>2, <1>3, <1>4, <2>1, <2>2, <2>3 DEF ClientsSound, Disciplined
<1>13. ASSUME Disciplined, NEW n \in handles
       PROVE  count'[n] + Cardinality(Served(n)') = count[n] + Cardinality(Served(n))
  <2>1. n \in Sems
    BY <1>4 DEF SemTypeOK
  <2>2. CASE n = m
    <3> DEFINE Others == Served(m) \ {me}
    <3>1. p \in Pids /\ p # me /\ <<p, m>> \in inside
      BY <1>1, <1>4, <1>5, <1>13, WaiterFacts DEF ClientsSound
    <3>2. p \notin Served(m) /\ me \in Served(m)
      BY <1>1, <1>3, <1>5, <1>13 DEF Served
    <3>3. Served(m)' = Others \cup {p}
      <4>1. /\ \A q : <<q, m>> \in inside' <=> <<q, m>> \in inside /\ q # me
            /\ Range(wait_queue'[m]) = Range(wait_queue[m]) \ {p}
        BY <1>3, <1>7
      <4>2. \A q \in Pids : q \in Served(m)' <=> q \in Others \cup {p}
        BY <3>1, <4>1 DEF Served
      <4> QED
        BY <3>1, <4>2 DEF Served
    <3>4. IsFiniteSet(Others) /\ Cardinality(Others) = Cardinality(Served(m)) - 1
      BY <3>2, ServedFinite, FS_RemoveElement
    <3>5. Cardinality(Served(m)') = Cardinality(Others) + 1
      <4>1. p \notin Others
        BY <3>2
      <4> HIDE DEF Others
      <4> QED
        BY <3>3, <3>4, <4>1, FS_AddElement
    <3>6. Cardinality(Served(m)) \in Nat
      BY ServedFinite
    <3> QED
      BY <1>1, <2>2, <3>4, <3>5, <3>6
  <2>3. CASE n # m
    <3>1. Served(n)' = Served(n)
      BY <1>3, <1>7, <2>1, <2>3 DEF Served
    <3> QED
      BY <1>1, <3>1
  <2> QED
    BY <2>2, <2>3
<1>14. UnitsSound'
  BY <1>3, <1>13, UnitsStep
<1> QED
  BY <1>8, <1>9, <1>10, <1>11, <1>12, <1>14 DEF TableInv

\* A call that is refused changes nothing.
LEMMA SameInv ==
    ASSUME SemInv, UNCHANGED <<procVars, schedVars, semVars>>
    PROVE  TableInv' /\ UnitsSound'
<1>1. UNCHANGED <<allocated, count, wait_queue, sem_queue, clients, handles, inside,
                  last_wait, initial>>
  BY DEF semVars, tableVars, clientVars
<1>2. /\ Live' = Live /\ pid' = pid /\ next_pid' = next_pid
      /\ PidsOf("WAITING")' = PidsOf("WAITING")
  BY QuietFacts
<1>3. SemTypeOK' /\ NoUnitWhileWaiting' /\ IdsSound'
  BY <1>1, <1>2 DEF SemInv, TableInv, SemTypeOK, NoUnitWhileWaiting, IdsSound
<1>4. WaitersPlaced'
  BY <1>1, <1>2 DEF SemInv, TableInv, WaitersPlaced
<1>5. ClientsSound'
  BY <1>1, <1>2 DEF SemInv, TableInv, ClientsSound, Disciplined
<1>6. UnitsSound'
  BY <1>1, UnitsSame
<1> QED
  BY <1>3, <1>4, <1>5, <1>6 DEF TableInv

-----------------------------------------------------------------------------
(* The theorems                                                            *)

LEMMA SemInitInv == SemInit => SemInv
<1> SUFFICES ASSUME SemInit PROVE SemInv
  OBVIOUS
<1> USE DEF SemInit
<1>1. Inv
  BY InitInv
<1>2. PidsOf("WAITING") = {}
  BY DEF Init, PidsOf, Live
<1>3. /\ allocated = [m \in Sems |-> FALSE]
      /\ count = [m \in Sems |-> 0]
      /\ wait_queue = [m \in Sems |-> <<>>]
      /\ sem_queue = [i \in 1 .. SemMax |-> i - 1]
      /\ handles = {} /\ inside = {}
      /\ last_wait = [p \in Pids |-> NULL]
      /\ initial = [m \in Sems |-> 0]
      /\ next_pid = BootProcs
  BY DEF Init
<1>4. SemMax \in Nat
  BY SemAssumption
<1> HIDE DEF SemInit
<1>5. SemTypeOK
  <2>1. sem_queue \in Seq(Sems)
    BY <1>3, <1>4 DEF Sems
  <2>2. next_pid <= MaxPid + 1
    BY <1>3, BootProcsAssumption, ProcMaxAssumption, MaxPidAssumption
  <2> QED
    BY <1>3, <2>1, <2>2 DEF SemTypeOK
<1>6. NoUnitWhileWaiting
  BY <1>3 DEF NoUnitWhileWaiting
<1>7. WaitersPlaced
  <2>1. \A m \in Sems : Range(wait_queue[m]) = {} /\ IsInjective(wait_queue[m])
    BY <1>3 DEF Range, IsInjective
  <2> QED
    BY <1>2, <2>1 DEF WaitersPlaced
<1>8. IdsSound
  <2>1. IsInjective(sem_queue)
    BY <1>3, <1>4 DEF IsInjective
  <2>2. Range(sem_queue) = Sems
    <3>1. ASSUME NEW m \in Sems PROVE m \in Range(sem_queue)
      <4>1. m + 1 \in 1 .. SemMax /\ sem_queue[m + 1] = m
        BY <1>3, <1>4, <3>1 DEF Sems
      <4> QED
        BY <1>3, <4>1 DEF Range
    <3>2. ASSUME NEW i \in 1 .. SemMax PROVE sem_queue[i] \in Sems
      BY <1>3, <1>4, <3>2 DEF Sems
    <3> QED
      BY <1>3, <3>1, <3>2 DEF Range
  <2> QED
    BY <1>3, <2>1, <2>2 DEF IdsSound
<1>9. ClientsSound
  <2>1. \A m \in Sems : Range(wait_queue[m]) = {}
    BY <1>3 DEF Range
  <2> QED
    BY <1>3, <2>1 DEF ClientsSound
<1>10. UnitsSound
  BY <1>3 DEF UnitsSound
<1> QED
  BY <1>1, <1>5, <1>6, <1>7, <1>8, <1>9, <1>10 DEF SemInv, TableInv

LEMMA SemStep ==
    ASSUME SemInv, [SemNext]_<<vars, semVars>>
    PROVE  [Next]_vars
BY StepOfKProc

LEMMA SemNextInv ==
    ASSUME SemInv, [SemNext]_<<vars, semVars>>
    PROVE  SemInv'
<1>1. Inv'
  BY SemStep, NextInv DEF SemInv
<1>2. ASSUME SemNext PROVE TableInv' /\ UnitsSound'
  <2>1. ASSUME ProcWork PROVE TableInv' /\ UnitsSound'
    BY <2>1, ProcWorkInv
  <2>2. ASSUME NEW value \in Values, ksem_init(value) PROVE TableInv' /\ UnitsSound'
    BY <2>2, InitCallInv
  <2>3. ASSUME NEW m \in Sems, SemCall(m) PROVE TableInv' /\ UnitsSound'
    <3>1. ASSUME SemRefuse(m) PROVE TableInv' /\ UnitsSound'
      BY <3>1, SameInv DEF SemRefuse, semVars
    <3> QED
      BY <2>3, <3>1, DestroyCallInv, WaitFreeInv, WaitBlockInv, PostKeepInv, PostPassInv
      DEF SemCall, ksem_post
  <2> QED
    BY <1>2, <2>1, <2>2, <2>3 DEF SemNext
<1>3. ASSUME UNCHANGED <<vars, semVars>> PROVE TableInv' /\ UnitsSound'
  BY <1>3, SameInv DEF vars
<1> QED
  BY <1>1, <1>2, <1>3 DEF SemInv

(***************************************************************************)
(* The invariant that the theorems below take their parts from holds in    *)
(* every reachable state, for every number of processes and semaphores and *)
(* for clients of both kinds.                                              *)
(***************************************************************************)
THEOREM SemSafety == SemSpec => []SemInv
BY SemInitInv, SemNextInv, PTL DEF SemSpec

(***************************************************************************)
(* ksem_post never leaves a unit in the count while a process waits for    *)
(* it: no post is lost, in whatever order waits and posts come.            *)
(***************************************************************************)
THEOREM NoPostLost == SemSpec => []NoUnitWhileWaiting
<1>1. SemInv => NoUnitWhileWaiting
  BY DEF SemInv, TableInv
<1> QED
  BY <1>1, SemSafety, PTL

(***************************************************************************)
(* A process waits exactly when it is in one wait queue, once.             *)
(***************************************************************************)
THEOREM SemWaitersPlaced == SemSpec => []WaitersPlaced
<1>1. SemInv => WaitersPlaced
  BY DEF SemInv, TableInv
<1> QED
  BY <1>1, SemSafety, PTL

(***************************************************************************)
(* ksem_init and ksem_destroy never leak an id, never hand one out twice,  *)
(* and hand out no semaphore that a process waits for.                     *)
(***************************************************************************)
THEOREM SemIdsSound == SemSpec => []IdsSound
<1>1. SemInv => IdsSound
  BY DEF SemInv, TableInv
<1> QED
  BY <1>1, SemSafety, PTL

(***************************************************************************)
(* Clients that post what they waited for hold, with the count, exactly    *)
(* the units the semaphore was created with, also while one is handed to a *)
(* process that runs much later.                                           *)
(***************************************************************************)
THEOREM UnitsAreConserved == SemSpec => []UnitsConserved
<1>1. SemInv => UnitsConserved
  <2> SUFFICES ASSUME SemInv, Disciplined, NEW m \in handles
               PROVE  count[m] + Cardinality(Holders(m)) = initial[m]
    BY DEF UnitsConserved
  <2>1. Holders(m) = Served(m)
    BY HoldersAreServed DEF SemInv, TableInv, SemTypeOK
  <2> QED
    BY <2>1 DEF SemInv, UnitsSound
<1> QED
  BY <1>1, SemSafety, PTL

(***************************************************************************)
(* The semaphore calls drive the scheduler only in the ways that KProc     *)
(* allows: a full wait queue and an unknown waiter never come up, and what *)
(* is proved of KProc holds with them.                                     *)
(***************************************************************************)
THEOREM SemImplementsKProc == SemSpec => ImplementsKProc
<1>1. SemInit => Init
  BY DEF SemInit
<1>2. SemInv /\ [SemNext]_<<vars, semVars>> => [Next]_vars
  BY SemStep
<1> QED
  BY <1>1, <1>2, SemSafety, PTL DEF SemSpec, ImplementsKProc, Spec

-----------------------------------------------------------------------------
(* Ping and pong: the invariant                                            *)

SetupSteps == {"check", "init", "store"} \X Names
LoopSteps == {"load", "post", "wait", "sleep"} \X {"first", "mine", "other"}
Steps == SetupSteps \cup LoopSteps

PlayTypes ==
    /\ pc \in [Players -> Steps]
    /\ eax \in [Players -> Int]
    /\ pingpong_semaphores \in [Names -> Sems \cup {-1}]
    /\ brought \in Nat
    /\ clients = "wild"
    /\ \A p \in Players : p \in Slots /\ pid[p] = p

\* The steps of a process before it has created semaphore s or found it.
NotYet(s) ==
    {<<"check", "ping">>, <<"init", "ping">>} \cup
    IF s = "ping" THEN {} ELSE {<<"store", "ping">>, <<"check", "pong">>, <<"init", "pong">>}

(***************************************************************************)
(* An id that is stored, or about to be, was given by ksem_init; a process *)
(* past the set-up of a semaphore finds its id; and the one that a process *)
(* has loaded for a call is such an id.                                    *)
(***************************************************************************)
IdsStored ==
    /\ \A s \in Names : pingpong_semaphores[s] # -1 => pingpong_semaphores[s] \in handles
    /\ \A p \in Players :
          /\ pc[p][1] \in {"store", "post", "wait"} => eax[p] \in handles
          /\ \A s \in Names :
                pc[p] \notin NotYet(s) \cup {<<"store", s>>} => pingpong_semaphores[s] # -1

\* Who has got past the creation of which semaphore; each created one at most.
Past == {u \in Players \X Names : pc[u[1]] \notin NotYet(u[2])}

IdsEnough == Cardinality(handles) <= Cardinality(Past)

\* Whoever waits called sem_wait, and its program has gone no further.
WaitersStay ==
    \A p \in PidsOf("WAITING") : p \in Players /\ pc[p] = <<"sleep", "mine">>

\* Between the call of sem_wait and the return of sem_post.
UnitSteps == {<<"sleep", "mine">>, <<"load", "other">>, <<"post", "other">>}

\* The players with a unit, counted by who waits and not by the states.
Holding == {p \in Players : pc[p] \in UnitSteps /\ p \notin PidsOf("WAITING")}

UnitsCounted == IsFiniteSet(Spare) /\ Cardinality(Spare) + Cardinality(Holding) = brought

PlayState == PlayTypes /\ IdsStored /\ IdsEnough /\ WaitersStay /\ UnitsCounted

PlayInv == SemInv /\ PlayState

-----------------------------------------------------------------------------
(* The units in the counts                                                 *)

LEMMA SpareAre ==
    \A u : u \in Spare <=> \E m \in handles : \E i \in 1 .. count[m] : u = <<m, i>>
BY DEF Spare

LEMMA SpareNextAre ==
    \A u : u \in Spare' <=> \E m \in handles' : \E i \in 1 .. count'[m] : u = <<m, i>>
BY DEF Spare

LEMMA SpareSame ==
    ASSUME handles' = handles, count' = count
    PROVE  Spare' = Spare
BY SpareAre, SpareNextAre

\* Semaphore m gains a unit, or is new and has one.
LEMMA SpareMore ==
    ASSUME NEW m, NEW n \in Nat, IsFiniteSet(Spare), m \in handles',
           handles \subseteq handles', handles' \subseteq handles \cup {m},
           IF m \in handles THEN count[m] = n ELSE n = 0,
           count'[m] = n + 1, \A k \in handles : k # m => count'[k] = count[k]
    PROVE  IsFiniteSet(Spare') /\ Cardinality(Spare') = Cardinality(Spare) + 1
<1>1. \A u : u \in Spare' <=> u \in Spare \/ u = <<m, n + 1>>
  <2>1. ASSUME NEW u \in Spare' PROVE u \in Spare \/ u = <<m, n + 1>>
    <3>1. PICK k \in handles' : \E i \in 1 .. count'[k] : u = <<k, i>>
      BY <2>1, SpareNextAre
    <3>2. PICK i \in 1 .. count'[k] : u = <<k, i>>
      BY <3>1
    <3>3. CASE k # m
      <4>1. k \in handles /\ i \in 1 .. count[k]
        BY <3>1, <3>2, <3>3
      <4> QED
        BY <3>2, <4>1, SpareAre
    <3>4. CASE k = m
      <4>1. i \in 1 .. n \/ i = n + 1
        BY <3>2, <3>4
      <4>2. ASSUME i \in 1 .. n PROVE u \in Spare
        <5>1. m \in handles /\ i \in 1 .. count[m]
          BY <4>2
        <5> QED
          BY <3>2, <3>4, <5>1, SpareAre
      <4> QED
        BY <3>2, <3>4, <4>1, <4>2
    <3> QED
      BY <3>3, <3>4
  <2>2. ASSUME NEW u \in Spare PROVE u \in Spare'
    <3>1. PICK k \in handles : \E i \in 1 .. count[k] : u = <<k, i>>
      BY <2>2, SpareAre
    <3>2. PICK i \in 1 .. count[k] : u = <<k, i>>
      BY <3>1
    <3>3. k \in handles' /\ i \in 1 .. count'[k]
      <4>1. CASE k = m
        BY <3>1, <3>2, <4>1
      <4>2. CASE k # m
        BY <3>1, <3>2, <4>2
      <4> QED
        BY <4>1, <4>2
    <3> QED
      BY <3>2, <3>3, SpareNextAre
  <2>3. <<m, n + 1>> \in Spare'
    <3>1. n + 1 \in 1 .. count'[m]
      OBVIOUS
    <3> QED
      BY <3>1, SpareNextAre
  <2> QED
    BY <2>1, <2>2, <2>3
<1>2. <<m, n + 1>> \notin Spare
  <2> SUFFICES ASSUME <<m, n + 1>> \in Spare PROVE FALSE
    OBVIOUS
  <2>1. PICK k \in handles : \E i \in 1 .. count[k] : <<m, n + 1>> = <<k, i>>
    BY SpareAre
  <2>2. m \in handles /\ n + 1 \in 1 .. count[m]
    BY <2>1
  <2> QED
    BY <2>2
<1>3. Spare' = Spare \cup {<<m, n + 1>>}
  BY <1>1
<1> QED
  BY <1>2, <1>3, FS_AddElement

\* Semaphore m is new and has no unit.
LEMMA SpareNew ==
    ASSUME NEW m, handles' = handles \cup {m}, m \notin handles, count'[m] = 0,
           \A k \in handles : count'[k] = count[k]
    PROVE  Spare' = Spare
<1>1. \A u : u \in Spare' <=> u \in Spare
  <2>1. \A i : i \notin 1 .. count'[m]
    OBVIOUS
  <2> QED
    BY <2>1, SpareAre, SpareNextAre
<1> QED
  BY <1>1

\* Semaphore m loses a unit.
LEMMA SpareLess ==
    ASSUME NEW m \in handles, NEW n \in Nat, IsFiniteSet(Spare), handles' = handles,
           count[m] = n + 1, count'[m] = n, \A k \in handles : k # m => count'[k] = count[k]
    PROVE  IsFiniteSet(Spare') /\ Cardinality(Spare') = Cardinality(Spare) - 1
<1>1. \A u : u \in Spare' <=> u \in Spare /\ u # <<m, n + 1>>
  <2>1. ASSUME NEW u \in Spare' PROVE u \in Spare /\ u # <<m, n + 1>>
    <3>1. PICK k \in handles' : \E i \in 1 .. count'[k] : u = <<k, i>>
      BY <2>1, SpareNextAre
    <3>2. PICK i \in 1 .. count'[k] : u = <<k, i>>
      BY <3>1
    <3>3. CASE k # m
      <4>1. k \in handles /\ i \in 1 .. count[k]
        BY <3>1, <3>2, <3>3
      <4> QED
        BY <3>2, <3>3, <4>1, SpareAre
    <3>4. CASE k = m
      <4>1. i \in 1 .. count[m] /\ i # n + 1
        BY <3>2, <3>4
      <4> QED
        BY <3>2, <3>4, <4>1, SpareAre
    <3> QED
      BY <3>3, <3>4
  <2>2. ASSUME NEW u \in Spare, u # <<m, n + 1>> PROVE u \in Spare'
    <3>1. PICK k \in handles : \E i \in 1 .. count[k] : u = <<k, i>>
      BY <2>2, SpareAre
    <3>2. PICK i \in 1 .. count[k] : u = <<k, i>>
      BY <3>1
    <3>3. k \in handles' /\ i \in 1 .. count'[k]
      <4>1. CASE k = m
        BY <2>2, <3>1, <3>2, <4>1
      <4>2. CASE k # m
        BY <3>1, <3>2, <4>2
      <4> QED
        BY <4>1, <4>2
    <3> QED
      BY <3>2, <3>3, SpareNextAre
  <2> QED
    BY <2>1, <2>2
<1>2. <<m, n + 1>> \in Spare
  <2>1. n + 1 \in 1 .. count[m]
    OBVIOUS
  <2> QED
    BY <2>1, SpareAre
<1>3. Spare' = Spare \ {<<m, n + 1>>}
  BY <1>1
<1> QED
  BY <1>2, <1>3, FS_RemoveElement

-----------------------------------------------------------------------------
(* The active player                                                       *)

LEMMA PlayerFacts ==
    ASSUME NEW p \in Players
    PROVE  p \in Nat /\ p # 0 /\ p % 2 \in {0, 1}
BY PlayersAssumption, BootProcsAssumption, ProcMaxAssumption

LEMMA AtFacts ==
    ASSUME PlayInv, NEW step, At(step)
    PROVE  /\ me \in Players /\ pc[me] = step /\ Caller
           /\ me \notin PidsOf("WAITING")
<1>1. me \in Players /\ pc[me] = step /\ Caller
  BY DEF At, me, PlayInv, PlayState, PlayTypes
<1> QED
  BY <1>1, CallerFacts DEF PlayInv

\* Player q goes on to step next; the others stay where they are.
Moved(q, next) ==
    /\ pc' \in [Players -> Steps]
    /\ pc'[q] = next
    /\ \A p \in Players : p # q => pc'[p] = pc[p]

\* No eax changes but that of player q.
Loaded(q) ==
    /\ eax' \in [Players -> Int]
    /\ \A p \in Players : p # q => eax'[p] = eax[p]

LEMMA GotoFacts ==
    ASSUME PlayInv, me \in Players, NEW next \in Steps, Goto(next)
    PROVE  Moved(me, next)
BY DEF PlayInv, PlayState, PlayTypes, Goto, me, Moved

LEMMA LoadFacts ==
    ASSUME PlayInv, me \in Players, NEW value \in Int, Load(value)
    PROVE  Loaded(me) /\ eax'[me] = value
BY DEF PlayInv, PlayState, PlayTypes, Load, me, Loaded

LEMMA ReturnFacts ==
    ASSUME PlayInv, me \in Players, NEW call \in Int, NEW value \in Int, Return(call, value)
    PROVE  Loaded(me) /\ (active_proc' # NULL => eax'[me] = value)
<1> DEFINE rc == IF active_proc' = NULL THEN call ELSE value
<1>1. rc \in Int /\ Load(rc)
  BY DEF Return
<1> QED
  BY <1>1, LoadFacts

\* The id of a call is that of a semaphore in use.
LEMMA CalledIds ==
    ASSUME PlayInv, me \in Players, pc[me][1] \in {"post", "wait"}
    PROVE  eax[me] \in handles /\ eax[me] \in Sems
BY DEF PlayInv, PlayState, IdsStored, SemInv, TableInv, SemTypeOK

-----------------------------------------------------------------------------
(* Every step is a step of KSem                                            *)

LEMMA StepOfKSem ==
    ASSUME PlayInv, PlayNext
    PROVE  SemNext \/ UNCHANGED <<vars, semVars>>
<1>1. ~ Disciplined
  BY DEF PlayInv, PlayState, PlayTypes, Disciplined
<1>2. ASSUME KernelWork \/ ProcEntry, UNCHANGED semVars PROVE SemNext
  BY <1>1, <1>2 DEF SemNext, ProcWork
<1>3. ASSUME NEW s \in Names, Check(s) \/ Store(s) PROVE UNCHANGED <<vars, semVars>>
  BY <1>3 DEF Check, Store, Local
<1>4. ASSUME NEW s \in Names, sem_init(s) PROVE SemNext
  <2>1. Value(s) \in Values /\ ksem_init(Value(s))
    BY <1>4, ClientAssumption DEF sem_init, Value
  <2> QED
    BY <2>1 DEF SemNext
<1>5. CASE LoadStep
  BY <1>5 DEF LoadStep, LoadId, Local
<1>6. CASE sem_wait
  <2>1. eax[me] \in Sems
    BY <1>6, AtFacts, CalledIds DEF sem_wait
  <2> QED
    BY <1>6, <2>1 DEF sem_wait, SemNext, SemCall
<1>7. CASE proc_sleep
  <2>1. Mine \in Names /\ me % 2 \in {0, 1}
    BY <1>7, AtFacts, PlayerFacts DEF proc_sleep, Mine, Names
  <2>2. Delay[Mine] \in Nat /\ {Delay[Mine], Delay[Mine] + 1} \subseteq Seconds
    BY <2>1, DelayAssumption
  <2>3. (me % 2) + Delay[Mine] \in Seconds
    BY <2>1, <2>2
  <2> QED
    BY <1>2, <1>7, <2>3 DEF proc_sleep, ProcEntry
<1>8. ASSUME NEW which, sem_post(which), which \in {"first", "other"} PROVE SemNext
  <2>1. eax[me] \in Sems
    BY <1>8, AtFacts, CalledIds DEF sem_post
  <2> QED
    BY <1>8, <2>1 DEF sem_post, SemNext, SemCall
<1>9. CASE Meanwhile
  BY <1>2, <1>9 DEF Meanwhile
<1> QED
  BY <1>3, <1>4, <1>5, <1>6, <1>7, <1>8, <1>9 DEF PlayNext, PlayStep

-----------------------------------------------------------------------------
(* What a move leaves as it was                                            *)

\* The ids: what player q stored or loaded is one in use.
LEMMA IdsKeep ==
    ASSUME PlayInv, NEW q \in Players, NEW next, Moved(q, next), Loaded(q),
           handles \subseteq handles', UNCHANGED <<clients, pid>>, brought' \in Nat,
           pingpong_semaphores' \in [Names -> Sems \cup {-1}],
           \A s \in Names :
              /\ pingpong_semaphores[s] # -1 => pingpong_semaphores'[s] # -1
              /\ pingpong_semaphores'[s] # -1 => pingpong_semaphores'[s] \in handles'
              /\ next \notin NotYet(s) \cup {<<"store", s>>} => pingpong_semaphores'[s] # -1,
           next[1] \in {"store", "post", "wait"} => eax'[q] \in handles'
    PROVE  PlayTypes' /\ IdsStored'
<1>1. PlayTypes'
  BY DEF PlayInv, PlayState, PlayTypes, Moved, Loaded
<1>2. ASSUME NEW p \in Players
      PROVE  /\ pc'[p][1] \in {"store", "post", "wait"} => eax'[p] \in handles'
             /\ \A s \in Names : pc'[p] \notin NotYet(s) \cup {<<"store", s>>}
                   => pingpong_semaphores'[s] # -1
  <2>1. CASE p = q
    BY <2>1 DEF Moved
  <2>2. CASE p # q
    <3>1. pc'[p] = pc[p] /\ eax'[p] = eax[p]
      BY <2>2 DEF Moved, Loaded
    <3> QED
      BY <3>1 DEF PlayInv, PlayState, IdsStored
  <2> QED
    BY <2>1, <2>2
<1>3. \A s : NotYet(s)' = NotYet(s)
  BY DEF NotYet
<1> QED
  BY <1>1, <1>2, <1>3 DEF IdsStored

LEMMA WaitersKeep ==
    ASSUME PlayInv, NEW q \in Players, NEW next, Moved(q, next), q \notin PidsOf("WAITING"),
           \/ PidsOf("WAITING")' \subseteq PidsOf("WAITING")
           \/ next = <<"sleep", "mine">> /\ PidsOf("WAITING")' \subseteq PidsOf("WAITING") \cup {q}
    PROVE  WaitersStay'
BY DEF PlayInv, PlayState, WaitersStay, Moved

LEMMA PastIsFinite == IsFiniteSet(Past) /\ IsFiniteSet(Past)' /\ IsFiniteSet(Players \X Names)
                      /\ Cardinality(Players \X Names) <= SemMax
<1>1. IsFiniteSet(Players) /\ IsFiniteSet(Names)
  <2>1. IsFiniteSet(1 .. BootProcs - 1)
    BY BootProcsAssumption, ProcMaxAssumption, FS_Interval
  <2>2. IsFiniteSet({} \cup {"ping"}) /\ IsFiniteSet(({} \cup {"ping"}) \cup {"pong"})
    BY FS_EmptySet, FS_AddElement
  <2>3. Names = ({} \cup {"ping"}) \cup {"pong"}
    BY DEF Names
  <2> QED
    BY <2>1, <2>2, <2>3, PlayersAssumption, FS_Subset
<1>2. IsFiniteSet(Players \X Names)
      /\ Cardinality(Players \X Names) = Cardinality(Players) * Cardinality(Names)
  BY <1>1, FS_Product
<1>3. Past \in SUBSET (Players \X Names) /\ Past' \in SUBSET (Players \X Names)
  BY DEF Past
<1> QED
  BY <1>2, <1>3, FS_Subset, EnoughSems

\* No semaphore is created, and nobody goes back to the creation of one.
LEMMA EnoughKeeps ==
    ASSUME PlayInv, NEW q \in Players, NEW next, Moved(q, next), handles' = handles,
           \A s \in Names : pc[q] \notin NotYet(s) => next \notin NotYet(s)
    PROVE  IdsEnough'
<1>1. \A s : NotYet(s)' = NotYet(s)
  BY DEF NotYet
<1>2. Past \in SUBSET Past'
  BY <1>1 DEF Past, Moved
<1>3. Cardinality(Past) <= Cardinality(Past')
  BY <1>2, PastIsFinite, FS_Subset
<1>4. Cardinality(Past) \in Nat /\ Cardinality(Past') \in Nat /\ Cardinality(handles) \in Nat
  <2>1. IsFiniteSet(Sems) /\ handles \in SUBSET Sems
    BY SemAssumption, FS_Interval DEF Sems, PlayInv, SemInv, TableInv, SemTypeOK
  <2> QED
    BY <2>1, PastIsFinite, FS_Subset, FS_CardinalityType
<1> QED
  BY <1>3, <1>4 DEF PlayInv, PlayState, IdsEnough

LEMMA HoldingFinite == IsFiniteSet(Holding) /\ Cardinality(Holding) \in Nat
<1>1. IsFiniteSet(1 .. BootProcs - 1)
  BY BootProcsAssumption, ProcMaxAssumption, FS_Interval
<1>2. Holding \in SUBSET (1 .. BootProcs - 1)
  BY PlayersAssumption DEF Holding
<1> QED
  BY <1>1, <1>2, FS_Subset, FS_CardinalityType

LEMMA HoldingNext ==
    \A p : p \in Holding' <=>
        p \in Players /\ pc'[p] \in UnitSteps /\ p \notin PidsOf("WAITING")'
BY DEF Holding, UnitSteps

\* The player has a unit after the step as before it, or had and has none.
LEMMA HoldingSame ==
    ASSUME NEW q \in Players, NEW next, Moved(q, next), q \notin PidsOf("WAITING"),
           \A p \in Players : p # q => (p \in PidsOf("WAITING")' <=> p \in PidsOf("WAITING")),
           next \in UnitSteps /\ q \notin PidsOf("WAITING")' <=> pc[q] \in UnitSteps
    PROVE  Holding' = Holding
<1>1. \A p : p \in Holding' <=> p \in Holding
  BY HoldingNext DEF Holding, Moved
<1> QED
  BY <1>1

\* The player gets a unit.
LEMMA HoldingMore ==
    ASSUME NEW q \in Players, NEW next, Moved(q, next),
           PidsOf("WAITING")' = PidsOf("WAITING"), q \notin PidsOf("WAITING"),
           pc[q] \notin UnitSteps, next \in UnitSteps
    PROVE  Cardinality(Holding') = Cardinality(Holding) + 1
<1>1. \A p : p \in Holding' <=> p \in Holding \/ p = q
  BY HoldingNext DEF Holding, Moved
<1>2. Holding' = Holding \cup {q} /\ q \notin Holding
  BY <1>1 DEF Holding
<1> QED
  BY <1>2, HoldingFinite, FS_AddElement

\* The player gives its unit up.
LEMMA HoldingLess ==
    ASSUME NEW q \in Players, NEW next, Moved(q, next),
           PidsOf("WAITING")' = PidsOf("WAITING"), q \notin PidsOf("WAITING"),
           pc[q] \in UnitSteps, next \notin UnitSteps
    PROVE  Cardinality(Holding') = Cardinality(Holding) - 1
<1>1. \A p : p \in Holding' <=> p \in Holding /\ p # q
  BY HoldingNext DEF Holding, Moved
<1>2. Holding' = Holding \ {q} /\ q \in Holding
  BY <1>1 DEF Holding
<1> QED
  BY <1>2, HoldingFinite, FS_RemoveElement

\* Player w, which waits, gets the unit that player q posts, its own or another.
LEMMA HoldingPass ==
    ASSUME NEW q \in Players, NEW next, Moved(q, next), q \notin PidsOf("WAITING"),
           NEW w \in Players, w \in PidsOf("WAITING"), pc[w] \in UnitSteps,
           PidsOf("WAITING")' = PidsOf("WAITING") \ {w}, next \notin UnitSteps
    PROVE  Cardinality(Holding') =
              Cardinality(Holding) + IF pc[q] \in UnitSteps THEN 0 ELSE 1
<1> DEFINE Rest == Holding \ {q}
<1>1. \A p : p \in Holding' <=> p \in Rest \/ p = w
  BY HoldingNext DEF Holding, Moved
<1>2. w \notin Rest /\ (q \in Holding <=> pc[q] \in UnitSteps)
  BY DEF Holding
<1>3. IsFiniteSet(Rest)
      /\ Cardinality(Rest) = Cardinality(Holding) - IF pc[q] \in UnitSteps THEN 1 ELSE 0
  BY <1>2, HoldingFinite, FS_RemoveElement
<1>4. Holding' = Rest \cup {w}
  BY <1>1
<1> HIDE DEF Rest
<1>5. Cardinality(Holding') = Cardinality(Rest) + 1
  BY <1>2, <1>3, <1>4, FS_AddElement
<1> QED
  BY <1>3, <1>5, HoldingFinite

-----------------------------------------------------------------------------
(* The steps keep the invariant                                            *)

\* A player past the set-up finds both ids and creates nothing any more.
InLoop(step) == step[1] \in {"load", "wait", "sleep", "post"}

LEMMA LoopFacts ==
    ASSUME NEW step \in Steps, InLoop(step), NEW s \in Names
    PROVE  step \notin NotYet(s) \cup {<<"store", s>>}
BY DEF InLoop, NotYet

LEMMA LoopIds ==
    ASSUME PlayInv, NEW q \in Players, InLoop(pc[q]), NEW s \in Names
    PROVE  pingpong_semaphores[s] # -1
<1>1. pc[q] \in Steps
  BY DEF PlayInv, PlayState, PlayTypes
<1> QED
  BY <1>1, LoopFacts DEF PlayInv, PlayState, IdsStored

\* A step that leaves the semaphores alone.
LEMMA LocalKeeps ==
    ASSUME PlayInv, NEW q \in Players, NEW next, Moved(q, next), Loaded(q),
           UNCHANGED <<semVars, pid, brought>>,
           PidsOf("WAITING")' = PidsOf("WAITING"), q \notin PidsOf("WAITING"),
           next \in UnitSteps <=> pc[q] \in UnitSteps,
           pingpong_semaphores' \in [Names -> Sems \cup {-1}],
           \A s \in Names :
              /\ pingpong_semaphores[s] # -1 => pingpong_semaphores'[s] # -1
              /\ pingpong_semaphores'[s] # -1 => pingpong_semaphores'[s] \in handles
              /\ next \notin NotYet(s) \cup {<<"store", s>>} => pingpong_semaphores'[s] # -1
              /\ pc[q] \notin NotYet(s) => next \notin NotYet(s),
           next[1] \in {"store", "post", "wait"} => eax'[q] \in handles
    PROVE  PlayState'
<1>1. UNCHANGED <<handles, count, clients>>
  BY DEF semVars, tableVars, clientVars
<1>2. brought' \in Nat
  BY DEF PlayInv, PlayState, PlayTypes
<1>3. PlayTypes' /\ IdsStored'
  BY <1>1, <1>2, IdsKeep
<1>4. IdsEnough'
  BY <1>1, EnoughKeeps
<1>5. WaitersStay'
  BY WaitersKeep
<1>6. Holding' = Holding
  BY HoldingSame
<1>7. UnitsCounted'
  BY <1>1, <1>6, SpareSame DEF PlayInv, PlayState, UnitsCounted
<1> QED
  BY <1>3, <1>4, <1>5, <1>7 DEF PlayState

\* The ids do not change either, and the player is past the set-up.
LEMMA LoopKeeps ==
    ASSUME PlayInv, NEW q \in Players, NEW next \in Steps, Moved(q, next), Loaded(q),
           UNCHANGED <<semVars, pid, brought, pingpong_semaphores>>,
           PidsOf("WAITING")' = PidsOf("WAITING"), q \notin PidsOf("WAITING"),
           next \in UnitSteps <=> pc[q] \in UnitSteps,
           InLoop(pc[q]), InLoop(next),
           next[1] \in {"post", "wait"} => eax'[q] \in handles
    PROVE  PlayState'
<1>1. /\ pingpong_semaphores' = pingpong_semaphores
      /\ pingpong_semaphores' \in [Names -> Sems \cup {-1}]
  BY DEF PlayInv, PlayState, PlayTypes
<1>2. ASSUME NEW s \in Names
      PROVE  /\ pingpong_semaphores[s] # -1 => pingpong_semaphores'[s] # -1
             /\ pingpong_semaphores'[s] # -1 => pingpong_semaphores'[s] \in handles
             /\ next \notin NotYet(s) \cup {<<"store", s>>} => pingpong_semaphores'[s] # -1
             /\ pc[q] \notin NotYet(s) => next \notin NotYet(s)
  BY <1>1, LoopIds, LoopFacts DEF PlayInv, PlayState, IdsStored
<1>3. next[1] \in {"store", "post", "wait"} => eax'[q] \in handles
  BY DEF InLoop
<1> QED
  BY <1>1, <1>2, <1>3, LocalKeeps

\* Nothing but the player's place and its eax changes.
LEMMA LocalFacts ==
    ASSUME PlayInv, Local
    PROVE  /\ UNCHANGED <<semVars, pid, brought>>
           /\ PidsOf("WAITING")' = PidsOf("WAITING")
<1>1. UNCHANGED <<procVars, schedVars>> /\ UNCHANGED <<semVars, brought>>
  BY DEF Local, vars
<1> QED
  BY <1>1, QuietFacts

\* The step after the set-up of a semaphore.
LEMMA SetupFacts ==
    ASSUME NEW s \in Names
    PROVE  /\ AfterSetup(s) \in Steps /\ AfterSetup(s) \notin UnitSteps
           /\ AfterSetup(s)[1] \notin {"store", "post", "wait"}
           /\ AfterSetup(s) \notin NotYet(s)
           /\ \A x \in Names : AfterSetup(s) \notin NotYet(x) => x = s \/ s = "pong"
           /\ s = "pong" => \A x \in Names : AfterSetup(s) \notin NotYet(x)
<1>1. CASE s = "ping"
  BY <1>1 DEF AfterSetup, Steps, SetupSteps, LoopSteps, Names, UnitSteps, NotYet
<1>2. CASE s = "pong"
  <2>1. AfterSetup(s) \in {<<"load", "first">>, <<"load", "mine">>}
    BY <1>2 DEF AfterSetup
  <2> QED
    BY <1>2, <2>1 DEF Steps, SetupSteps, LoopSteps, Names, UnitSteps, NotYet
<1> QED
  BY <1>1, <1>2 DEF Names

LEMMA CheckKeeps ==
    ASSUME PlayInv, NEW s \in Names, Check(s)
    PROVE  PlayState'
<1> DEFINE next == IF Unset(s) THEN <<"init", s>> ELSE AfterSetup(s)
<1>1. PICK q \in Players : q = me /\ pc[q] = <<"check", s>> /\ q \notin PidsOf("WAITING")
  BY AtFacts DEF Check
<1>2. Goto(next) /\ Local /\ UNCHANGED <<pingpong_semaphores, eax>>
  BY DEF Check
<1>3. next \in Steps /\ next \notin UnitSteps /\ next[1] \notin {"store", "post", "wait"}
  <2>1. <<"init", s>> \in Steps /\ <<"init", s>> \notin UnitSteps
    BY DEF Steps, SetupSteps, LoopSteps, Names, UnitSteps
  <2> QED
    BY <2>1, SetupFacts
<1>4. ASSUME NEW x \in Names
      PROVE  /\ next \notin NotYet(x) \cup {<<"store", x>>} => pingpong_semaphores[x] # -1
             /\ pc[q] \notin NotYet(x) => next \notin NotYet(x)
  <2>1. pc[q] \notin NotYet(x) => x = "ping" /\ s = "pong" /\ pingpong_semaphores[x] # -1
    <3>1. pc[q] \notin NotYet(x) => x = "ping" /\ s = "pong"
      BY <1>1 DEF NotYet, Names
    <3>2. pc[q] # <<"store", x>>
      BY <1>1
    <3> QED
      BY <3>1, <3>2 DEF PlayInv, PlayState, IdsStored
  <2>2. CASE Unset(s)
    <3>1. next = <<"init", s>>
      BY <2>2
    <3>2. next \notin NotYet(x) <=> pc[q] \notin NotYet(x)
      BY <1>1, <3>1 DEF NotYet, Names
    <3> QED
      BY <2>1, <3>2
  <2>3. CASE ~ Unset(s)
    <3>1. next = AfterSetup(s) /\ pingpong_semaphores[s] # -1
      BY <2>3 DEF Unset
    <3>2. next \notin NotYet(x) => x = s \/ s = "pong"
      BY <3>1, SetupFacts
    <3>3. s = "pong" /\ x # s => pc[q] \notin NotYet(x)
      BY <1>1 DEF NotYet, Names
    <3>4. pc[q] \notin NotYet(x) => next \notin NotYet(x)
      BY <2>1, <3>1, SetupFacts
    <3> QED
      BY <2>1, <3>1, <3>2, <3>3, <3>4
  <2> QED
    BY <2>2, <2>3
<1> HIDE DEF next
<1>5. Moved(q, next) /\ Loaded(q)
  BY <1>1, <1>2, <1>3, GotoFacts DEF Loaded, PlayInv, PlayState, PlayTypes
<1>6. pc[q] \notin UnitSteps
  BY <1>1 DEF UnitSteps
<1>7. /\ UNCHANGED <<semVars, pid, brought>>
      /\ PidsOf("WAITING")' = PidsOf("WAITING")
  BY <1>2, LocalFacts
<1>8. /\ pingpong_semaphores' = pingpong_semaphores
      /\ pingpong_semaphores \in [Names -> Sems \cup {-1}]
      /\ \A x \in Names : pingpong_semaphores[x] # -1 => pingpong_semaphores[x] \in handles
  BY <1>2 DEF PlayInv, PlayState, PlayTypes, IdsStored
<1> QED
  BY <1>1, <1>3, <1>4, <1>5, <1>6, <1>7, <1>8, LocalKeeps

LEMMA StoreKeeps ==
    ASSUME PlayInv, NEW s \in Names, Store(s)
    PROVE  PlayState'
<1> DEFINE next == AfterSetup(s)
<1>1. PICK q \in Players : q = me /\ pc[q] = <<"store", s>> /\ q \notin PidsOf("WAITING")
  BY AtFacts DEF Store
<1>2. /\ Goto(next) /\ Local /\ eax' = eax
      /\ pingpong_semaphores' = [pingpong_semaphores EXCEPT ![s] = eax[q]]
  BY <1>1 DEF Store
<1>3. next \in Steps /\ next \notin UnitSteps /\ next[1] \notin {"store", "post", "wait"}
  BY SetupFacts
<1>4. eax[q] \in handles /\ eax[q] \in Sems
  BY <1>1 DEF PlayInv, PlayState, IdsStored, SemInv, TableInv, SemTypeOK
<1>5. /\ pingpong_semaphores \in [Names -> Sems \cup {-1}]
      /\ \A x \in Names : pingpong_semaphores[x] # -1 => pingpong_semaphores[x] \in handles
  BY DEF PlayInv, PlayState, PlayTypes, IdsStored
<1>6. /\ pingpong_semaphores' \in [Names -> Sems \cup {-1}]
      /\ pingpong_semaphores'[s] = eax[q]
      /\ \A x \in Names : x # s => pingpong_semaphores'[x] = pingpong_semaphores[x]
  BY <1>2, <1>4, <1>5
<1>7. eax[q] # -1
  BY <1>4, SemAssumption DEF Sems
<1>8. ASSUME NEW x \in Names
      PROVE  /\ next \notin NotYet(x) \cup {<<"store", x>>} => pingpong_semaphores'[x] # -1
             /\ pc[q] \notin NotYet(x) => next \notin NotYet(x)
  <2>1. CASE x = s
    BY <1>6, <1>7, <2>1, SetupFacts
  <2>2. CASE x # s
    <3>1. next \notin NotYet(x) => s = "pong"
      BY <2>2, SetupFacts
    <3>2. s = "pong" => pc[q] \notin NotYet(x) \cup {<<"store", x>>}
      BY <1>1, <2>2 DEF NotYet, Names
    <3>3. s = "pong" => pingpong_semaphores[x] # -1
      BY <3>2 DEF PlayInv, PlayState, IdsStored
    <3>4. pc[q] \notin NotYet(x) => s = "pong"
      BY <1>1, <2>2 DEF NotYet, Names
    <3> QED
      BY <1>6, <2>2, <3>1, <3>3, <3>4, SetupFacts
  <2> QED
    BY <2>1, <2>2
<1> HIDE DEF next
<1>9. Moved(q, next) /\ Loaded(q)
  BY <1>1, <1>2, <1>3, GotoFacts DEF Loaded, PlayInv, PlayState, PlayTypes
<1>10. pc[q] \notin UnitSteps
  BY <1>1 DEF UnitSteps
<1>11. /\ UNCHANGED <<semVars, pid, brought>>
       /\ PidsOf("WAITING")' = PidsOf("WAITING")
  BY <1>2, LocalFacts
<1>12. \A x \in Names : /\ pingpong_semaphores[x] # -1 => pingpong_semaphores'[x] # -1
                        /\ pingpong_semaphores'[x] # -1 => pingpong_semaphores'[x] \in handles
  BY <1>4, <1>5, <1>6, <1>7
<1> QED
  BY <1>1, <1>3, <1>6, <1>8, <1>9, <1>10, <1>11, <1>12, LocalKeeps

LEMMA LoadKeeps ==
    ASSUME PlayInv, NEW which \in {"first", "mine", "other"}, NEW s \in Names,
           NEW next \in {"post", "wait"}, LoadId(which, s, next),
           (which = "other") <=> (<<next, which>> \in UnitSteps)
    PROVE  PlayState'
<1> DEFINE step == <<next, which>>
<1>1. PICK q \in Players : q = me /\ pc[q] = <<"load", which>> /\ q \notin PidsOf("WAITING")
  BY AtFacts DEF LoadId
<1>2. /\ Load(pingpong_semaphores[s]) /\ Goto(step) /\ Local
      /\ UNCHANGED pingpong_semaphores
  BY DEF LoadId
<1>3. step \in Steps /\ InLoop(step) /\ InLoop(pc[q])
  BY <1>1 DEF Steps, SetupSteps, LoopSteps, InLoop
<1>4. pingpong_semaphores[s] \in handles /\ pingpong_semaphores[s] \in Int
  <2>1. pingpong_semaphores[s] # -1
    BY <1>3, LoopIds
  <2>2. pingpong_semaphores[s] \in Sems \cup {-1} /\ pingpong_semaphores[s] \in handles
    BY <2>1 DEF PlayInv, PlayState, IdsStored, PlayTypes
  <2> QED
    BY <2>2, SemAssumption DEF Sems
<1>5. pc[q] \in UnitSteps <=> step \in UnitSteps
  BY <1>1 DEF UnitSteps
<1> HIDE DEF step
<1>6. Moved(q, step) /\ Loaded(q) /\ eax'[q] = pingpong_semaphores[s]
  BY <1>1, <1>2, <1>3, <1>4, GotoFacts, LoadFacts
<1>7. /\ UNCHANGED <<semVars, pid, brought>>
      /\ PidsOf("WAITING")' = PidsOf("WAITING")
  BY <1>2, LocalFacts
<1> QED
  BY <1>1, <1>2, <1>3, <1>4, <1>5, <1>6, <1>7, LoopKeeps

LEMMA LoadStepKeeps ==
    ASSUME PlayInv, LoadStep
    PROVE  PlayState'
<1>1. Other \in Names /\ Mine \in Names
  BY DEF Other, Mine, Names
<1>2. CASE LoadId("first", Other, "post")
  <2>1. <<"post", "first">> \notin UnitSteps
    BY DEF UnitSteps
  <2> QED
    BY <1>1, <1>2, <2>1, LoadKeeps
<1>3. CASE LoadId("mine", Mine, "wait")
  <2>1. <<"wait", "mine">> \notin UnitSteps
    BY DEF UnitSteps
  <2> QED
    BY <1>1, <1>3, <2>1, LoadKeeps
<1>4. CASE LoadId("other", Other, "post")
  <2>1. <<"post", "other">> \in UnitSteps
    BY DEF UnitSteps
  <2> QED
    BY <1>1, <1>4, <2>1, LoadKeeps
<1> QED
  BY <1>2, <1>3, <1>4 DEF LoadStep

LEMMA SleepKeeps ==
    ASSUME PlayInv, proc_sleep
    PROVE  PlayState'
<1> DEFINE next == <<"load", "other">>
<1>1. PICK q \in Players : q = me /\ pc[q] = <<"sleep", "mine">> /\ q \notin PidsOf("WAITING")
  BY AtFacts DEF proc_sleep
<1>2. /\ ProcSleep((me % 2) + Delay[Mine]) /\ Return(SYSCALL_PROC_SLEEP, 0) /\ Goto(next)
      /\ UNCHANGED <<semVars, pingpong_semaphores, brought>>
  BY DEF proc_sleep
<1>3. next \in Steps /\ InLoop(next) /\ InLoop(pc[q]) /\ next \in UnitSteps
      /\ pc[q] \in UnitSteps /\ next[1] \notin {"post", "wait"}
  BY <1>1 DEF Steps, SetupSteps, LoopSteps, InLoop, UnitSteps
<1> HIDE DEF next
<1>4. Moved(q, next) /\ Loaded(q)
  <2>1. SYSCALL_PROC_SLEEP \in Int /\ 0 \in Int
    BY DEF SYSCALL_PROC_SLEEP
  <2> QED
    BY <1>1, <1>2, <1>3, <2>1, GotoFacts, ReturnFacts
<1>5. PidsOf("WAITING")' = PidsOf("WAITING") /\ pid' = pid
  <2>1. Mine \in Names /\ me % 2 \in {0, 1}
    BY <1>1, PlayerFacts DEF Mine, Names
  <2>2. Delay[Mine] \in Nat /\ {Delay[Mine], Delay[Mine] + 1} \subseteq Seconds
    BY <2>1, DelayAssumption
  <2>3. (me % 2) + Delay[Mine] \in Seconds
    BY <2>1, <2>2
  <2>4. ProcEntry /\ pid' = pid
    BY <1>2, <2>3 DEF ProcEntry, ProcSleep, procVars
  <2> QED
    BY <2>4, WorkFacts DEF PlayInv, SemInv
<1> QED
  BY <1>1, <1>2, <1>3, <1>4, <1>5, LoopKeeps

\* Each player creates each semaphore at most once, so there is an id left.
LEMMA IdLeft ==
    ASSUME PlayInv, NEW s \in Names, NEW q \in Players, pc[q] = <<"init", s>>
    PROVE  sem_queue # <<>> /\ SemMax >= 1
<1>1. <<q, s>> \in (Players \X Names) \ Past
  BY DEF Past, NotYet, Names
<1>2. IsFiniteSet(handles) /\ handles \in SUBSET Sems /\ IsFiniteSet(Sems)
      /\ Cardinality(Sems) = SemMax
  <2>1. IsFiniteSet(Sems) /\ Cardinality(Sems) = SemMax
    BY SemAssumption, FS_Interval DEF Sems
  <2>2. handles \in SUBSET Sems
    BY DEF PlayInv, SemInv, TableInv, SemTypeOK
  <2> QED
    BY <2>1, <2>2, FS_Subset
<1>3. Cardinality(Past) < Cardinality(Players \X Names)
  <2>1. Past \in SUBSET (Players \X Names) /\ Past # Players \X Names
    BY <1>1 DEF Past
  <2>2. /\ Cardinality(Past) <= Cardinality(Players \X Names)
        /\ Cardinality(Players \X Names) # Cardinality(Past)
    BY <2>1, PastIsFinite, FS_Subset
  <2>3. Cardinality(Past) \in Nat /\ Cardinality(Players \X Names) \in Nat
    BY PastIsFinite, FS_CardinalityType
  <2> QED
    BY <2>2, <2>3
<1>4. Cardinality(handles) < SemMax /\ SemMax >= 1
  <2>1. /\ Cardinality(handles) <= Cardinality(Past)
        /\ Cardinality(Players \X Names) <= SemMax
    BY PastIsFinite DEF PlayInv, PlayState, IdsEnough
  <2>2. /\ Cardinality(handles) \in Nat /\ Cardinality(Past) \in Nat
        /\ Cardinality(Players \X Names) \in Nat /\ SemMax \in Nat
    BY <1>2, PastIsFinite, FS_CardinalityType, SemAssumption
  <2> QED
    BY <1>3, <2>1, <2>2
<1>5. Sems \ handles # {}
  <2> SUFFICES ASSUME Sems \ handles = {} PROVE FALSE
    OBVIOUS
  <2>1. handles = Sems
    BY <1>2
  <2> QED
    BY <1>2, <1>4, <2>1, SemAssumption
<1>6. Range(sem_queue) # {}
  BY <1>5 DEF PlayInv, SemInv, TableInv, IdsSound
<1> QED
  BY <1>4, <1>6 DEF Range

LEMMA InitKeeps ==
    ASSUME PlayInv, SemInv', NEW s \in Names, sem_init(s)
    PROVE  PlayState'
<1> DEFINE next == <<"store", s>>
           id == Head(sem_queue)
           value == Value(s)
<1>1. PICK q \in Players : q = me /\ pc[q] = <<"init", s>> /\ q \notin PidsOf("WAITING")
  BY AtFacts DEF sem_init
<1>2. /\ ksem_init(value) /\ Return(SYSCALL_SEM_INIT, id) /\ Goto(next)
      /\ brought' = brought + value
      /\ UNCHANGED pingpong_semaphores
  BY DEF sem_init
<1>3. next \in Steps /\ next \notin UnitSteps /\ pc[q] \notin UnitSteps
  BY <1>1 DEF Steps, SetupSteps, LoopSteps, UnitSteps, Names
<1>4. value \in {0, 1}
  BY DEF Value
<1>5. sem_queue # <<>> /\ SemMax >= 1 /\ SemMax \in Nat
  BY <1>1, IdLeft, SemAssumption
<1>6. id \in Sems /\ id \notin handles /\ id \in Int
  <2>1. /\ sem_queue \in Seq(Sems) /\ IsInjective(sem_queue)
        /\ Range(sem_queue) = Sems \ handles
    BY DEF PlayInv, SemInv, TableInv, SemTypeOK, IdsSound
  <2>2. id \in Sems /\ id \in Range(sem_queue)
    BY <1>5, <2>1, TailFacts
  <2> QED
    BY <2>1, <2>2, SemAssumption DEF Sems
<1>7. /\ count' = [count EXCEPT ![id] = value]
      /\ handles' = handles \cup {id}
      /\ UNCHANGED <<procVars, schedVars, clients>>
      /\ active_proc # NULL
  <2>1. ~ (value < 0 \/ value > SemMax \/ sem_queue = <<>>)
    BY <1>4, <1>5
  <2> HIDE DEF value
  <2> QED
    BY <1>2, <2>1 DEF ksem_init, Caller
<1> HIDE DEF next, id, value
<1>8. /\ pid' = pid /\ PidsOf("WAITING")' = PidsOf("WAITING")
      /\ active_proc' # NULL
  BY <1>7, QuietFacts DEF schedVars
<1>9. Moved(q, next) /\ Loaded(q) /\ eax'[q] = id
  <2>1. SYSCALL_SEM_INIT \in Int
    BY DEF SYSCALL_SEM_INIT
  <2> QED
    BY <1>1, <1>2, <1>3, <1>6, <1>8, <2>1, GotoFacts, ReturnFacts
<1>10. count \in [Sems -> Nat] /\ handles \in SUBSET Sems /\ brought \in Nat
  BY DEF PlayInv, PlayState, PlayTypes, SemInv, TableInv, SemTypeOK
<1>11. PlayTypes' /\ IdsStored'
  <2>1. /\ pingpong_semaphores' = pingpong_semaphores
        /\ pingpong_semaphores \in [Names -> Sems \cup {-1}]
        /\ \A x \in Names : pingpong_semaphores[x] # -1 => pingpong_semaphores[x] \in handles
    BY <1>2 DEF PlayInv, PlayState, PlayTypes, IdsStored
  <2>2. ASSUME NEW x \in Names
        PROVE  next \notin NotYet(x) \cup {<<"store", x>>} => pingpong_semaphores[x] # -1
    <3>1. next \notin NotYet(x) \cup {<<"store", x>>} => x = "ping" /\ s = "pong"
      BY DEF NotYet, Names, next
    <3>2. x = "ping" /\ s = "pong" => pc[q] \notin NotYet(x) \cup {<<"store", x>>}
      BY <1>1 DEF NotYet
    <3> QED
      BY <3>1, <3>2 DEF PlayInv, PlayState, IdsStored
  <2>3. brought' \in Nat
    BY <1>2, <1>4, <1>10
  <2>4. eax'[q] \in handles' /\ handles \subseteq handles' /\ clients' = clients
    BY <1>7, <1>9
  <2> QED
    BY <1>8, <1>9, <2>1, <2>2, <2>3, <2>4, IdsKeep
<1>12. IdsEnough'
  <2>1. \A x : NotYet(x)' = NotYet(x)
    BY DEF NotYet
  <2>2. <<q, s>> \notin Past /\ <<q, s>> \in Past'
    BY <1>1, <1>9, <2>1 DEF Past, NotYet, Names, Moved, next
  <2>3. \A x \in Names : pc[q] \notin NotYet(x) => next \notin NotYet(x)
    BY <1>1 DEF NotYet, Names, next
  <2>4. Past \cup {<<q, s>>} \in SUBSET Past'
    BY <1>9, <2>1, <2>2, <2>3 DEF Past, Moved
  <2>5. /\ IsFiniteSet(Past \cup {<<q, s>>})
        /\ Cardinality(Past \cup {<<q, s>>}) = Cardinality(Past) + 1
    BY <2>2, PastIsFinite, FS_AddElement
  <2>6. Cardinality(Past) + 1 <= Cardinality(Past')
    BY <2>4, <2>5, PastIsFinite, FS_Subset
  <2>7. IsFiniteSet(handles)
    <3>1. IsFiniteSet(Sems)
      BY SemAssumption, FS_Interval DEF Sems
    <3> QED
      BY <1>10, <3>1, FS_Subset
  <2>8. Cardinality(handles') = Cardinality(handles) + 1
    BY <1>6, <1>7, <2>7, FS_AddElement
  <2>9. /\ Cardinality(handles) \in Nat /\ Cardinality(Past) \in Nat /\ Cardinality(Past') \in Nat
        /\ Cardinality(handles) <= Cardinality(Past)
    BY <2>7, PastIsFinite, FS_CardinalityType DEF PlayInv, PlayState, IdsEnough
  <2> QED
    BY <2>6, <2>8, <2>9 DEF IdsEnough
<1>13. WaitersStay'
  BY <1>1, <1>8, <1>9, WaitersKeep
<1>14. UnitsCounted'
  <2>1. Holding' = Holding
    BY <1>1, <1>3, <1>8, <1>9, HoldingSame
  <2>2. IsFiniteSet(Spare) /\ Cardinality(Spare) \in Nat /\ Cardinality(Holding) \in Nat
    BY HoldingFinite, FS_CardinalityType DEF PlayInv, PlayState, UnitsCounted
  <2>3. count'[id] = value /\ \A k \in handles : k # id /\ count'[k] = count[k]
    BY <1>6, <1>7, <1>10
  <2>4. /\ IsFiniteSet(Spare') /\ Cardinality(Spare') = Cardinality(Spare) + value
    <3>1. CASE value = 0
      <4>1. Spare' = Spare
        BY <1>6, <1>7, <2>3, <3>1, SpareNew
      <4> QED
        BY <2>2, <3>1, <4>1
    <3>2. CASE value = 1
      <4>1. /\ id \in handles' /\ handles \subseteq handles' /\ handles' \subseteq handles \cup {id}
            /\ id \notin handles /\ count'[id] = 0 + 1 /\ 0 \in Nat
        BY <1>6, <1>7, <2>3, <3>2
      <4>2. IsFiniteSet(Spare') /\ Cardinality(Spare') = Cardinality(Spare) + 1
        BY <2>2, <2>3, <4>1, SpareMore
      <4> QED
        BY <3>2, <4>2
    <3> QED
      BY <1>4, <3>1, <3>2
  <2> QED
    BY <1>2, <1>4, <2>1, <2>2, <2>4 DEF PlayInv, PlayState, UnitsCounted
<1> QED
  BY <1>11, <1>12, <1>13, <1>14 DEF PlayState

\* A call of the loop changes no id; what is left is to count the units.
LEMMA CallKeeps ==
    ASSUME PlayInv, NEW q \in Players, NEW next \in Steps, Moved(q, next), Loaded(q),
           UNCHANGED <<clients, handles, pid, pingpong_semaphores>>, brought' \in Nat,
           InLoop(pc[q]), InLoop(next), next[1] \notin {"post", "wait"},
           q \notin PidsOf("WAITING"),
           \/ PidsOf("WAITING")' \subseteq PidsOf("WAITING")
           \/ next = <<"sleep", "mine">> /\ PidsOf("WAITING")' \subseteq PidsOf("WAITING") \cup {q},
           UnitsCounted'
    PROVE  PlayState'
<1>1. /\ pingpong_semaphores' = pingpong_semaphores
      /\ pingpong_semaphores \in [Names -> Sems \cup {-1}]
      /\ \A x \in Names : pingpong_semaphores[x] # -1 => pingpong_semaphores[x] \in handles
  BY DEF PlayInv, PlayState, PlayTypes, IdsStored
<1>2. \A s \in Names : /\ pingpong_semaphores[s] # -1
                       /\ next \notin NotYet(s) \cup {<<"store", s>>}
  BY LoopIds, LoopFacts
<1>3. next[1] \notin {"store", "post", "wait"}
  BY DEF InLoop
<1>4. PlayTypes' /\ IdsStored'
  BY <1>1, <1>2, <1>3, IdsKeep
<1>5. IdsEnough'
  BY <1>2, EnoughKeeps
<1>6. WaitersStay'
  BY WaitersKeep
<1> QED
  BY <1>4, <1>5, <1>6 DEF PlayState

LEMMA WaitKeeps ==
    ASSUME PlayInv, SemInv', sem_wait
    PROVE  PlayState'
<1> DEFINE next == <<"sleep", "mine">>
<1>1. PICK q \in Players : q = me /\ pc[q] = <<"wait", "mine">> /\ q \notin PidsOf("WAITING")
  BY AtFacts DEF sem_wait
<1>2. PICK m \in handles : m = eax[me] /\ m \in Sems
  BY <1>1, CalledIds
<1>3. /\ Goto(next) /\ UNCHANGED <<pingpong_semaphores, brought>>
      /\ \/ ksem_wait_free(m) /\ Return(SYSCALL_SEM_WAIT, count'[m])
         \/ ksem_wait_block(m) /\ Return(SYSCALL_SEM_WAIT, 0)
  BY <1>2 DEF sem_wait
<1>4. /\ next \in Steps /\ InLoop(next) /\ InLoop(pc[q]) /\ next[1] \notin {"post", "wait"}
      /\ next \in UnitSteps /\ pc[q] \notin UnitSteps
  BY <1>1 DEF Steps, SetupSteps, LoopSteps, InLoop, UnitSteps
<1>5. count \in [Sems -> Nat] /\ count' \in [Sems -> Nat] /\ brought \in Nat
  BY DEF PlayInv, PlayState, PlayTypes, SemInv, TableInv, SemTypeOK
<1>6. Moved(q, next) /\ Loaded(q)
  <2>1. SYSCALL_SEM_WAIT \in Int /\ 0 \in Int /\ count'[m] \in Int
    BY <1>2, <1>5 DEF SYSCALL_SEM_WAIT
  <2>2. Moved(q, next)
    BY <1>1, <1>3, <1>4, GotoFacts
  <2> HIDE DEF next
  <2> QED
    BY <1>1, <1>3, <2>1, <2>2, ReturnFacts
<1>7. UNCHANGED <<clients, handles>>
  BY <1>3 DEF ksem_wait_free, ksem_wait_block, Enter
<1>8. IsFiniteSet(Spare) /\ Cardinality(Spare) \in Nat /\ Cardinality(Holding) \in Nat
      /\ Cardinality(Spare) + Cardinality(Holding) = brought
  BY HoldingFinite, FS_CardinalityType DEF PlayInv, PlayState, UnitsCounted
<1>9. next = <<"sleep", "mine">>
  OBVIOUS
<1> HIDE DEF next
<1>10. CASE ksem_wait_free(m)
  <2>1. /\ UNCHANGED <<procVars, schedVars>> /\ count[m] # 0
        /\ count' = IF count[m] > 0 THEN [count EXCEPT ![m] = @ - 1] ELSE count
    BY <1>10 DEF ksem_wait_free
  <2>2. pid' = pid /\ PidsOf("WAITING")' = PidsOf("WAITING")
    BY <2>1, QuietFacts
  <2>3. PICK n \in Nat : count[m] = n + 1
    <3>1. count[m] - 1 \in Nat /\ count[m] = (count[m] - 1) + 1
      BY <1>2, <1>5, <2>1
    <3> QED
      BY <3>1
  <2>4. count'[m] = n /\ \A k \in handles : k # m => count'[k] = count[k]
    <3>1. handles \subseteq Sems
      BY DEF PlayInv, SemInv, TableInv, SemTypeOK
    <3>2. count' = [count EXCEPT ![m] = @ - 1]
      BY <2>1, <2>3
    <3> QED
      BY <1>2, <1>5, <2>3, <3>1, <3>2
  <2>5. IsFiniteSet(Spare') /\ Cardinality(Spare') = Cardinality(Spare) - 1
    BY <1>7, <1>8, <2>3, <2>4, SpareLess
  <2>6. Cardinality(Holding') = Cardinality(Holding) + 1
    BY <1>1, <1>4, <1>6, <2>2, HoldingMore
  <2>7. UnitsCounted'
    BY <1>3, <1>8, <2>5, <2>6 DEF UnitsCounted
  <2> QED
    BY <1>1, <1>3, <1>4, <1>5, <1>6, <1>7, <2>2, <2>7, CallKeeps
<1>11. CASE ksem_wait_block(m)
  <2>1. Block /\ count' = count /\ pid[active_proc] = q
    BY <1>1, <1>2, <1>11, WaitBlocks DEF PlayInv, ksem_wait_block, me
  <2>2. pid' = pid /\ PidsOf("WAITING")' = PidsOf("WAITING") \cup {q}
    BY <2>1, BlockFacts DEF PlayInv, SemInv
  <2>3. Spare' = Spare
    BY <1>7, <2>1, SpareSame
  <2>4. Holding' = Holding
    BY <1>1, <1>4, <1>6, <2>2, HoldingSame
  <2>5. UnitsCounted'
    BY <1>3, <1>8, <2>3, <2>4 DEF UnitsCounted
  <2> QED
    BY <1>1, <1>3, <1>4, <1>5, <1>6, <1>7, <1>9, <2>2, <2>5, CallKeeps
<1> QED
  BY <1>3, <1>10, <1>11

LEMMA PostKeeps ==
    ASSUME PlayInv, SemInv', NEW which \in {"first", "other"}, sem_post(which)
    PROVE  PlayState'
<1> DEFINE next == <<"load", "mine">>
           extra == IF which = "first" THEN 1 ELSE 0
<1>1. PICK q \in Players : q = me /\ pc[q] = <<"post", which>> /\ q \notin PidsOf("WAITING")
  BY AtFacts DEF sem_post
<1>2. PICK m \in handles : m = eax[me] /\ m \in Sems
  BY <1>1, CalledIds
<1>3. /\ Goto(next) /\ UNCHANGED pingpong_semaphores
      /\ ksem_post(m) /\ Return(SYSCALL_SEM_POST, PostResult(m))
  BY <1>2 DEF sem_post
<1>4. /\ next \in Steps /\ InLoop(next) /\ InLoop(pc[q]) /\ next[1] \notin {"post", "wait"}
      /\ next \notin UnitSteps /\ (pc[q] \in UnitSteps <=> which = "other")
  BY <1>1 DEF Steps, SetupSteps, LoopSteps, InLoop, UnitSteps
<1>5. count \in [Sems -> Nat] /\ count' \in [Sems -> Nat] /\ brought \in Nat
  BY DEF PlayInv, PlayState, PlayTypes, SemInv, TableInv, SemTypeOK
<1>6. Moved(q, next) /\ Loaded(q)
  <2>1. SYSCALL_SEM_POST \in Int /\ PostResult(m) \in Int
    BY <1>2, <1>5 DEF SYSCALL_SEM_POST, PostResult
  <2>2. Moved(q, next)
    BY <1>1, <1>3, <1>4, GotoFacts
  <2> QED
    BY <1>1, <1>3, <2>1, <2>2, ReturnFacts
<1>7. brought' = brought + extra /\ extra \in {0, 1} /\ brought' \in Nat
      /\ extra = IF pc[q] \in UnitSteps THEN 0 ELSE 1
  BY <1>4, <1>5 DEF sem_post
<1>8. UNCHANGED <<clients, handles>>
  BY <1>3 DEF ksem_post, ksem_post_keep, ksem_post_pass, Leave
<1>9. IsFiniteSet(Spare) /\ Cardinality(Spare) \in Nat /\ Cardinality(Holding) \in Nat
      /\ Cardinality(Spare) + Cardinality(Holding) = brought
  BY HoldingFinite, FS_CardinalityType DEF PlayInv, PlayState, UnitsCounted
<1> HIDE DEF next, extra
<1>10. CASE ksem_post_keep(m)
  <2>1. UNCHANGED <<procVars, schedVars>> /\ count' = [count EXCEPT ![m] = @ + 1]
    BY <1>10 DEF ksem_post_keep
  <2>2. pid' = pid /\ PidsOf("WAITING")' = PidsOf("WAITING")
    BY <2>1, QuietFacts
  <2>3. PICK n \in Nat : count[m] = n
    BY <1>2, <1>5
  <2>4. count'[m] = n + 1 /\ \A k \in handles : k # m => count'[k] = count[k]
    <3>1. handles \subseteq Sems
      BY DEF PlayInv, SemInv, TableInv, SemTypeOK
    <3> QED
      BY <1>2, <1>5, <2>1, <2>3, <3>1
  <2>5. m \in handles' /\ handles \subseteq handles' /\ handles' \subseteq handles \cup {m}
    BY <1>2, <1>8
  <2>6. IsFiniteSet(Spare') /\ Cardinality(Spare') = Cardinality(Spare) + 1
    BY <1>9, <2>3, <2>4, <2>5, SpareMore
  <2>7. Cardinality(Holding') = (Cardinality(Holding) + extra) - 1
    <3>1. CASE pc[q] \in UnitSteps
      <4>1. Cardinality(Holding') = Cardinality(Holding) - 1
        BY <1>1, <1>4, <1>6, <2>2, <3>1, HoldingLess
      <4> QED
        BY <1>7, <1>9, <3>1, <4>1
    <3>2. CASE pc[q] \notin UnitSteps
      <4>1. Holding' = Holding
        BY <1>1, <1>4, <1>6, <2>2, <3>2, HoldingSame
      <4> QED
        BY <1>7, <1>9, <3>2, <4>1
    <3> QED
      BY <3>1, <3>2
  <2>8. UnitsCounted'
    BY <1>7, <1>9, <2>6, <2>7 DEF UnitsCounted
  <2> QED
    BY <1>1, <1>3, <1>4, <1>6, <1>7, <1>8, <2>2, <2>8, CallKeeps
<1>11. CASE ksem_post_pass(m)
  <2> DEFINE w == Head(wait_queue[m])
  <2>1. WakePid(w) /\ w \in PidsOf("WAITING") /\ count' = count
    BY <1>2, <1>11, PostWakes DEF PlayInv
  <2> HIDE DEF w
  <2>2. pid' = pid /\ PidsOf("WAITING")' = PidsOf("WAITING") \ {w}
    BY <2>1, WakeFacts DEF PlayInv, SemInv
  <2>3. w \in Players /\ pc[w] \in UnitSteps
    BY <2>1 DEF PlayInv, PlayState, WaitersStay, UnitSteps
  <2>4. Spare' = Spare
    BY <1>8, <2>1, SpareSame
  <2>5. Cardinality(Holding') = Cardinality(Holding) + extra
    BY <1>1, <1>4, <1>6, <1>7, <2>1, <2>2, <2>3, HoldingPass
  <2>6. UnitsCounted'
    BY <1>7, <1>9, <2>4, <2>5 DEF UnitsCounted
  <2> QED
    BY <1>1, <1>3, <1>4, <1>6, <1>7, <1>8, <2>2, <2>6, CallKeeps
<1> QED
  BY <1>3, <1>10, <1>11 DEF ksem_post

LEMMA MeanwhileKeeps ==
    ASSUME PlayInv, Meanwhile \/ UNCHANGED allVars
    PROVE  PlayState'
<1>1. /\ UNCHANGED <<semVars, pc, pingpong_semaphores, eax, brought>>
      /\ KernelWork \/ UNCHANGED vars
  BY DEF Meanwhile, allVars, playVars
<1>2. PidsOf("WAITING")' = PidsOf("WAITING") /\ pid' = pid
  <2>1. CASE KernelWork
    <3>1. pid' = pid
      BY <2>1 DEF KernelWork, TimerTick, KernelStep, TimerWake, TimerCountDown, TimerDone,
         SchedulerRun, SchedulerKeep, SchedulerSwitch, procVars
    <3> QED
      BY <2>1, <3>1, WorkFacts DEF PlayInv, SemInv
  <2>2. CASE UNCHANGED vars
    BY <2>2, QuietFacts DEF vars
  <2> QED
    BY <1>1, <2>1, <2>2
<1>3. UNCHANGED <<handles, count, clients>>
  BY <1>1 DEF semVars, tableVars, clientVars
<1>4. \A x : NotYet(x)' = NotYet(x)
  BY DEF NotYet
<1>5. PlayTypes' /\ IdsStored'
  BY <1>1, <1>2, <1>3, <1>4 DEF PlayInv, PlayState, PlayTypes, IdsStored
<1>6. Past' = Past /\ Holding' = Holding
  BY <1>1, <1>2, <1>4 DEF Past, Holding, UnitSteps
<1>7. IdsEnough' /\ WaitersStay'
  BY <1>1, <1>2, <1>3, <1>6 DEF PlayInv, PlayState, IdsEnough, WaitersStay
<1>8. UnitsCounted'
  BY <1>1, <1>3, <1>6, SpareSame DEF PlayInv, PlayState, UnitsCounted
<1> QED
  BY <1>5, <1>7, <1>8 DEF PlayState

-----------------------------------------------------------------------------
(* The theorems about ping and pong                                        *)

LEMMA PlayInitInv == PlayInit => PlayInv
<1> SUFFICES ASSUME PlayInit PROVE PlayInv
  OBVIOUS
<1>1. SemInv /\ clients = "wild" /\ handles = {}
  BY SemInitInv, ClientAssumption DEF PlayInit, SemInit
<1>2. /\ pc = [p \in Players |-> <<"check", "ping">>]
      /\ pingpong_semaphores = [s \in Names |-> -1]
      /\ eax = [p \in Players |-> 0]
      /\ brought = 0
      /\ pid = [s \in Slots |-> IF s < BootProcs THEN s ELSE -1]
      /\ PidsOf("WAITING") = {}
  BY DEF PlayInit, SemInit, Init, PidsOf, Live
<1>3. PlayTypes
  <2>1. <<"check", "ping">> \in Steps
    BY DEF Steps, SetupSteps, LoopSteps, Names
  <2>2. \A p \in Players : p \in Slots /\ pid[p] = p
    BY <1>2, PlayersAssumption, BootProcsAssumption, ProcMaxAssumption DEF Slots
  <2> QED
    BY <1>1, <1>2, <2>1, <2>2 DEF PlayTypes
<1>4. IdsStored
  <2>1. \A s \in Names : <<"check", "ping">> \in NotYet(s)
    BY DEF NotYet
  <2> QED
    BY <1>2, <2>1 DEF IdsStored
<1>5. IdsEnough
  <2>1. Cardinality(Past) \in Nat
    BY PastIsFinite, FS_CardinalityType
  <2>2. Cardinality(handles) = 0
    BY <1>1, FS_EmptySet
  <2> QED
    BY <2>1, <2>2 DEF IdsEnough
<1>6. WaitersStay
  BY <1>2 DEF WaitersStay
<1>7. UnitsCounted
  <2>1. Spare = {} /\ Holding = {}
    BY <1>1, <1>2 DEF Spare, Holding, UnitSteps
  <2> QED
    BY <1>2, <2>1, FS_EmptySet DEF UnitsCounted
<1> QED
  BY <1>1, <1>3, <1>4, <1>5, <1>6, <1>7 DEF PlayInv, PlayState

LEMMA PlayOrStutter ==
    ASSUME PlayInv, [PlayNext]_allVars
    PROVE  [SemNext]_<<vars, semVars>>
BY StepOfKSem DEF allVars

LEMMA PlayNextInv ==
    ASSUME PlayInv, [PlayNext]_allVars
    PROVE  PlayInv'
<1>1. SemInv'
  BY PlayOrStutter, SemNextInv DEF PlayInv
<1>2. PlayState'
  <2>1. ASSUME NEW s \in Names, Check(s) \/ sem_init(s) \/ Store(s) PROVE PlayState'
    BY <1>1, <2>1, CheckKeeps, InitKeeps, StoreKeeps
  <2>2. CASE LoadStep
    BY <2>2, LoadStepKeeps
  <2>3. CASE sem_wait
    BY <1>1, <2>3, WaitKeeps
  <2>4. CASE proc_sleep
    BY <2>4, SleepKeeps
  <2>5. CASE sem_post("first") \/ sem_post("other")
    BY <1>1, <2>5, PostKeeps
  <2>6. CASE Meanwhile \/ UNCHANGED allVars
    BY <2>6, MeanwhileKeeps
  <2> QED
    BY <2>1, <2>2, <2>3, <2>4, <2>5, <2>6 DEF PlayNext, PlayStep
<1> QED
  BY <1>1, <1>2 DEF PlayInv

\* The invariant that the theorems below take their parts from.
THEOREM PlaySafety == PlaySpec => []PlayInv
BY PlayInitInv, PlayNextInv, PTL DEF PlaySpec

(***************************************************************************)
(* prog_ping and prog_pong do nothing to the semaphores but what ksem.c    *)
(* lets any client do, so every theorem about KSem is one about them.      *)
(***************************************************************************)
THEOREM PlayersImplementKSem == PlaySpec => SemSpec
<1>1. PlayInit => SemInit
  BY DEF PlayInit
<1>2. PlayInv /\ [PlayNext]_allVars => [SemNext]_<<vars, semVars>>
  BY PlayOrStutter
<1> QED
  BY <1>1, <1>2, PlaySafety, PTL DEF PlaySpec, SemSpec

(***************************************************************************)
(* No unit is lost or doubled between the semaphores and the processes of  *)
(* prog_ping and prog_pong, for any number of them, however the ticks fall *)
(* between their steps and however often a semaphore is created.           *)
(***************************************************************************)
THEOREM PlayConservesUnits == PlaySpec => []UnitsInPlay
<1>1. PlayInv => UnitsInPlay
  <2> SUFFICES ASSUME PlayInv PROVE UnitsInPlay
    OBVIOUS
  <2>1. ASSUME NEW p \in Players
        PROVE  p \notin PidsOf("WAITING") <=> \E s \in Live : pid[s] = p /\ state[s] # "WAITING"
    <3>1. p \in Slots /\ pid[p] = p /\ p # -1
      BY PlayerFacts DEF PlayInv, PlayState, PlayTypes
    <3>2. p \in Live
      BY <3>1 DEF Live
    <3>3. \A s \in Live : pid[s] = p => s = p
      BY <3>1, <3>2 DEF PlayInv, SemInv, Inv, TableSound
    <3> QED
      BY <3>1, <3>2, <3>3 DEF PidsOf
  <2>2. \A p \in Players : HasUnit(p) <=> p \in Holding
    BY <2>1 DEF HasUnit, Holding, UnitSteps
  <2>3. {p \in Players : HasUnit(p)} = Holding
    BY <2>2 DEF Holding
  <2> QED
    BY <2>3 DEF UnitsInPlay, PlayInv, PlayState, UnitsCounted
<1> QED
  BY <1>1, PlaySafety, PTL

\* A call uses the id of a semaphore, and sem_init finds one to give.
PlayCallsSucceed ==
    \A p \in Players :
       /\ pc[p][1] \in {"post", "wait"} => eax[p] \in handles
       /\ pc[p][1] = "init" => sem_queue # <<>>

(***************************************************************************)
(* However the ticks fall into the lazy creation of the semaphores, no     *)
(* player waits or posts with -1 or with an id that is not in use, and the *)
(* semaphores that are created twice never use the ids up.                 *)
(***************************************************************************)
THEOREM PlayCallsValid == PlaySpec => []PlayCallsSucceed
<1>1. PlayInv => PlayCallsSucceed
  <2> SUFFICES ASSUME PlayInv, NEW p \in Players, pc[p][1] = "init"
               PROVE  sem_queue # <<>>
    BY DEF PlayCallsSucceed, PlayInv, PlayState, IdsStored
  <2>1. PICK s \in Names : pc[p] = <<"init", s>>
    BY DEF PlayInv, PlayState, PlayTypes, Steps, SetupSteps, LoopSteps
  <2> QED
    BY <2>1, IdLeft
<1> QED
  BY <1>1, PlaySafety, PTL

=============================================================================
