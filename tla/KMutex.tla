------------------------------- MODULE KMutex -------------------------------
(***************************************************************************)
(* kmutex.c over the processes of KProc.  A mutex call is a system call of *)
(* the active process: it runs to its end in the kernel, and a lock that   *)
(* is taken blocks the caller until an unlock hands the mutex over.        *)
(*                                                                         *)
(* The variables clients, handles, inside and last_lock describe the       *)
(* clients, not the kernel: what kind they are, which ids they were given, *)
(* and which calls they made.  "orderly" clients use one mutex at a time,  *)
(* as prog_shell does; "nesting" ones may hold several; "mortal" ones may  *)
(* also end before they unlock; a "wild" one locks and unlocks what it     *)
(* likes, as often as it likes, and ends when it likes, and its calls are  *)
(* not recorded.                                                           *)
(***************************************************************************)
EXTENDS KProc

CONSTANTS
    MutexMax,  \* MUTEX_MAX
    Clients    \* the kinds of clients to consider

Mutexes == 0 .. MutexMax - 1

ASSUME MutexAssumption ==
    /\ MutexMax \in Nat /\ MutexMax <= QueueSize
    /\ Clients \subseteq {"orderly", "nesting", "mortal", "wild"}

VARIABLES
    locks, owner, wait_queue,  \* mutexes[]; an owner is a table entry or NULL
    mutex_queue,               \* the ids that kmutex_init hands out
    clients,                   \* their kind
    handles,                   \* the ids clients were given and did not destroy
    inside,                    \* <<process, mutex>>: lock called, unlock not yet
    last_lock                  \* the mutex of each process's last lock call

tableVars == <<locks, owner, wait_queue, mutex_queue>>
clientVars == <<clients, handles, inside, last_lock>>
mutexVars == <<tableVars, clientVars>>

Pids == 1 .. MaxPid

MutexInit ==
    /\ Init
    /\ locks = [m \in Mutexes |-> 0]
    /\ owner = [m \in Mutexes |-> NULL]
    /\ wait_queue = [m \in Mutexes |-> <<>>]
    /\ mutex_queue = [i \in 1 .. MutexMax |-> i - 1]
    /\ clients \in Clients
    /\ handles = {}
    /\ inside = {}
    /\ last_lock = [p \in Pids |-> NULL]

-----------------------------------------------------------------------------
(* Clients                                                                 *)

\* Clients unlock what they locked and do not lock it twice.
Disciplined == clients # "wild"

\* A process may exit or be ended while it holds a mutex.
HoldersDie == clients \in {"mortal", "wild"}

me == pid[active_proc]

\* Process p has come back from a lock call and may use what m protects.
Holds(p, m) ==
    /\ <<p, m>> \in inside
    /\ \E s \in Live : /\ pid[s] = p
                       /\ state[s] = "WAITING" => last_lock[p] # m

MayLock(m) ==
    /\ m \in handles
    /\ Disciplined => <<me, m>> \notin inside
    /\ clients = "orderly" => \A n \in Mutexes : <<me, n>> \notin inside
MayUnlock(m) == m \in handles /\ (Disciplined => <<me, m>> \in inside)

-----------------------------------------------------------------------------
(* Operations                                                              *)

kmutex_init ==
    /\ Handler
    /\ Caller
    /\ mutex_queue # <<>>
    /\ LET id == Head(mutex_queue) IN
       /\ locks' = [locks EXCEPT ![id] = 0]
       /\ owner' = [owner EXCEPT ![id] = NULL]
       /\ wait_queue' = [wait_queue EXCEPT ![id] = <<>>]
       /\ handles' = handles \cup {id}
    /\ mutex_queue' = Tail(mutex_queue)
    /\ UNCHANGED <<procVars, schedVars, proc_allocator, clients, inside, last_lock>>

\* Mutant: a mutex nobody waits for may go.
MutIsLocked(m) == locks[m] > 1

IsLocked(m) == locks[m] > 0

\* A locked mutex is kept.
kmutex_destroy(m) ==
    /\ Handler
    /\ Caller
    /\ m \in handles
    /\ IF IsLocked(m)
       THEN UNCHANGED <<mutex_queue, handles>>
       ELSE /\ mutex_queue' = queue_in(mutex_queue, m)
            /\ handles' = handles \ {m}
    /\ UNCHANGED <<procVars, schedVars, proc_allocator, locks, owner, wait_queue,
                   clients, inside, last_lock>>

Enter(m) ==
    /\ IF Disciplined
       THEN /\ inside' = inside \cup {<<me, m>>}
            /\ last_lock' = [last_lock EXCEPT ![me] = m]
       ELSE UNCHANGED <<inside, last_lock>>
    /\ UNCHANGED clients

\* Mutant: only the lock of a free mutex counts.
MutCountLock(m) == locks' = IF owner[m] = NULL THEN [locks EXCEPT ![m] = @ + 1] ELSE locks

CountLock(m) == locks' = [locks EXCEPT ![m] = @ + 1]

kmutex_lock_free(m) ==
    /\ Handler
    /\ Caller
    /\ MayLock(m)
    /\ owner[m] = NULL
    /\ owner' = [owner EXCEPT ![m] = active_proc]
    /\ CountLock(m)
    /\ Enter(m)
    /\ UNCHANGED <<procVars, schedVars, proc_allocator, wait_queue, mutex_queue, handles>>

\* Mutant: the caller stays scheduled.
MutStopCaller == UNCHANGED <<run_queue, active_proc>>

StopCaller == scheduler_remove(active_proc)

\* The state is set before the queue is tried: a caller that a full queue
\* refuses keeps the state WAITING and its place as active process.
kmutex_lock_taken(m) ==
    /\ Handler
    /\ Caller
    /\ MayLock(m)
    /\ owner[m] # NULL
    /\ state' = [state EXCEPT ![active_proc] = "WAITING"]
    /\ wait_queue' = [wait_queue EXCEPT ![m] = queue_in(@, me)]
    /\ IF queue_is_full(wait_queue[m])
       THEN UNCHANGED <<run_queue, active_proc, locks>>
       ELSE /\ StopCaller
            /\ CountLock(m)
    /\ Enter(m)
    /\ UNCHANGED <<procVars, cpu_time, sleep_time, sleep_queue, proc_allocator,
                   owner, mutex_queue, handles>>

Leave(m) ==
    /\ inside' = inside \ {<<me, m>>}   \* nothing unless Disciplined
    /\ UNCHANGED <<clients, handles, last_lock>>

\* There is nothing to unlock, or this was the last lock.
kmutex_unlock_last(m) ==
    /\ Handler
    /\ Caller
    /\ MayUnlock(m)
    /\ owner[m] = NULL \/ locks[m] = 1
    /\ owner' = [owner EXCEPT ![m] = NULL]
    /\ locks' = IF owner[m] = NULL THEN locks ELSE [locks EXCEPT ![m] = 0]
    /\ Leave(m)
    /\ UNCHANGED <<procVars, schedVars, proc_allocator, wait_queue, mutex_queue>>

\* Mutants: the mutex goes to the last waiter; the waiter stays in the queue.
MutLastWaiter(q) == [rest |-> SubSeq(q, 1, Len(q) - 1), p |-> q[Len(q)]]
MutPeek(q) == [rest |-> q, p |-> Head(q)]

NextWaiter(q) == [rest |-> Tail(q), p |-> Head(q)]

\* Mutant: the mutex is free.
MutFree(m, s) == owner' = [owner EXCEPT ![m] = NULL]

HandOver(m, s) == owner' = [owner EXCEPT ![m] = s]

(***************************************************************************)
(* There are more locks: the first waiter becomes ready and owns the       *)
(* mutex.  The count is taken down before the wait queue is tried, so a    *)
(* count without a waiter behind it would leave the owner in place.        *)
(***************************************************************************)
kmutex_unlock_pass(m) ==
    /\ Caller
    /\ MayUnlock(m)
    /\ owner[m] # NULL /\ locks[m] # 1
    /\ locks' = [locks EXCEPT ![m] = @ - 1]
    /\ IF wait_queue[m] # <<>>
       THEN LET w == NextWaiter(wait_queue[m]) IN
            /\ HandOver(m, pid_to_proc(w.p))
            /\ wait_queue' = [wait_queue EXCEPT ![m] = w.rest]
            /\ WakePid(w.p)
       ELSE /\ Handler
            /\ UNCHANGED <<procVars, schedVars, proc_allocator, owner, wait_queue>>
    /\ Leave(m)
    /\ UNCHANGED mutex_queue

kmutex_unlock(m) == kmutex_unlock_last(m) \/ kmutex_unlock_pass(m)

MutexCall(m) ==
    \/ kmutex_destroy(m)
    \/ kmutex_lock_free(m)
    \/ kmutex_lock_taken(m)
    \/ kmutex_unlock(m)

\* The active process goes away in this step.
Dies == active_proc # NULL /\ pid'[active_proc] = -1

\* The other entries into the kernel do not see the mutexes, and neither does
\* the end of a process.
ProcWork ==
    /\ ProcEntry \/ KernelWork
    /\ ~HoldersDie /\ Dies => \A m \in Mutexes : <<me, m>> \notin inside
    /\ UNCHANGED mutexVars

MutexNext ==
    \/ ProcWork
    \/ kmutex_init
    \/ \E m \in Mutexes : MutexCall(m)

MutexSpec == MutexInit /\ [][MutexNext]_<<vars, mutexVars>>

-----------------------------------------------------------------------------
(* Safety, whatever the clients do                                         *)

(***************************************************************************)
(* The lock count is the owner and the processes that wait, so an unlock   *)
(* that finds more locks always finds a waiter, and a free mutex has none: *)
(* no sequence of locks and unlocks, relocking by the owner and unlocking  *)
(* by a stranger included, strands a waiter or frees a mutex twice.        *)
(***************************************************************************)
LocksCount ==
    \A m \in Mutexes :
        locks[m] = Len(wait_queue[m]) + IF owner[m] = NULL THEN 0 ELSE 1

(***************************************************************************)
(* A process waits exactly when it is in a wait queue, in one and once:    *)
(* nobody is blocked without a mutex to wake it, and nobody is woken       *)
(* twice.                                                                  *)
(***************************************************************************)
WaitersPlaced ==
    /\ \A p \in PidsOf("WAITING") : \E m \in Mutexes : p \in Range(wait_queue[m])
    /\ \A m \in Mutexes :
          /\ IsInjective(wait_queue[m])
          /\ Range(wait_queue[m]) \subseteq PidsOf("WAITING")
          /\ \A n \in Mutexes \ {m} : Range(wait_queue[m]) \cap Range(wait_queue[n]) = {}

\* Each id is with the allocator or with the clients, and an id that can be
\* handed out again has no owner and nobody in its queue.
IdsSound ==
    /\ IsInjective(mutex_queue)
    /\ Range(mutex_queue) = Mutexes \ handles
    /\ \A m \in Range(mutex_queue) : locks[m] = 0 /\ owner[m] = NULL /\ wait_queue[m] = <<>>

\* Waiters are served in the order in which they called lock.
WaitersInOrder ==
    [][\A m \in Mutexes :
          \/ \E p \in Pids : wait_queue'[m] = Append(wait_queue[m], p)
          \/ wait_queue[m] # <<>> /\ wait_queue'[m] = Tail(wait_queue[m])
          \/ wait_queue'[m] = wait_queue[m]]_wait_queue

\* What the mutex calls do to the processes is what KProc lets them do: block
\* the caller, or make a process that waits ready.
ImplementsKProc == Spec

-----------------------------------------------------------------------------
(* What disciplined clients get                                            *)

(***************************************************************************)
(* A process that has come back from lock and did not call unlock is the   *)
(* only one: also across a hand-over, in which the mutex passes to a       *)
(* process that runs much later.                                           *)
(***************************************************************************)
MutualExclusion ==
    \A m \in Mutexes : \A p, q \in Pids : Holds(p, m) /\ Holds(q, m) => p = q

\* The owner of a mutex is a live process that holds it.
OwnerHolds ==
    Disciplined => \A m \in Mutexes : owner[m] # NULL =>
        owner[m] \in Live /\ Holds(pid[owner[m]], m)

=============================================================================
