-------------------------------- MODULE KSem --------------------------------
(***************************************************************************)
(* ksem.c over the processes of KProc, called through the wrappers of      *)
(* ksyscall.c.  A wait on a semaphore whose count is zero blocks the       *)
(* caller; a post hands its unit straight to the first waiter.             *)
(*                                                                         *)
(* clients, handles, inside, last_wait and initial describe the clients.   *)
(* "orderly" clients use a semaphore to share so many units: a wait, then  *)
(* a post by the same process.  A "wild" one waits and posts as it likes,  *)
(* as the ping and pong programs do, and ends when it likes, and its calls *)
(* are not recorded.                                                       *)
(***************************************************************************)
EXTENDS KProc

CONSTANTS
    SemMax,       \* SEM_MAX
    Values,       \* the initial values processes ask for
    MaxCount,     \* BOUND: no post takes a count past it
    Clients       \* the kinds of clients to consider

Sems == 0 .. SemMax - 1

ASSUME SemAssumption ==
    /\ SemMax \in Nat /\ SemMax <= QueueSize
    /\ Values \subseteq Int /\ MaxCount \in Nat
    /\ Clients \subseteq {"orderly", "wild"}

VARIABLES
    allocated, count, wait_queue,  \* semaphores[]
    sem_queue,                     \* the ids that ksem_init hands out
    clients,                       \* their kind
    handles,                       \* the ids clients were given and did not destroy
    inside,                        \* <<process, semaphore>>: wait called, post not yet
    last_wait,                     \* the semaphore of each process's last wait
    initial                        \* the value each semaphore was created with

tableVars == <<allocated, count, wait_queue, sem_queue>>
clientVars == <<clients, handles, inside, last_wait, initial>>
semVars == <<tableVars, clientVars>>

Pids == 1 .. MaxPid

SemInit ==
    /\ Init
    /\ allocated = [m \in Sems |-> FALSE]
    /\ count = [m \in Sems |-> 0]
    /\ wait_queue = [m \in Sems |-> <<>>]
    /\ sem_queue = [i \in 1 .. SemMax |-> i - 1]
    /\ clients \in Clients
    /\ handles = {}
    /\ inside = {}
    /\ last_wait = [p \in Pids |-> NULL]
    /\ initial = [m \in Sems |-> 0]

-----------------------------------------------------------------------------
(* Clients                                                                 *)

\* Clients post what they waited for, and do not end before.
Disciplined == clients = "orderly"

me == pid[active_proc]

\* Process p has come back from its wait and has a unit of m.
Holds(p, m) ==
    /\ <<p, m>> \in inside
    /\ \E s \in Live : /\ pid[s] = p
                       /\ state[s] = "WAITING" => last_wait[p] # m

Holders(m) == {p \in Pids : Holds(p, m)}

MayWait(m) == m \in handles /\ (Disciplined => <<me, m>> \notin inside)
MayPost(m) == m \in handles /\ (Disciplined => <<me, m>> \in inside)
MayDestroy(m) == m \in handles /\ (Disciplined => \A p \in Pids : <<p, m>> \notin inside)

-----------------------------------------------------------------------------
(* Operations                                                              *)

\* ksyscall_sem_init refuses a value out of range.
ksem_init(value) ==
    /\ Handler
    /\ Caller
    /\ IF value < 0 \/ value > SemMax \/ sem_queue = <<>>
       THEN UNCHANGED <<tableVars, handles, initial>>
       ELSE LET id == Head(sem_queue) IN
            /\ sem_queue' = Tail(sem_queue)
            /\ allocated' = [allocated EXCEPT ![id] = TRUE]
            /\ count' = [count EXCEPT ![id] = value]
            /\ wait_queue' = [wait_queue EXCEPT ![id] = <<>>]
            /\ handles' = handles \cup {id}
            /\ initial' = IF Disciplined THEN [initial EXCEPT ![id] = value] ELSE initial
    /\ UNCHANGED <<procVars, schedVars, proc_allocator, clients, inside, last_wait>>

\* Every other call refuses a semaphore that was never allocated.
SemRefuse(m) ==
    /\ Handler
    /\ Caller
    /\ ~allocated[m]
    /\ UNCHANGED <<procVars, schedVars, proc_allocator, tableVars, clientVars>>

\* Mutant: a semaphore with no unit left may go.
MutInUse(m) == count[m] < 0

InUse(m) == count[m] = 0

\* The entry stays as it is, allocated included.
ksem_destroy(m) ==
    /\ Handler
    /\ Caller
    /\ MayDestroy(m)
    /\ IF InUse(m)
       THEN UNCHANGED <<sem_queue, handles>>
       ELSE /\ sem_queue' = queue_in(sem_queue, m)
            /\ handles' = handles \ {m}
    /\ UNCHANGED <<procVars, schedVars, proc_allocator, allocated, count, wait_queue,
                   clients, inside, last_wait, initial>>

Enter(m) ==
    /\ IF Disciplined
       THEN /\ inside' = inside \cup {<<me, m>>}
            /\ last_wait' = [last_wait EXCEPT ![me] = m]
       ELSE UNCHANGED <<inside, last_wait>>
    /\ UNCHANGED <<clients, handles, initial>>

ksem_wait_free(m) ==
    /\ Handler
    /\ Caller
    /\ MayWait(m)
    /\ count[m] # 0
    /\ count' = IF count[m] > 0 THEN [count EXCEPT ![m] = @ - 1] ELSE count
    /\ Enter(m)
    /\ UNCHANGED <<procVars, schedVars, proc_allocator, allocated, wait_queue, sem_queue>>

\* Mutant: the caller stays scheduled.
MutStopCaller == UNCHANGED <<run_queue, active_proc>>

StopCaller == scheduler_remove(active_proc)

\* The state is set before the queue is tried.
ksem_wait_block(m) ==
    /\ Handler
    /\ Caller
    /\ MayWait(m)
    /\ count[m] = 0
    /\ state' = [state EXCEPT ![active_proc] = "WAITING"]
    /\ wait_queue' = [wait_queue EXCEPT ![m] = queue_in(@, me)]
    /\ IF queue_is_full(wait_queue[m])
       THEN UNCHANGED <<run_queue, active_proc>>
       ELSE StopCaller
    /\ Enter(m)
    /\ UNCHANGED <<procVars, cpu_time, sleep_time, sleep_queue, proc_allocator,
                   allocated, count, sem_queue>>

Leave(m) ==
    /\ inside' = inside \ {<<me, m>>}   \* nothing unless Disciplined
    /\ UNCHANGED <<clients, handles, last_wait, initial>>

\* Nobody waits: the unit is kept.
ksem_post_keep(m) ==
    /\ Handler
    /\ Caller
    /\ MayPost(m)
    /\ count[m] < MaxCount
    /\ wait_queue[m] = <<>>
    /\ count' = [count EXCEPT ![m] = @ + 1]
    /\ Leave(m)
    /\ UNCHANGED <<procVars, schedVars, proc_allocator, allocated, wait_queue, sem_queue>>

\* Mutants: the unit goes to the last waiter; the waiter stays in the queue.
MutLastWaiter(q) == [rest |-> SubSeq(q, 1, Len(q) - 1), p |-> q[Len(q)]]
MutPeek(q) == [rest |-> q, p |-> Head(q)]

NextWaiter(q) == [rest |-> Tail(q), p |-> Head(q)]

\* Mutant: the woken process finds its unit in the count too.
MutTwice(m) == count[m] + 1

\* count++, then count-- when the unit goes to a waiter.
AfterHandOver(m) == count[m]

\* The first waiter has the unit and becomes ready.
ksem_post_pass(m) ==
    /\ Caller
    /\ MayPost(m)
    /\ wait_queue[m] # <<>>
    /\ LET w == NextWaiter(wait_queue[m]) IN
       /\ wait_queue' = [wait_queue EXCEPT ![m] = w.rest]
       /\ WakePid(w.p)
    /\ count' = [count EXCEPT ![m] = AfterHandOver(m)]
    /\ Leave(m)
    /\ UNCHANGED <<allocated, sem_queue>>

ksem_post(m) == ksem_post_keep(m) \/ ksem_post_pass(m)

SemCall(m) ==
    \/ SemRefuse(m)
    \/ ksem_destroy(m)
    \/ ksem_wait_free(m)
    \/ ksem_wait_block(m)
    \/ ksem_post(m)

\* The active process goes away in this step.
Dies == active_proc # NULL /\ pid'[active_proc] = -1

\* The other entries into the kernel do not see the semaphores, and neither
\* does the end of a process.
ProcWork ==
    /\ ProcEntry \/ KernelWork
    /\ Disciplined /\ Dies => \A m \in Sems : <<me, m>> \notin inside
    /\ UNCHANGED semVars

SemNext ==
    \/ ProcWork
    \/ \E value \in Values : ksem_init(value)
    \/ \E m \in Sems : SemCall(m)

SemSpec == SemInit /\ [][SemNext]_<<vars, semVars>>

-----------------------------------------------------------------------------
(* Safety, whatever the clients do                                         *)

(***************************************************************************)
(* No post is lost on a waiter: while a process waits for a semaphore      *)
(* there is no unit of it to be had, in whatever order waits and posts of  *)
(* several processes come.                                                 *)
(***************************************************************************)
NoUnitWhileWaiting == \A m \in Sems : wait_queue[m] # <<>> => count[m] = 0

(***************************************************************************)
(* A process waits exactly when it is in a wait queue, in one and once:    *)
(* nobody is blocked without a semaphore to wake it, nobody is woken       *)
(* twice.                                                                  *)
(***************************************************************************)
WaitersPlaced ==
    /\ \A p \in PidsOf("WAITING") : \E m \in Sems : p \in Range(wait_queue[m])
    /\ \A m \in Sems :
          /\ IsInjective(wait_queue[m])
          /\ Range(wait_queue[m]) \subseteq PidsOf("WAITING")
          /\ \A n \in Sems \ {m} : Range(wait_queue[m]) \cap Range(wait_queue[n]) = {}

\* Each id is with the allocator or with the clients, and nobody waits for a
\* semaphore whose id can be handed out again: ksem_init empties its queue.
IdsSound ==
    /\ IsInjective(sem_queue)
    /\ Range(sem_queue) = Sems \ handles
    /\ \A m \in Range(sem_queue) : wait_queue[m] = <<>>

\* What the semaphore calls do to the processes is what KProc lets them do:
\* block the caller, or make a process that waits ready.
ImplementsKProc == Spec

-----------------------------------------------------------------------------
(* What disciplined clients get                                            *)

(***************************************************************************)
(* The units of a semaphore are conserved: those in the count and those of *)
(* the processes that have come back from wait are what it was created     *)
(* with, also while a unit passes to a process that runs much later.       *)
(***************************************************************************)
UnitsConserved ==
    Disciplined => \A m \in handles : count[m] + Cardinality(Holders(m)) = initial[m]

=============================================================================
