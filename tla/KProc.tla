-------------------------------- MODULE KProc --------------------------------
(***************************************************************************)
(* kproc.c and the entries into the kernel that create, destroy, block and *)
(* wake processes, over the scheduler.  The kernel runs with interrupts    *)
(* disabled, so a handler is one step; what interleaves is the order in    *)
(* which timer, keyboard and system calls interrupt the processes.         *)
(***************************************************************************)
EXTENDS Scheduler, FiniteSets

CONSTANTS
    BootProcs,       \* the processes kproc_init creates
    Seconds,         \* the arguments processes give to proc_sleep
    TicksPerSecond,  \* the 100 of ksyscall_proc_sleep
    MaxPid           \* BOUND: no process id past it is handed out

ASSUME BootProcsAssumption == BootProcs \in 1 .. ProcMax
ASSUME SleepAssumption ==
    /\ TicksPerSecond \in Nat \ {0}
    /\ \A n \in Seconds : n \in Int /\ n * TicksPerSecond \in IntMin .. IntMax
ASSUME MaxPidAssumption == MaxPid \in Nat /\ BootProcs - 1 <= MaxPid

VARIABLE proc_allocator  \* the queue of free entries

vars == <<procVars, schedVars, kernelVars, proc_allocator>>

-----------------------------------------------------------------------------
(* Initial state: interrupts are enabled after kproc_init, no process runs *)

Init ==
    /\ pid = [s \in Slots |-> IF s < BootProcs THEN s ELSE -1]
    /\ state = [s \in Slots |-> IF s < BootProcs THEN "IDLE" ELSE "NONE"]
    /\ cpu_time = [s \in Slots |-> IF s < BootProcs THEN 0 ELSE -1]
    /\ sleep_time = [s \in Slots |-> 0]
    /\ next_pid = BootProcs
    /\ proc_allocator = [i \in 1 .. ProcMax - BootProcs |-> BootProcs + i - 1]
    /\ run_queue = [i \in 1 .. BootProcs - 1 |-> i]
    /\ sleep_queue = <<>>
    /\ active_proc = NULL
    /\ phase = "user"
    /\ scan = 0

-----------------------------------------------------------------------------
(* Handlers                                                                *)

\* A handler that runs to its end and leaves the rest to scheduler_run.
Handler == phase = "user" /\ phase' = "sched" /\ UNCHANGED scan

\* A user process in a system call; the idle process makes none.
Caller == active_proc # NULL /\ pid[active_proc] # 0

kproc_create ==
    IF proc_allocator = <<>>
    THEN phase' = "sched" /\ UNCHANGED <<procVars, schedVars, proc_allocator>>
    ELSE LET s == Head(proc_allocator) IN
         /\ proc_allocator' = Tail(proc_allocator)
         /\ pid' = [pid EXCEPT ![s] = next_pid]
         /\ next_pid' = next_pid + 1
         /\ state' = [state EXCEPT ![s] = "IDLE"]
         /\ cpu_time' = [cpu_time EXCEPT ![s] = 0]
         /\ sleep_time' = [sleep_time EXCEPT ![s] = 0]
         /\ run_queue' = scheduler_add(run_queue, next_pid)
         /\ phase' = IF AddPanics(run_queue, next_pid) THEN "panic" ELSE "sched"
         /\ UNCHANGED <<sleep_queue, active_proc>>

\* The first entry whose process id is that of entry s.
proc_to_entry(s) ==
    CHOOSE e \in Slots :
        pid[e] = pid[s] /\ \A t \in Slots : pid[t] = pid[s] => e <= t

ClearFields(e) ==
    /\ pid' = [pid EXCEPT ![e] = -1]
    /\ state' = [state EXCEPT ![e] = "NONE"]
    /\ cpu_time' = [cpu_time EXCEPT ![e] = -1]
    /\ sleep_time' = [sleep_time EXCEPT ![e] = 0]

\* Mutant: the entry is never given back.
MutRelease(e) == ClearFields(e) /\ UNCHANGED proc_allocator

\* The entry is cleared and goes back to the allocator.
Release(e) ==
    /\ ClearFields(e)
    /\ proc_allocator' = queue_in(proc_allocator, e)

\* Nothing to destroy, or the idle process: -1, nothing changes.
kproc_destroy(s) ==
    IF s = NULL \/ (s # NULL /\ pid[s] = 0)
    THEN UNCHANGED <<procVars, schedVars, proc_allocator>>
    ELSE /\ scheduler_remove(s)
         /\ Release(proc_to_entry(s))
         /\ UNCHANGED <<next_pid, sleep_queue>>

\* CTRL+n: a new test process.
KeyboardCreate ==
    /\ phase = "user"
    /\ next_pid < MaxPid
    /\ kproc_create
    /\ UNCHANGED scan

\* CTRL+q: the end of whichever process the key interrupted.
KeyboardDestroy ==
    /\ Handler
    /\ kproc_destroy(active_proc)

ProcExit ==
    /\ Handler
    /\ Caller
    /\ kproc_destroy(active_proc)

\* ksyscall_proc_sleep and scheduler_sleep
ProcSleep(seconds) ==
    /\ Handler
    /\ Caller
    /\ IF seconds < 0
       THEN UNCHANGED schedVars
       ELSE /\ scheduler_remove(active_proc)
            /\ sleep_time' = [sleep_time EXCEPT ![active_proc] = seconds * TicksPerSecond]
            /\ state' = [state EXCEPT ![active_proc] = "SLEEPING"]
            /\ sleep_queue' = queue_in(sleep_queue, pid[active_proc])
            /\ UNCHANGED cpu_time
    /\ UNCHANGED <<procVars, proc_allocator>>

(***************************************************************************)
(* What a mutex or semaphore call does to the scheduler.  Which process    *)
(* blocks and which is woken is the business of KMutex and KSem; here any  *)
(* caller may block, and wake any process that waits.                      *)
(***************************************************************************)
Block ==
    /\ Handler
    /\ Caller
    /\ scheduler_remove(active_proc)
    /\ state' = [state EXCEPT ![active_proc] = "WAITING"]
    /\ UNCHANGED <<procVars, cpu_time, sleep_time, sleep_queue, proc_allocator>>

\* scheduler_add of process s by the process that stays active.
WakeUp(s) ==
    /\ phase = "user"
    /\ Caller
    /\ run_queue' = scheduler_add(run_queue, pid[s])
    /\ state' = [state EXCEPT ![s] = "IDLE"]
    /\ cpu_time' = [cpu_time EXCEPT ![s] = 0]
    /\ phase' = IF AddPanics(run_queue, pid[s]) THEN "panic" ELSE "sched"
    /\ UNCHANGED <<procVars, sleep_time, sleep_queue, active_proc, scan, proc_allocator>>

Unblock(s) == state[s] = "WAITING" /\ WakeUp(s)

\* scheduler_add(pid_to_proc(p)): an unknown process stops the kernel.
WakePid(p) ==
    IF pid_to_proc(p) # NULL
    THEN WakeUp(pid_to_proc(p))
    ELSE /\ phase = "user" /\ phase' = "panic"
         /\ UNCHANGED <<procVars, schedVars, scan, proc_allocator>>

\* Any interrupt or system call whose handler leaves the processes alone.
OtherEntry ==
    /\ Handler
    /\ UNCHANGED <<procVars, schedVars, proc_allocator>>

ProcEntry ==
    \/ KeyboardCreate
    \/ KeyboardDestroy
    \/ ProcExit
    \/ \E seconds \in Seconds : ProcSleep(seconds)
    \/ OtherEntry

SyncEntry == Block \/ \E s \in Slots : Unblock(s)

KernelWork == (TimerTick \/ KernelStep) /\ UNCHANGED proc_allocator

Next == ProcEntry \/ SyncEntry \/ KernelWork

Spec == Init /\ [][Next]_vars

(***************************************************************************)
(* The kernel never stays in a handler.  The tick is IRQ 0, the interrupt  *)
(* of the highest priority: one that arrives while the kernel runs is kept *)
(* by the PIC and taken on return, so no sequence of other entries can     *)
(* hold it off for ever.                                                   *)
(***************************************************************************)
Fairness ==
    /\ WF_vars(KernelStep /\ UNCHANGED proc_allocator)
    /\ SF_vars(TimerTick /\ UNCHANGED proc_allocator)

FairSpec == Spec /\ Fairness

-----------------------------------------------------------------------------
(* Safety                                                                  *)

Live == {s \in Slots : pid[s] # -1}
PidsOf(st) == {pid[s] : s \in {t \in Live : state[t] = st}}

TypeOK ==
    /\ pid \in [Slots -> Int]
    /\ state \in [Slots -> States]
    /\ cpu_time \in [Slots -> Int]
    /\ sleep_time \in [Slots -> IntMin .. IntMax]
    /\ next_pid \in Nat
    /\ proc_allocator \in Seq(Slots)
    /\ run_queue \in Seq(Nat)
    /\ sleep_queue \in Seq(Nat)
    /\ active_proc \in Slots \cup {NULL}
    /\ phase \in Phases
    /\ scan \in Nat

(***************************************************************************)
(* Process ids name one live process each, the idle process never goes     *)
(* away, and the allocator holds each free entry once: no interleaving of  *)
(* create, exit and CTRL+q leaks an entry or hands it out twice.           *)
(***************************************************************************)
TableSound ==
    /\ \A s \in Live : pid[s] \in 0 .. next_pid - 1
    /\ \A s, t \in Live : pid[s] = pid[t] => s = t
    /\ pid[0] = 0
    /\ \A s \in Slots : s \in Live <=> state[s] # "NONE"
    /\ IsInjective(proc_allocator)
    /\ Range(proc_allocator) = Slots \ Live

(***************************************************************************)
(* A process is where its state says it is: IDLE processes (but the idle   *)
(* process) are in the run queue, SLEEPING ones in the sleep queue, both   *)
(* once, and the ACTIVE one is active_proc.  It is in no two places, so    *)
(* the same process is never scheduled twice, and in no place only while   *)
(* it waits for a mutex or a semaphore.                                    *)
(***************************************************************************)
Placement ==
    /\ IsInjective(run_queue)
    /\ Range(run_queue) = PidsOf("IDLE") \ {0}
    /\ IsInjective(sleep_queue)
    /\ Range(sleep_queue) = PidsOf("SLEEPING")
    /\ 0 \notin PidsOf("SLEEPING") \cup PidsOf("WAITING")
    /\ \A s \in Slots : state[s] = "ACTIVE" <=> s = active_proc

\* No call of scheduler_add finds the run queue full or its process gone, and
\* scheduler_run always finds a process: none of scheduler.c's panics is reached.
NoPanic == phase # "panic"

(***************************************************************************)
(* A process enters user mode with part of its slice left, whatever        *)
(* handlers ran before; cpu_time never counts past the slice, and a ready  *)
(* process, however it left the CPU, will get a whole slice.               *)
(***************************************************************************)
SliceRespected ==
    /\ \A s \in Slots : state[s] = "IDLE" => cpu_time[s] = 0
    /\ \A s \in Slots : cpu_time[s] <= TimeSlice
    /\ phase = "user" /\ active_proc # NULL => cpu_time[active_proc] < TimeSlice

-----------------------------------------------------------------------------
(* Action properties                                                       *)

\* x is in front of y in queue q.
Before(q, x, y) ==
    \E i, j \in 1 .. Len(q) : i < j /\ q[i] = x /\ q[j] = y

(***************************************************************************)
(* Ready processes are served in the order they became ready: no handler   *)
(* reorders the run queue, scheduler_remove's rotation included, and the   *)
(* process that leaves it is the first one.                                *)
(***************************************************************************)
NoOvertaking ==
    [][\A x, y \in Range(run_queue) :
          x # y /\ Before(run_queue, x, y) =>
             \/ Before(run_queue', x, y)
             \/ x \notin Range(run_queue') /\ x = run_queue[1]]_run_queue

(***************************************************************************)
(* The ticks process p, in the run queue, may still have to wait: what is  *)
(* left of the current slice and a slice for each process in front of it.  *)
(***************************************************************************)
WaitBound(p) ==
    LET ahead == {i \in 1 .. Len(run_queue) : \A j \in 1 .. i : run_queue[j] # p}
    IN  Cardinality(ahead) * TimeSlice
          + IF active_proc = NULL THEN 0 ELSE TimeSlice - cpu_time[active_proc]

(***************************************************************************)
(* Bounded waiting: while a process is ready no handler makes it wait      *)
(* longer (processes created, woken or put to sleep meanwhile, and slices  *)
(* of the idle process included), and every tick brings it closer to the   *)
(* CPU.                                                                    *)
(***************************************************************************)
BoundedWait ==
    [][\A p \in Range(run_queue) : p \in Range(run_queue') =>
          /\ WaitBound(p)' <= WaitBound(p)
          /\ phase' = "timer" /\ phase = "user" /\ active_proc # NULL
                => WaitBound(p)' < WaitBound(p)]_vars

-----------------------------------------------------------------------------
(* Liveness                                                                *)

\* A ready process gets the CPU.
ReadyRuns ==
    \A p \in 1 .. MaxPid : p \in Range(run_queue) ~> active_proc # NULL /\ pid[active_proc] = p

\* A sleeping process wakes up, whoever sleeps beside it.
SleeperWakes ==
    \A p \in 1 .. MaxPid : p \in Range(sleep_queue) ~> p \notin Range(sleep_queue)

=============================================================================
