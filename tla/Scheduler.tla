------------------------------ MODULE Scheduler ------------------------------
(***************************************************************************)
(* scheduler.c over the process table of kproc.c.                          *)
(*                                                                         *)
(* The kernel is entered by an interrupt, with interrupts disabled, and    *)
(* kernel_context_enter always does the same three things: the handler of  *)
(* the interrupt, scheduler_run, and the return to the process in          *)
(* active_proc.  The variable phase is the kernel's place in that          *)
(* sequence.  Handlers take the phase from "user" to "sched", SchedulerRun *)
(* takes it back to "user", and nothing else is possible in between.  Only *)
(* the timer's handler takes more than one step, because scheduler_timer   *)
(* walks the sleep queue: that is the phase "timer".                       *)
(***************************************************************************)
EXTENDS QueueOps

CONSTANTS
    ProcMax,         \* PROC_MAX, the entries of the process table
    TimeSlice,       \* SCHEDULER_TIMESLICE, in ticks
    IntMin, IntMax,  \* the range of a C int
    NULL             \* the null process pointer

Slots == 0 .. ProcMax - 1

ASSUME ProcMaxAssumption == ProcMax \in Nat \ {0} /\ ProcMax <= QueueSize
ASSUME TimeSliceAssumption == TimeSlice \in Nat \ {0}
ASSUME IntAssumption == IntMin \in Int /\ IntMax \in Nat /\ IntMin < 0
ASSUME NullAssumption == NULL \notin Slots

VARIABLES
    \* proc_table, one function per field; a pointer is the index of its entry
    pid, state, cpu_time, sleep_time,
    next_pid,
    run_queue, sleep_queue,  \* queues of process ids
    active_proc,             \* the scheduled entry or NULL
    phase,                   \* where the kernel is, see above
    scan                     \* scheduler_timer's loop counter

procVars == <<pid, next_pid>>
schedVars == <<state, cpu_time, sleep_time, run_queue, sleep_queue, active_proc>>
kernelVars == <<phase, scan>>

States == {"NONE", "IDLE", "ACTIVE", "SLEEPING", "WAITING"}
Phases == {"user", "timer", "sched", "panic"}

-----------------------------------------------------------------------------
(* Operators on the process table and on the queues                        *)

\* Mutant: the newest process is not found.
MutLookup(p) ==
    IF p \in 0 .. next_pid - 2 /\ \E s \in Slots : pid[s] = p
    THEN CHOOSE s \in Slots : pid[s] = p
    ELSE NULL

\* The first entry that holds process p.
pid_to_proc(p) ==
    IF p \in 0 .. next_pid - 1 /\ \E s \in Slots : pid[s] = p
    THEN CHOOSE s \in Slots :
            pid[s] = p /\ \A t \in Slots : pid[t] = p => s <= t
    ELSE NULL

\* Mutants: the idle process is queued too; a ready process goes to the front.
MutAddIdle(q, p) == queue_in(q, p)
MutAddFirst(q, p) == IF p = 0 THEN q ELSE <<p>> \o q

\* The idle process never enters the run queue.
scheduler_add(q, p) == IF p = 0 THEN q ELSE queue_in(q, p)

\* scheduler_add stops the kernel when the run queue is full.
AddPanics(q, p) == p # 0 /\ queue_is_full(q)

\* Mutant: the rotation stops one item early.
MutRotate(q, p) ==
    IF q = <<>> \/ \E j \in 1 .. Len(q) : q[j] = p
    THEN q ELSE <<q[Len(q)]>> \o SubSeq(q, 1, Len(q) - 1)

(***************************************************************************)
(* scheduler_remove rotates the run queue, but counts up to a size that    *)
(* shrinks once the process is found: the last item is then never rotated  *)
(* and comes out first.  The callers have at most one p in the queue.      *)
(***************************************************************************)
RotateWithout(q, p) ==
    LET n == Len(q)
        Without(j) == IF j = n
                      THEN SubSeq(q, 1, n - 1)
                      ELSE <<q[n]>> \o SubSeq(q, 1, j - 1) \o SubSeq(q, j + 1, n - 1)
    IN  IF \E j \in 1 .. n : q[j] = p
        THEN Without(CHOOSE j \in 1 .. n : q[j] = p)
        ELSE q

\* The active process leaves the CPU for good or until it is added again.
scheduler_remove(s) ==
    /\ run_queue' = RotateWithout(run_queue, pid[s])
    /\ active_proc' = NULL

\* Mutant: an unbounded integer.
MutDecrement(n) == n - 1

\* sleep_time-- on a C int: the build's decrement wraps.
Decrement(n) == IF n = IntMin THEN IntMax ELSE n - 1

-----------------------------------------------------------------------------
(* scheduler_timer, called on every tick                                   *)

\* Mutant: the last sleeper is left out.
MutScan == scan + 1 < Len(sleep_queue)

\* The loop's condition, on a size that shrinks whenever a sleeper wakes.
ScanGoesOn == scan < Len(sleep_queue)

TimerTick ==
    /\ phase = "user"
    /\ cpu_time' = [s \in Slots |-> IF s = active_proc THEN cpu_time[s] + 1 ELSE cpu_time[s]]
    /\ phase' = "timer"
    /\ scan' = 0
    /\ UNCHANGED <<procVars, state, sleep_time, run_queue, sleep_queue, active_proc>>

\* The next sleeper has one tick left: it becomes ready.
TimerWake ==
    /\ phase = "timer"
    /\ ScanGoesOn
    /\ LET p == Head(sleep_queue)
           s == pid_to_proc(p)
       IN  /\ s # NULL
           /\ sleep_time[s] = 1
           /\ sleep_time' = [sleep_time EXCEPT ![s] = 0]
           /\ run_queue' = scheduler_add(run_queue, p)
           /\ state' = [state EXCEPT ![s] = "IDLE"]
           /\ cpu_time' = [cpu_time EXCEPT ![s] = 0]
           /\ phase' = IF AddPanics(run_queue, p) THEN "panic" ELSE "timer"
    /\ sleep_queue' = Tail(sleep_queue)
    /\ scan' = scan + 1
    /\ UNCHANGED <<procVars, active_proc>>

\* The next sleeper goes back to the queue; an unknown pid is dropped.
TimerCountDown ==
    /\ phase = "timer"
    /\ ScanGoesOn
    /\ LET p == Head(sleep_queue)
           s == pid_to_proc(p)
       IN  /\ s # NULL => sleep_time[s] # 1
           /\ sleep_time' = IF s = NULL THEN sleep_time
                            ELSE [sleep_time EXCEPT ![s] = Decrement(@)]
           /\ sleep_queue' = IF s = NULL THEN Tail(sleep_queue)
                             ELSE queue_in(Tail(sleep_queue), p)
    /\ scan' = scan + 1
    /\ UNCHANGED <<procVars, state, cpu_time, run_queue, active_proc, phase>>

TimerDone ==
    /\ phase = "timer"
    /\ ~ScanGoesOn
    /\ phase' = "sched"
    /\ scan' = 0
    /\ UNCHANGED <<procVars, schedVars>>

-----------------------------------------------------------------------------
(* scheduler_run                                                           *)

\* The active process, unless it lost the ACTIVE state in the handler.
Running(s) == s # NULL /\ state[s] = "ACTIVE"

\* Mutant: one tick more than the slice.
MutSliceOver(s) == cpu_time[s] > TimeSlice

SliceOver(s) == cpu_time[s] >= TimeSlice

SchedulerKeep ==
    /\ phase = "sched"
    /\ Running(active_proc)
    /\ ~SliceOver(active_proc)
    /\ phase' = "user"
    /\ UNCHANGED <<procVars, schedVars, scan>>

SchedulerSwitch ==
    /\ phase = "sched"
    /\ Running(active_proc) => SliceOver(active_proc)
    /\ LET expired == IF Running(active_proc) THEN {active_proc} ELSE {}
           ready   == IF expired = {} THEN run_queue
                      ELSE scheduler_add(run_queue, pid[active_proc])
           chosen  == pid_to_proc(IF ready = <<>> THEN 0 ELSE Head(ready))
       IN  /\ run_queue' = IF ready = <<>> THEN <<>> ELSE Tail(ready)
           /\ active_proc' = chosen
           /\ state' = [s \in Slots |-> IF s = chosen THEN "ACTIVE"
                                     ELSE IF s \in expired THEN "IDLE"
                                     ELSE state[s]]
           /\ cpu_time' = [s \in Slots |-> IF s \in expired THEN 0 ELSE cpu_time[s]]
           /\ phase' = IF \/ chosen = NULL
                          \/ expired # {} /\ AddPanics(run_queue, pid[active_proc])
                       THEN "panic" ELSE "user"
    /\ UNCHANGED <<procVars, sleep_time, sleep_queue, scan>>

SchedulerRun == SchedulerKeep \/ SchedulerSwitch

\* The steps the kernel takes by itself once it has been entered.
KernelStep == TimerWake \/ TimerCountDown \/ TimerDone \/ SchedulerRun

=============================================================================
