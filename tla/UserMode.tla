------------------------------ MODULE UserMode ------------------------------
(***************************************************************************)
(* Processes in user mode: the place of each in its program, and eax, the  *)
(* one register of its that matters here.  A program loads the argument of *)
(* a call into it, and finds the result of the call there, where           *)
(* ksyscall_irq_handler has left it in the caller's trap frame.  A tick    *)
(* may come between any two steps of a program; its trap frame then keeps  *)
(* both until the process runs again.                                      *)
(***************************************************************************)
EXTENDS KProc

VARIABLES
    pc,  \* the next step of each process, and what it is about
    eax

\* syscall_common.h
SYSCALL_PROC_SLEEP == 6
SYSCALL_PROC_EXIT == 7
SYSCALL_MUTEX_INIT == 10
SYSCALL_MUTEX_LOCK == 12
SYSCALL_MUTEX_UNLOCK == 13
SYSCALL_SEM_INIT == 14
SYSCALL_SEM_WAIT == 16
SYSCALL_SEM_POST == 17

\* The active process is about to do a step.
At(step) ==
    /\ phase = "user"
    /\ Caller
    /\ pid[active_proc] \in DOMAIN pc /\ pc[pid[active_proc]] = step

Goto(step) == pc' = [pc EXCEPT ![pid[active_proc]] = step]

Load(value) == eax' = [eax EXCEPT ![pid[active_proc]] = value]

\* Mutant: the result goes to the process that is next in the run queue.
MutReturn(call, rc) ==
    eax' = [p \in DOMAIN eax |-> IF run_queue # <<>> /\ p = Head(run_queue) THEN rc ELSE eax[p]]

\* The caller gets its result if it is still the active process; if it
\* sleeps, waits or is gone, the number of the call stays in its register.
Return(call, rc) == Load(IF active_proc' = NULL THEN call ELSE rc)

=============================================================================
