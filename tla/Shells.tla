------------------------------- MODULE Shells -------------------------------
(***************************************************************************)
(* prog_shell over the mutexes of KMutex.  Shells whose process ids have   *)
(* the same parity share a mutex, created by the first of them.  A tick    *)
(* may come between any two steps of a shell: between the check of the id, *)
(* the call that creates the mutex and the store of its id, and between    *)
(* the load of the id and the call that uses it.                           *)
(*                                                                         *)
(* A shell locks the mutex to "read" its input or, as the command lock, to *)
(* "hold" it while it sleeps.  What is typed, and so which command comes   *)
(* next, is arbitrary.                                                     *)
(***************************************************************************)
EXTENDS KMutex, UserMode

CONSTANTS
    Shell,         \* the processes that run prog_shell
    Nap,           \* sleep_seconds of each
    MaxEarlyTicks  \* BOUND: ticks before all shells have stored a mutex

Why == {"read", "hold"}

\* What the shells lock and unlock is what their code does: nothing more is
\* asked of them as clients of KMutex.
ASSUME ShellAssumption ==
    /\ Shell \subseteq 1 .. BootProcs - 1 /\ Cardinality(Shell) <= MutexMax
    /\ Nap \in [Shell -> Seconds]
    /\ Clients = {"wild"}

VARIABLES
    shell_mutex,  \* the mutex of each parity, -1 before it is stored
    users,        \* OBSERVER: the shells that have loaded their mutex
    late,         \* OBSERVER: one was stored after another shell had loaded it
    early_ticks   \* ticks that interrupted a shell early, see MaxEarlyTicks

observers == <<users, late>>
shellVars == <<pc, eax, shell_mutex, observers, early_ticks>>
allVars == <<vars, mutexVars, shellVars>>

ShellInit ==
    /\ MutexInit
    /\ pc = [p \in Shell |-> <<"check", "mutex">>]
    /\ eax = [p \in Shell |-> 0]
    /\ shell_mutex = [parity \in {0, 1} |-> -1]
    /\ users = {} /\ late = FALSE
    /\ early_ticks = 0

-----------------------------------------------------------------------------
(* Steps of the active process                                             *)

Mine == shell_mutex[me % 2]

\* A step in user mode that leaves the kernel alone.
Local == UNCHANGED <<vars, mutexVars>>

Check ==
    /\ At(<<"check", "mutex">>)
    /\ Goto(IF Mine < 0 THEN <<"init", "mutex">> ELSE <<"nap", "first">>)
    /\ Local
    /\ UNCHANGED <<eax, shell_mutex, observers>>

mutex_init ==
    /\ At(<<"init", "mutex">>)
    /\ kmutex_init
    /\ Return(SYSCALL_MUTEX_INIT, Head(mutex_queue))
    /\ Goto(<<"store", "mutex">>)
    /\ UNCHANGED <<shell_mutex, observers>>

Store ==
    /\ At(<<"store", "mutex">>)
    /\ shell_mutex' = [shell_mutex EXCEPT ![me % 2] = eax[me]]
    /\ late' = (late \/ \E p \in users : p % 2 = me % 2)
    /\ Goto(<<"nap", "first">>)
    /\ Local
    /\ UNCHANGED <<eax, users>>

\* The sleep before the loop, and the command sleep.
proc_sleep(which) ==
    /\ At(<<"nap", which>>)
    /\ ProcSleep(Nap[me])
    /\ Return(SYSCALL_PROC_SLEEP, 0)
    /\ Goto(<<"load", "read">>)
    /\ UNCHANGED <<mutexVars, shell_mutex, observers>>

\* The id is read from memory before each call that uses it.
LoadId(label, why, next) ==
    /\ At(<<label, why>>)
    /\ Load(Mine)
    /\ users' = users \cup {me}
    /\ Goto(<<next, why>>)
    /\ Local
    /\ UNCHANGED <<shell_mutex, late>>

mutex_lock(why) ==
    /\ At(<<"lock", why>>)
    /\ kmutex_lock_free(eax[me]) \/ kmutex_lock_taken(eax[me])
    /\ Return(SYSCALL_MUTEX_LOCK, locks'[eax[me]])
    /\ Goto(<<"use", why>>)
    /\ UNCHANGED <<shell_mutex, observers>>

\* Holding the mutex, a shell reads what was typed and echoes it, or sleeps.
Use(why) ==
    /\ At(<<"use", why>>)
    /\ IF why = "read" THEN OtherEntry ELSE ProcSleep(Nap[me])
    /\ Return(SYSCALL_PROC_SLEEP, 0)
    /\ Goto(<<"reload", why>>)
    /\ UNCHANGED <<mutexVars, shell_mutex, observers>>

AfterUnlock(why) == IF why = "read" THEN <<"command", "any">> ELSE <<"load", "read">>

mutex_unlock(why) ==
    /\ At(<<"unlock", why>>)
    /\ kmutex_unlock(eax[me])
    /\ Return(SYSCALL_MUTEX_UNLOCK, locks'[eax[me]])
    /\ Goto(AfterUnlock(why))
    /\ UNCHANGED <<shell_mutex, observers>>

\* No line yet or a command that only prints, the commands sleep, lock and exit.
Command ==
    /\ At(<<"command", "any">>)
    /\ \E next \in {<<"load", "read">>, <<"nap", "again">>, <<"load", "hold">>, <<"exit", "any">>} :
          Goto(next)
    /\ Local
    /\ UNCHANGED <<eax, shell_mutex, observers>>

proc_exit ==
    /\ At(<<"exit", "any">>)
    /\ ProcExit
    /\ Return(SYSCALL_PROC_EXIT, 0)
    /\ Goto(<<"gone", "any">>)
    /\ UNCHANGED <<mutexVars, shell_mutex, observers>>

ShellStep ==
    \/ Check
    \/ mutex_init
    \/ Store
    \/ proc_sleep("first")
    \/ proc_sleep("again")
    \/ \E why \in Why :
          \/ LoadId("load", why, "lock")
          \/ mutex_lock(why)
          \/ Use(why)
          \/ LoadId("reload", why, "unlock")
          \/ mutex_unlock(why)
    \/ Command
    \/ proc_exit

SettingUp == \E p \in Shell : pc[p][1] \in {"check", "init", "store"}

\* Once all ids are stored ticks are not counted any more.
CountEarly ==
    early_ticks' = IF ~SettingUp THEN 0
                   ELSE IF phase = "user" /\ Caller /\ me \in Shell THEN early_ticks + 1 ELSE early_ticks

Meanwhile ==
    /\ KernelWork
    /\ CountEarly /\ early_ticks' <= MaxEarlyTicks
    /\ UNCHANGED <<mutexVars, pc, eax, shell_mutex, observers>>

ShellNext == (ShellStep /\ UNCHANGED early_ticks) \/ Meanwhile

ShellSpec == ShellInit /\ [][ShellNext]_allVars

\* Besides the kernel's fairness: a shell that gets the CPU again and again
\* does its next step.
ShellFairSpec ==
    /\ ShellSpec
    /\ WF_allVars(KernelStep /\ Meanwhile)
    /\ SF_allVars(TimerTick /\ Meanwhile)
    /\ \A p \in Shell : SF_allVars(ShellStep /\ me = p /\ UNCHANGED early_ticks)

-----------------------------------------------------------------------------
(* Properties                                                              *)

\* Shell p has come back from its lock call and has not called unlock.
Inside(p) ==
    /\ pc[p][1] \in {"use", "reload", "unlock"}
    /\ \E s \in Live : pid[s] = p /\ state[s] # "WAITING"

(***************************************************************************)
(* A shell inside owns the mutex that its parity uses, so it is the only   *)
(* one inside and it unlocks what it locked, although the id is read again *)
(* for every call and although two shells may have created a mutex each:   *)
(* all that matters is that the last store comes before the first load,    *)
(* which the sleep before the loop is long enough for.                     *)
(***************************************************************************)
InsideOwns ==
    ~late => \A p \in Shell : Inside(p) =>
        \E s \in Live : pid[s] = p /\ owner[shell_mutex[p % 2]] = s

(***************************************************************************)
(* A shell that calls lock comes inside, however long others of its parity *)
(* hold the mutex with the command lock, and whether or not they exit.     *)
(***************************************************************************)
ShellGetsIn ==
    \A p \in Shell : pc[p][1] = "lock" ~> Inside(p) \/ late

=============================================================================
