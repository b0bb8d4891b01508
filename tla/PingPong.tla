------------------------------ MODULE PingPong ------------------------------
(***************************************************************************)
(* prog_ping and prog_pong over the semaphores of KSem.  A process runs in *)
(* user mode, so a tick may come between any two of its instructions: the  *)
(* check of a semaphore id, the call that creates the semaphore and the    *)
(* store of its id are steps of their own, and so are the load of an id    *)
(* and the call that uses it.                                              *)
(***************************************************************************)
EXTENDS KSem, UserMode

CONSTANTS
    Pings, Pongs,  \* the processes that run prog_ping and prog_pong
    Delay,         \* the seconds a ping or a pong with an even id sleeps
    MaxEarlyTicks  \* BOUND: ticks before all players have their semaphores

Players == Pings \cup Pongs
Names == {"ping", "pong"}

ASSUME PlayersAssumption == Players \subseteq 1 .. BootProcs - 1 /\ Pings \cap Pongs = {}
ASSUME DelayAssumption ==
    /\ Delay \in [Names -> Nat]
    /\ \A s \in Names : {Delay[s], Delay[s] + 1} \subseteq Seconds

\* Who posts first has waited for nothing, and semaphores start with 0 or 1.
ASSUME ClientAssumption == Clients = {"wild"} /\ {0, 1} \subseteq Values

ASSUME EnoughSems == Cardinality(Players) * Cardinality(Names) <= SemMax

VARIABLES
    pingpong_semaphores,  \* the ids, -1 before they are stored
    brought,              \* OBSERVER: the units created by sem_init and the first posts
    early_ticks           \* ticks that interrupted a process meanwhile, see MaxEarlyTicks

playVars == <<pc, pingpong_semaphores, eax, brought, early_ticks>>
allVars == <<vars, semVars, playVars>>

PlayInit ==
    /\ SemInit
    /\ pc = [p \in Players |-> <<"check", "ping">>]
    /\ pingpong_semaphores = [s \in Names |-> -1]
    /\ eax = [p \in Players |-> 0]
    /\ brought = 0
    /\ early_ticks = 0

-----------------------------------------------------------------------------
(* Steps of the active process                                             *)

\* The step in user mode that leaves the kernel alone.
Local == UNCHANGED <<vars, semVars, brought>>

\* prog_ping and prog_pong create the semaphores with opposite values.
Value(s) == IF (s = "ping") = (me \in Pings) THEN 1 ELSE 0

AfterSetup(s) ==
    IF s = "ping" THEN <<"check", "pong">>
    ELSE <<"load", IF me \in Pings THEN "first" ELSE "mine">>

Unset(s) == pingpong_semaphores[s] < 0

Check(s) ==
    /\ At(<<"check", s>>)
    /\ Goto(IF Unset(s) THEN <<"init", s>> ELSE AfterSetup(s))
    /\ Local
    /\ UNCHANGED <<pingpong_semaphores, eax>>

sem_init(s) ==
    /\ At(<<"init", s>>)
    /\ ksem_init(Value(s))
    /\ Return(SYSCALL_SEM_INIT, Head(sem_queue))
    /\ Goto(<<"store", s>>)
    /\ brought' = brought + Value(s)
    /\ UNCHANGED pingpong_semaphores

Store(s) ==
    /\ At(<<"store", s>>)
    /\ pingpong_semaphores' = [pingpong_semaphores EXCEPT ![s] = eax[me]]
    /\ Goto(AfterSetup(s))
    /\ Local
    /\ UNCHANGED eax

Mine == IF me \in Pings THEN "ping" ELSE "pong"
Other == IF me \in Pings THEN "pong" ELSE "ping"

\* The id is read from memory before the call that uses it.
LoadId(which, s, next) ==
    /\ At(<<"load", which>>)
    /\ Load(pingpong_semaphores[s])
    /\ Goto(<<next, which>>)
    /\ Local
    /\ UNCHANGED pingpong_semaphores

LoadStep ==
    \/ LoadId("first", Other, "post")
    \/ LoadId("mine", Mine, "wait")
    \/ LoadId("other", Other, "post")

sem_wait ==
    /\ At(<<"wait", "mine">>)
    /\ \/ ksem_wait_free(eax[me]) /\ Return(SYSCALL_SEM_WAIT, count'[eax[me]])
       \/ ksem_wait_block(eax[me]) /\ Return(SYSCALL_SEM_WAIT, 0)
    /\ Goto(<<"sleep", "mine">>)
    /\ UNCHANGED <<pingpong_semaphores, brought>>

proc_sleep ==
    /\ At(<<"sleep", "mine">>)
    /\ ProcSleep((me % 2) + Delay[Mine])
    /\ Return(SYSCALL_PROC_SLEEP, 0)
    /\ Goto(<<"load", "other">>)
    /\ UNCHANGED <<semVars, pingpong_semaphores, brought>>

PostResult(m) == IF wait_queue[m] = <<>> THEN -1 ELSE count'[m]

sem_post(which) ==
    /\ At(<<"post", which>>)
    /\ ksem_post(eax[me])
    /\ Return(SYSCALL_SEM_POST, PostResult(eax[me]))
    /\ Goto(<<"load", "mine">>)
    /\ brought' = IF which = "first" THEN brought + 1 ELSE brought
    /\ UNCHANGED pingpong_semaphores

PlayStep ==
    \/ \E s \in Names : Check(s) \/ sem_init(s) \/ Store(s)
    \/ LoadStep
    \/ sem_wait
    \/ proc_sleep
    \/ sem_post("first")
    \/ sem_post("other")

SettingUp == \E p \in Players : pc[p][1] \in {"check", "init", "store"}

\* Once all ids are stored ticks are not counted any more.
CountEarly ==
    early_ticks' = IF ~SettingUp THEN 0
                   ELSE IF phase = "user" /\ Caller THEN early_ticks + 1 ELSE early_ticks

Meanwhile ==
    /\ KernelWork
    /\ CountEarly /\ early_ticks' <= MaxEarlyTicks
    /\ UNCHANGED <<semVars, pc, pingpong_semaphores, eax, brought>>

PlayNext == (PlayStep /\ UNCHANGED early_ticks) \/ Meanwhile

PlaySpec == PlayInit /\ [][PlayNext]_allVars

\* Besides the kernel's fairness: a process that gets the CPU again and again
\* does its next step.
PlayFairSpec ==
    /\ PlaySpec
    /\ WF_allVars(KernelStep /\ Meanwhile)
    /\ SF_allVars(TimerTick /\ Meanwhile)
    /\ \A p \in Players : SF_allVars(PlayStep /\ me = p /\ UNCHANGED early_ticks)

-----------------------------------------------------------------------------
(* Properties                                                              *)

\* Process p has come back from its wait and has not posted yet.
HasUnit(p) ==
    /\ pc[p] \in {<<"sleep", "mine">>, <<"load", "other">>, <<"post", "other">>}
    /\ \E s \in Live : pid[s] = p /\ state[s] # "WAITING"

\* The units in the counts, each with a number of its own.
Spare == UNION {{m} \X (1 .. count[m]) : m \in handles}

(***************************************************************************)
(* Each unit that was ever created or posted first is in a count or with   *)
(* one process between its wait and its post, also when a process wakes    *)
(* long after the post that woke it, and also when both programs have      *)
(* created semaphores at once.                                             *)
(***************************************************************************)
UnitsInPlay ==
    Cardinality(Spare) + Cardinality({p \in Players : HasUnit(p)}) = brought

\* Process p has a unit and has just printed.
Plays(p) == pc[p] = <<"sleep", "mine">> /\ HasUnit(p)

\* The lazy initialisation has created no semaphore twice.
CreatedOnce == Cardinality(handles) <= Cardinality(Names)

(***************************************************************************)
(* Ping and pong go on for ever, each process again and again, unless two  *)
(* of them found the same id unset, were preempted, and both created the   *)
(* semaphore: then a process may wait on one that nobody knows any more.   *)
(***************************************************************************)
PlayGoesOn ==
    \A p \in Players : []<>(Plays(p) \/ ~CreatedOnce)

=============================================================================
