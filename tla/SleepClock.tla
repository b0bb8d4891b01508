----------------------------- MODULE SleepClock -----------------------------
(***************************************************************************)
(* KProc with two observers beside each sleeper: what its sleep_time would *)
(* be if every tick counted, and how many others woke while it slept.      *)
(* They only watch and take no part in the program.                        *)
(***************************************************************************)
EXTENDS KProc

VARIABLES
    due,   \* the ticks each entry should still sleep; below zero: it is late
    woken  \* the processes that woke up since each entry went to sleep

clockVars == <<vars, due, woken>>

ClockInit ==
    /\ Init
    /\ due = [s \in Slots |-> 0]
    /\ woken = [s \in Slots |-> 0]

Ticks == phase = "user" /\ phase' = "timer"
Wakes == Len(sleep_queue') < Len(sleep_queue)
StaysAsleep(s) == state[s] = "SLEEPING" /\ state'[s] = "SLEEPING"

ClockNext ==
    /\ Next
    /\ due' = [s \in Slots |->
                CASE state'[s] # "SLEEPING" -> 0
                  [] state'[s] = "SLEEPING" /\ ~StaysAsleep(s) -> sleep_time'[s]
                  [] OTHER -> IF Ticks THEN Decrement(due[s]) ELSE due[s]]
    /\ woken' = [s \in Slots |->
                IF ~StaysAsleep(s) THEN 0 ELSE IF Wakes THEN woken[s] + 1 ELSE woken[s]]

ClockSpec == ClockInit /\ [][ClockNext]_clockVars

ClockFairSpec == ClockSpec /\ Fairness

-----------------------------------------------------------------------------

Sleepers == {s \in Slots : state[s] = "SLEEPING"}

\* How many ticks sleep_time is behind, on an int that goes round.
Behind(s) == (sleep_time[s] - due[s]) % (IntMax - IntMin + 1)

(***************************************************************************)
(* A sleeper never runs ahead of the clock, and it falls behind it by no   *)
(* more ticks than other processes woke meanwhile: the ticks that          *)
(* scheduler_timer's shrinking loop skips are the only ones it loses.      *)
(***************************************************************************)
LatenessExplained ==
    phase = "user" => \A s \in Sleepers : Behind(s) <= woken[s]

(***************************************************************************)
(* scheduler.c:36 says of every tick: "Decrement sleep_time for processes  *)
(* in sleep_queue, add back to run_queue if necessary."  Then sleep_time   *)
(* is exactly the time a process has left to sleep.                        *)
(***************************************************************************)
EveryTickCounts ==
    phase = "user" => \A s \in Sleepers : sleep_time[s] = due[s]

=============================================================================
