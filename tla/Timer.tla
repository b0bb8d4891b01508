-------------------------------- MODULE Timer --------------------------------
(***************************************************************************)
(* The callback table of timer.c.  The interrupt handler goes through the  *)
(* table entry by entry, and the callbacks it runs may themselves register *)
(* and unregister timers, ahead of it and behind it; outside of the        *)
(* handler interrupts are disabled, and a call is one step.  A caller      *)
(* unregisters an id only while its timer is registered, a callback never  *)
(* its own: the handler, which goes on with the entry, would free it again.*)
(***************************************************************************)
EXTENDS QueueOps

CONSTANTS
    TimersMax,   \* TIMERS_MAX
    Intervals,   \* the intervals callers give, in ticks
    Repeats,     \* the repeats callers give; -1 is for ever
    MaxTicks     \* BOUND: ticks of a behaviour

ASSUME TimersAssumption == TimersMax \in Nat \ {0} /\ TimersMax <= QueueSize
ASSUME ArgumentAssumption ==
    Intervals \subseteq Nat \ {0} /\ Repeats \subseteq Nat \cup {-1} /\ MaxTicks \in Nat

VARIABLES
    timer_ticks,
    entry,            \* i of the handler's loop; TimersMax outside of the handler
    calling,          \* the callback of this entry runs
    registered,       \* the entries of timers with a callback
    interval, repeat, \* the other fields of timers
    timer_allocator,
    asked,            \* OBSERVER: the repeat each timer was registered with
    since,            \* OBSERVER: the last tick the handler had passed its entry in
    runs              \* OBSERVER: how often its callback has run since

pass == <<timer_ticks, entry, calling>>
table == <<registered, interval, repeat, timer_allocator>>
observers == <<asked, since, runs>>
vars == <<pass, table, observers>>

Ids == 0 .. TimersMax - 1
Zeros == [i \in Ids |-> 0]

Init ==
    /\ timer_ticks = 0
    /\ entry = TimersMax /\ calling = FALSE
    /\ registered = {}
    /\ interval = Zeros /\ repeat = Zeros
    /\ timer_allocator = [i \in 1 .. TimersMax |-> i - 1]
    /\ asked = Zeros /\ since = Zeros /\ runs = Zeros

-----------------------------------------------------------------------------
\* The calls

\* Code outside of the handler runs, or a callback does.
Called == entry = TimersMax \/ calling

\* The last tick for which the handler has been at entry i.
Seen(i) ==
    IF entry < i \/ (entry = i /\ ~calling) THEN timer_ticks - 1 ELSE timer_ticks

timer_callback_register(every, times) ==
    /\ Called
    /\ timer_allocator # <<>>
    /\ LET i == Head(timer_allocator) IN
       /\ registered' = registered \cup {i}
       /\ interval' = [interval EXCEPT ![i] = every]
       /\ repeat' = [repeat EXCEPT ![i] = times]
       /\ asked' = [asked EXCEPT ![i] = times]
       /\ since' = [since EXCEPT ![i] = Seen(i)]
       /\ runs' = [runs EXCEPT ![i] = 0]
    /\ timer_allocator' = Tail(timer_allocator)
    /\ UNCHANGED pass

RegisterFails == Called /\ timer_allocator = <<>> /\ UNCHANGED vars

\* Mutant: the entry is cleared, not given back.
MutGiveBack(i) == timer_allocator

GiveBack(i) == queue_in(timer_allocator, i)

timer_callback_unregister(i) ==
    /\ registered' = registered \ {i}
    /\ interval' = [interval EXCEPT ![i] = 0]
    /\ repeat' = [repeat EXCEPT ![i] = 0]
    /\ timer_allocator' = GiveBack(i)
    /\ asked' = [asked EXCEPT ![i] = 0]
    /\ since' = [since EXCEPT ![i] = 0]
    /\ runs' = [runs EXCEPT ![i] = 0]

Unregister(i) ==
    /\ Called
    /\ i \in registered /\ i # entry
    /\ timer_callback_unregister(i)
    /\ UNCHANGED pass

-----------------------------------------------------------------------------
\* The handler

timer_irq_handler ==
    /\ entry = TimersMax /\ timer_ticks < MaxTicks
    /\ timer_ticks' = timer_ticks + 1
    /\ entry' = 0
    /\ UNCHANGED <<calling, table, observers>>

NoCallback ==
    /\ entry \in Ids \ registered
    /\ entry' = entry + 1
    /\ UNCHANGED <<timer_ticks, calling, table, observers>>

\* Mutant: the pass is made with the ticks as they were before the interrupt.
MutDue(i) == (timer_ticks - 1) % interval[i] = 0

Due(i) == timer_ticks % interval[i] = 0

RunCallback ==
    /\ entry \in registered /\ ~calling /\ Due(entry)
    /\ calling' = TRUE
    /\ runs' = [runs EXCEPT ![entry] = @ + 1]
    /\ UNCHANGED <<timer_ticks, entry, table, asked, since>>

\* What follows the callback, or its being passed over: every tick counts as a
\* repeat, whether the callback has run in it or not.
HandleRepeat ==
    /\ entry \in registered /\ (calling \/ ~Due(entry))
    /\ \/ /\ repeat[entry] > 0
          /\ repeat' = [repeat EXCEPT ![entry] = @ - 1]
          /\ UNCHANGED <<registered, interval, timer_allocator, observers>>
       \/ repeat[entry] = 0 /\ timer_callback_unregister(entry)
       \/ repeat[entry] < 0 /\ UNCHANGED <<table, observers>>
    /\ calling' = FALSE
    /\ entry' = entry + 1
    /\ UNCHANGED timer_ticks

Next ==
    \/ \E every \in Intervals, times \in Repeats : timer_callback_register(every, times)
    \/ RegisterFails
    \/ \E i \in Ids : Unregister(i)
    \/ timer_irq_handler
    \/ NoCallback
    \/ RunCallback
    \/ HandleRepeat

Spec == Init /\ [][Next]_vars

-----------------------------------------------------------------------------
\* The allocator holds each entry without a callback once, however expiries in
\* the handler alternate with registrations and calls of timer_callback_unregister
\* made by other callbacks of the same pass: no timer is lost and no two callbacks
\* share an entry.
AllocatorSound ==
    /\ IsInjective(timer_allocator)
    /\ Range(timer_allocator) = Ids \ registered
    /\ \A i \in Ids \ registered : interval[i] = 0 /\ repeat[i] = 0

\* The callback of a timer registered for ever has run once for every interval of
\* ticks since its registration, whatever other callbacks register and unregister
\* before, behind or beside it in the pass: the scheduler loses no tick.  It may
\* have run once more, since the handler calls it at the multiples of the interval
\* and not the interval after the registration (timer.c:131), but not if it was
\* registered at such a multiple, as the kernel's callbacks are before the first tick.
EveryIntervalRuns ==
    \A i \in registered : asked[i] = -1 =>
        LET intervals == (Seen(i) - since[i]) \div interval[i] IN
        \/ runs[i] = intervals
        \/ runs[i] = intervals + 1 /\ since[i] % interval[i] # 0

=============================================================================
