# A verification of WUROS

WUROS is a small teaching kernel for one x86 processor: a process table with a
round-robin scheduler, sleeping, mutexes and semaphores, ten virtual terminals
(TTYs), a keyboard and a timer. This directory holds TLA+ models of it, TLC
configurations that check them on small instances, and proofs of the central
properties for every size. Paths below are relative to the repository
(`src/scheduler.c`); `PROJECT.json` maps each definition to the lines it models.

## The system

The kernel is entered by three interrupts: the timer (100 ticks a second), the
keyboard and the system call. The gates are interrupt gates, so the kernel runs
with interrupts disabled and its C code is never interrupted. On each entry
`kernel_context_enter` runs the handler, then `scheduler_run`, then returns to
the process in `active_proc`. What interleaves is therefore the *order of
entries*: a tick or a key may come between any two instructions of a process,
and whichever process is running when it comes is the one it affects.

| Component | State | Operations | Used by |
|---|---|---|---|
| Queue (`queue.c`) | `head`, `tail`, `size`, `items` | in, out, is_empty, is_full | every queue and id allocator below |
| Process table (`kproc.c`) | `proc_table`, `next_pid`, `proc_allocator`, `active_proc` | create, destroy, look-ups, attach to a TTY | keyboard (CTRL+n, CTRL+q), exit, scheduler |
| Scheduler (`scheduler.c`) | `run_queue`, `sleep_queue`, fields of the entries | timer, run, add, remove, sleep | every kernel entry, mutexes, semaphores |
| Mutexes (`kmutex.c`) | `mutexes[]`, `mutex_queue` | init, destroy, lock, unlock | shells |
| Semaphores (`ksem.c`) | `semaphores[]`, `sem_queue` | init, destroy, wait, post | ping and pong |
| Ring buffers (`ringbuf.c`) | `head`, `tail`, `size`, `data` | read, write, flush, the `_mem` variants | TTYs |
| TTYs (`tty.c`) | `tty_table`, `active_tty` | input, select, refresh, update | keyboard, timer, io calls |
| Timer callbacks (`timer.c`) | `timers`, `timer_allocator`, `timer_ticks` | register, unregister, interrupt handler | scheduler, TTYs |
| System calls (`ksyscall.c`, `syscall.c`) | the registers of the caller | dispatch, io calls, sleep, exit, wrappers | user programs |
| User programs (`prog_user.c`) | lazily initialised ids | shell, ping, pong | - |
| Keyboard (`keyboard.c`) | modifier keys, ESC counter | decode, poll, interrupt handler | TTYs, process table |
| Interrupts (`interrupts.c`) | `irq_handlers`, PIC masks | register, dispatch, enable, disable, dismiss | timer, keyboard, system calls |
| VGA (`vga.c`) | position, colours, video memory | putc, printf, cursor, scrolling | tty_refresh, main |
| Bits, log (`bit_util.c`, `kernel.c`) | log level | - | keyboard, all |

What is hard here, and what would make each part correct:

- *Scheduling.* A process must be in exactly one place: run queue, sleep queue,
  one wait queue, or the CPU. Any handler may be the last one before
  `scheduler_run`, and may have destroyed, blocked or put to sleep the active
  process. The rotating loop of `scheduler_remove` and the sleep loop of
  `scheduler_timer` both count to a size that shrinks under them.
- *Table entries and pids.* Entries are reused, pids are not; queues hold pids,
  pointers hold entries, and both may outlive the process.
- *Hand-over.* An unlock or a post gives the mutex or the unit to a process
  that runs only later.
- *Ends.* CTRL+q ends whichever process is running, whatever it holds.
- *Buffers at their limits,* and TTYs switched with output pending.
- *Numbers.* A sleep time that is never 1, a cursor in the last column.
- *Programs that share ids without a lock.* `shell_mutex` and
  `pingpong_semaphores` are checked, created and stored in three steps, between
  which other processes run.
- *Results after a switch.* A result is written to the caller's `eax` only if it
  is still active; who sleeps or waits finds the number of the call there.
- *Devices.* The keyboard holds one byte and the interrupt controller one request
  per line; bytes come during the boot, which polls, and in the middle of
  handlers; modifiers are flags that must follow keys over many bytes.

`PROJECT.json` lists each hazard at its line with the properties that cover it.

## The modules

| Module | Models | Notes |
|---|---|---|
| `QueueOps` | `queue_in`, `queue_is_full` as operators on sequences | what all kernel modules use |
| `FifoQueue` | what `queue.c` promises: a bounded FIFO queue | abstract specification |
| `Queue` | the circular array of `queue.c` | implements `FifoQueue` |
| `Scheduler` | `scheduler.c` and the entry sequence (`phase`) | actions and operators, extended by `KProc` |
| `KProc` | `kproc.c`, the entries that create, end, block and wake processes | the core state machine |
| `SleepClock` | `KProc` and two observers of each sleeper | how long sleeps last |
| `KMutex` | `kmutex.c` over `KProc` | implements `KProc` |
| `KSem` | `ksem.c` and its wrappers over `KProc` | implements `KProc` |
| `UserMode` | a process in user mode: its place in its program, its `eax`, the way of results | extended by the next two |
| `Shells` | `prog_shell` over `KMutex` | the lazy creation of the mutexes and the locking of each command |
| `PingPong` | `prog_ping`, `prog_pong` over `KSem` | the lazy creation of the semaphores and the alternation |
| `RingBuf` | the calls of `ringbuf.c` that the kernel makes | implements a `FifoQueue` that can be flushed |
| `TtyIO` | `tty_input`, `tty_select`, `tty_refresh`, the io calls | buffers as bounded sequences |
| `Screen` | `tty_update` and `vga_putc`, with and without scrolling | against a text that scrolls |
| `Display` | `vga.c` and the loop of `tty_refresh` around `Screen`, the boot messages, the selection of a TTY, what the callbacks of `test.h` draw | |
| `Timer` | `timer.c`, the handler entry by entry | callbacks register and unregister in the middle of a pass |
| `Keyboard` | `keyboard_decode` and its helpers, the log level | operators and one action, extended by `Interrupts` |
| `Interrupts` | `interrupts.c`, the boot order of `main.c`, `keyboard_poll`; external: the PIC and the keyboard controller | composes the devices with the handlers |
| `MC*` | values of constants that a `.cfg` cannot write | `MCBuffers` also puts `Queue` and `RingBuf` side by side |
| `KProcProofs` | proofs about `KProc` and `SleepClock` | the lemmas on queues that the next two use |
| `KMutexProofs` | proofs about `KMutex` and `Shells` | |
| `KSemProofs` | proofs about `KSem` and `PingPong` | |
| `BufferProofs` | proofs about `Queue` and `RingBuf` | |
| `TtyProofs` | proofs about `TtyIO` | |
| `DisplayProofs` | proofs about `Screen` and `Display` | |
| `TimerProofs` | proofs about `Timer` | |
| `InterruptsProofs` | proofs about `Keyboard` and `Interrupts` | |

How state and actions correspond to the code:

- A field of `proc_t` is a function from table entries (`pid`, `state`,
  `cpu_time`, `sleep_time`); a `proc_t *` is the index of its entry or `NULL`. A
  queue is a sequence, which `Queue` justifies.
- A handler is one action from `phase = "user"` to `"sched"`, and `SchedulerRun`
  goes back to `"user"`. Only `scheduler_timer` takes several steps (phase
  `"timer"`, one per sleeper, `scan` is its loop counter). Nothing can come
  between them: the phases serialise the steps as the disabled interrupts do.
  `kernel_panic` is the phase `"panic"`.
- `OtherEntry` is any handler that leaves the processes alone (a character from
  the keyboard, most system calls): `scheduler_run` still follows.
- `Block` and `Unblock` in `KProc` say what a mutex or semaphore call may do to
  the processes; `KMutex` and `KSem` say which call does what. That they implement
  `KProc` (property `ImplementsKProc`) is checked and proved, and so is that
  `Shells` implements `KMutex` and `PingPong` implements `KSem`: what is proved of
  a lower module holds of the ones above it.
- Ids given out by `kmutex_init` and `ksem_init` are recorded in `handles`, and
  clients use only ids they hold. `Clients` says which kinds of clients a run
  has, and the initial state chooses one: `orderly` ones lock one mutex at a
  time and unlock it, as `prog_shell` does; `nesting` ones may hold several;
  `mortal` ones may end while they hold one; `wild` ones do as they like. For
  semaphores, `orderly` clients post only what they waited for.
- `free(mutex)` and `free(sem)` of an entry of a static table are modelled as
  leaving the entry as it is.
- In `Shells` and `PingPong` each C statement that reads or writes a shared id,
  and each system call, is a step of its own; `pc` is the next one. The steps
  are taken by the active process in user mode, and a tick (`Meanwhile`) may
  come between any two. A call is the action of `KMutex`, `KSem` or `KProc` and,
  with it, `Return`.
- In `Interrupts` the variable `at` says where the processor is: a step of
  `main`, user mode, a handler, or before the dismissal. Devices act at any
  moment. A key is one of a small set that covers the groups of keys
  `keyboard_decode` treats alike; a user strikes the keys of one set.
- In `Display` the boot writes to the display itself and a TTY is copied to it
  by a transcription of the loop, one `Position` for each of its rounds. The
  variables of `Screen` are the screen of the active TTY; `away` keeps those of
  the others, and `tty_select` swaps them. `test_spinner`, `test_timer` and
  `test_proc_list` are actions that draw over cells of the display: the process
  list over its header in the first row and any part of the rows below it
  (`Listings`), which is what the rows of processes, the row that blanks an
  ended one and the clearing of the screen once a second come to. Its text is
  not modelled. A tick runs `tty_refresh` before them, because it was registered
  first, so none of them draws while a refresh is due.
- In `Timer` the handler is at an `entry` of its loop, one step for each entry or
  two if it has a callback to run, and while the callback runs (`calling`) it
  may register and unregister other timers. A callback that unregisters its own
  timer is excluded: the handler goes on with the entry, whose repeat is then
  0, and frees it again (`src/timer.c:140`). No callback of the kernel
  unregisters any.
- `vars` named OBSERVER watch the program and never enable or change a step of
  it, but for the bounds.
- Definitions named `Mut...` are what a plausible bug would make of the
  definition after them. No specification uses them; they serve to show that
  each property can fail.

## The runs

| Configuration | Question | States |
|---|---|---|
| `Buffers` | Do the circular arrays of `queue.c` and `ringbuf.c` behave as FIFO queues? | 3 800 |
| `KProc` | Are table, queues, slices and order sound under every order of entries; do ready processes run and sleepers wake, and how late? | 281 000 |
| `SleepSkip` | Does every tick count for every sleeper? (no) | - |
| `KMutex` | Are mutexes sound whatever clients do; do nesting clients get mutual exclusion? | 1 300 000 |
| `KMutexDies` | Is the owner a process that holds the mutex? (not after it has ended) | - |
| `KSem` | Are semaphores sound whatever clients do; do orderly clients conserve units? | 1 600 000 |
| `Shells` | Does a shell own the mutex it is inside of, and does one that calls lock get in? | 78 000 |
| `PingPong` | Are units lost or doubled, does the play go on? | 54 000 |
| `TtyIO` | Does output reach its screen, in order and in the end; does the display follow? | 706 000 |
| `Display` | Does a screen show what was written to it, and the display the screen, while TTYs are selected and `test.h` draws over it? | 1 000 000 |
| `Timer` | Is the timer table sound, and does no periodic callback miss an interval, whatever callbacks register and unregister in a pass? | 527 000 |
| `Interrupts` | Does a byte get stuck, a modifier stick, a device go unheard, a shortcut act unasked? | 312 000 |

### Where the code and its comments disagree

`PROJECT.json` quotes each of these under "findings". Two are runs that find the
violation:

- `scheduler_timer` skips the sleepers at the end of the queue in a tick in
  which others wake (`SleepSkip`; `src/scheduler.c:42` against the comment in
  line 36). In the trace two sleepers have one tick left each; the first wakes,
  the loop ends because the queue has one entry now, and the second is neither
  decremented nor woken. `LatenessExplained` bounds the damage: a sleeper is late
  by at most one tick for each process that woke meanwhile, and is never early.
- A process that ends with a mutex stays its owner (`KMutexDies`;
  `kproc_destroy` against `include/kmutex.h:22`).

Four are properties that hold because they say what the code does, where a
comment says something else:

- *Scrolling of the display.* `include/vga.h:135` and `src/vga.c:268` say that text
  is scrolled up at the last line. `vga_init` disables scrolling and
  `vga_scrolling_enable` has no caller, so the display writes over its last line.
  `ShowsText` has both, the display without scrolling and the TTYs with it.
- *Backspace.* `include/vga.h:139` says that a space is printed; `src/vga.c:307`
  writes the character NUL, as the comment in `src/vga.c:272` says, and moves the
  character that was under the cursor. `ShowsText` expects NUL and excuses the
  text once a visible character has moved.
- *Intervals.* `include/timer.h:18` and `src/timer.c:42` say that the interval is
  the number of ticks before the callback is performed. `src/timer.c:131` runs it
  at the multiples of the interval since startup, so one that is registered
  between two of them runs earlier. `EveryIntervalRuns` allows one more run for
  such a timer, and none for the others. The kernel registers all its callbacks
  before the first tick, where the two readings agree.
- *ESC.* `README.md:23` of the repository says that ESC ends the program when
  pressed three times. `src/keyboard.c:424` counts codes, and a key that is
  kept down sends its code again, so one long press will do. `EffectMeant` has an
  observer for each: `esc_row` counts presses, `esc_repeats` the repeats.

`InsideOwns`, `ShellGetsIn` and `PlayGoesOn` are about programs that race when
they create their ids, and say under which condition that does no harm:

- Two shells that both find `shell_mutex` unset create a mutex each. Nothing
  goes wrong as long as the last store comes before the first load, because the
  id is read again for each call; the sleep of 4 to 16 seconds before the loop
  is what puts the loads after the stores. If a store is later than that
  (observer `late`), a shell may unlock a mutex that it does not own. The state
  is reached in the run, so the condition is not empty.
- Two players that both find a semaphore unset create it twice, and a process
  that has already loaded the first id waits on a semaphore that nobody posts.
  `PlayGoesOn` excludes only behaviours in which that happened. Units are
  conserved in all of them (`UnitsInPlay`).

Seen while modelling, but stated as no property:

- CTRL and ALT on the right send two bytes; the codes `0xE01D` and `0xE038` that
  the driver compares a byte with never match (`src/keyboard.c:227`, `:323`), so
  the right key sets and clears the flag of the left one, and with both down the
  first release switches the modifier off. `ModifiersFollow` allows for it.
- Between a read of the keyboard by `main` and the enabling of interrupts the
  request of that byte stays; the interrupt that follows finds no byte.
- `pic_irq_enable` of an IRQ of the second controller changes no bit that the
  controller has (`src/interrupts.c:145`); nothing calls it so.
- `vga_set_xy` accepts every position (`src/vga.c:150`), though its comment says
  that it stays in range; every caller passes one on the display.
- `test_timer` writes five digits from column 73 and so ends before the corner,
  until 100 000 seconds have passed.
- The range checks of the semaphore calls let the id `SEM_MAX` through
  (`src/ksyscall.c:458`). Clients of `KSem` use only ids they were given, so the
  model does not have that call.
- `io_read` flushes what did not fit into the reader's buffer
  (`src/ksyscall.c:277`); `TtyIO` has the flush, and no property is about input.
- The result of `proc_sleep`, of a lock or a wait that blocked is the number of
  the call (`src/ksyscall.c:176`); `UserMode` includes it, and no program looks.
- `proc_sleep(0)` sleeps for the range of an `int` instead of no time
  (`src/scheduler.c:57`; `KProc` includes it, `SleeperWakes` holds all the same).
- A post that nobody waits for returns -1 though it has counted
  (`src/ksem.c:205`).
- `ringbuf_read_mem` and `ringbuf_write_mem` disagree with the rest of
  `ringbuf.c` about empty buffers. Nothing in the kernel calls them, and they are
  not modelled.
- `io_write` returns the size asked for, not the number of bytes copied
  (`src/ksyscall.c:226`).
- A timer's repeat counts ticks, not intervals (`src/timer.c:135`; `Timer`
  includes it). The kernel only uses -1.

### Bounds, and why they are enough

`MaxPid`, `MaxCount`, `MaxChars`, `MaxTicks` and `MaxEarlyTicks` are bounds of the
checking, and in `Interrupts` a key is struck when the bytes of the last one have
left the keyboard; all other constants are the program's own, made small.

- Four table entries give an idle process and three users: one runs, one is in
  the middle of the run queue, one at its end, which is the least for a rotation
  to reorder anything. `MaxPid` lets entries be reused.
- A slice of two ticks has a tick at which it is not over and one at which it
  is. `IntMin` is -1 and `IntMax` 2, so a sleep time that goes below zero wraps
  within the run; in `SleepSkip` `IntMax` is 8.
- Sleeps of several lengths with three sleepers let one or two wake in a tick with
  another behind them, and let a skipped sleeper be skipped again.
- Two mutexes or semaphores with three clients: one owner and two waiters, and a
  second id to confuse with the first.
- Queues and ring buffers of four cells wrap at every fill level. The buffers of
  `TtyIO` hold two characters and are offered three, so that they overflow.
- `Shells` has two shells of one parity and a third process; shells of the other
  parity have a mutex of their own and only add ticks. `PingPong` has a pong and
  two pings. The pong is the first to run: a tick that interrupts the pings
  before their first instruction leads there from the order of `kproc_init`.
  Ticks during the creation of ids are bounded (`MaxEarlyTicks`): three for
  the shells, one for the players. One is enough to create an id twice, and the
  invariants also hold with five and with two (83 000 and 705 000 states), where
  liveness takes too long. Slices of one tick let any tick switch. After the
  creation ticks are not counted and come at any moment.
- Six users of three or four keys each: both keys of a modifier and a shortcut,
  the number pad, the locks, ESC with a key between.
- Two TTYs: TTY 0, which has the process list and no process that writes to it
  (`src/kproc.c:329` attaches to others), and one that has a process (`Busy`).
  A tick copies what one character makes of the screen; several characters of a
  tick are several ticks in the model. The process list has a header of one
  cell and writes half a row, or clears all rows.
- The screen of three lines of four columns has a tab that fits, one that does
  not, and a line that is neither the first nor the last. Two lines were too few:
  a backspace that leaves a line which shows something comes up only with a line
  above and one below it. The one printed character is the space, which the
  model tells from a cell that shows nothing. All other sizes and characters are
  the theorem's (`DisplayProofs`).
- Three timers with intervals 1, 2 and 3 and six ticks: they coincide and differ,
  and a callback has an entry before it and one behind it.

`CHECK_DEADLOCK` is turned off in `Interrupts` only, where `kernel_exit` really
stops the machine. The other models have no state without a next step, also
where a bound is reached.

### Fairness

`KProc` assumes weak fairness of the steps the kernel takes by itself (a
handler that was entered returns) and strong fairness of the tick: IRQ 0 has the
highest priority, and a tick that comes while the kernel runs is kept by the
PIC, so other entries cannot hold it off for ever. `Shells` and
`PingPong` add that a process that gets the CPU again and again does its next
step (strong fairness for each process): a tick leaves the process time for at
least one instruction in the end, because a tick lasts 10 ms. That holds also of
a shell that holds the mutex; no process is ended from outside in these runs.
`Interrupts` assumes that kernel and keyboard controller do not stop, that the
processor accepts a request it could accept again and again, and that handling a
tick takes less than a tick (`TicksLeaveTime`), without which the keyboard, whose
priority is lower, could be held off for ever. Users owe nothing: they need not
strike or release any key. `TtyIO` assumes weak fairness of the refresh, a
callback of the tick. The other runs check safety and assume no fairness.

## What is proved

TLAPS checks the theorems below for every value of the constants. Every
invariant that a run checks is among them, and so is every action property and
every refinement; the runs show each on a small instance first. `PROJECT.json`
lists them with what each one says.

| Module | Theorems about what the runs check | Further theorems |
|---|---|---|
| `KProcProofs` | `TypeCorrect`, `TableCorrect`, `PlacementCorrect`, `NeverPanics`, `SlicesCorrect`, `ServedInOrder`, `WaitIsBounded`, `SleepersKeepTime` | |
| `KMutexProofs` | `LocksCounted`, `MutexWaitersPlaced`, `MutexIdsSound`, `MutualExclusionHolds`, `MutexWaitersInOrder`, `MutexImplementsKProc`, `OwnersHold`, `ShellsInsideOwn` | `ShellsImplementKMutex`, `ShellCallsValid` |
| `KSemProofs` | `NoPostLost`, `SemWaitersPlaced`, `SemIdsSound`, `UnitsAreConserved`, `SemImplementsKProc`, `PlayConservesUnits` | `PlayersImplementKSem`, `PlayCallsValid` |
| `BufferProofs` | `IndicesSound`, `QueueRefinesFifo`, `RingRefinesFifo` | |
| `TtyProofs` | `OutputInOrder`, `DisplayFollows` | |
| `DisplayProofs` | `CursorStaysInside`, `ScreenShowsText`, `DisplayShowsScreen` | |
| `TimerProofs` | `TimerAllocator`, `NoIntervalMissed` | |
| `InterruptsProofs` | `NoModifierStuck`, `ShortcutsAreMeant`, `EveryByteHasItsInterrupt` | `EveryInterruptHasItsHandler` |

`OwnersHold` says `~HoldersDie => OwnerHolds`: `OwnerHolds` is what the run
`KMutexDies` refutes, so the theorem names the condition under which it is true.

*Assumptions.* The named `ASSUME`s of the modules. Those that a proof really
needs, and the code's values: `ProcMax <= QueueSize` (20 and 32), `MutexMax`,
`SemMax`, `TimersMax <= QueueSize` (each is one queue of ids); `Width > TabStop + 1`
(80 and 4); intervals of timers are not 0; the programs create no more mutexes and
semaphores than there are (`ShellAssumption`, `EnoughSems`). `Clients = {"wild"}` in
`Shells` and `PingPong` is no restriction: it says that the programs are under no
discipline but their own code. `MaxPid`, `MaxCount` and `MaxTicks` are bounds of
the checking that the proofs take as arbitrary numbers.

*`KProc`.* None of the five invariants is inductive alone; their conjunction `Inv`
is, and the theorem `Safety` proves it. That the run queue never overflows
(`NoPanic`) needs that it holds each process once (`Placement`) and that processes
have entries of their own (`TableSound`): then the queue and the process to be
added are distinct entries, of which there are no more than `ProcMax`, and
`ProcMax <= QueueSize` (lemma `Room`, an injection counted with the finite-set
theorems). That `scheduler_run` finds a process needs that what the run queue
holds is live, and that entry 0 is always the idle process. That each process
stays in one place needs, in turn, that adding never fails. There is one lemma
per action, and under it one step per conjunct. For the two action properties,
lemma `QueueStep` reduces every action to one of three things it does to the run
queue (stays, gets a new last one, loses its first one), and both properties
follow from those.

*`SleepClock`.* `ClockSound` is the loop of `scheduler_timer` seen in the middle
(`Walked`): some number `w` of sleepers woke in this tick, those not yet visited
are the first `Len(sleep_queue) + w - scan` of the queue, and each is late by at
most what woke before. Numbers are taken modulo the range of an `int`.

*`KMutex`, `Shells`.* `MutexInv` adds to `Inv` that a lock count is its owner and
its queue, that wait queues and states agree, and for disciplined clients where
each one that has called lock is (`ClientsSound`, `OwnersSound`). A call is a step
of `KProc` because a wait queue has room for every other process (`RoomToWait`)
and what it gives out is a process that waits (`WakeFacts`); the refinement
carries `Inv` over, and the rest is shown for the mutexes alone. `ShellInv` says
which ids are stored, loaded and in use, and who owns what once no id changes any
more (`Settled`).

*`KSem`, `PingPong`.* `SemInv` is built as `MutexInv` is; `UnitsSound` counts units
by the wait queues and not by the states, which `HoldersAreServed` shows to be the
same. `PlayInv` adds which ids are stored and loaded, that a process which waits is
one that called `sem_wait` and has gone no further, that as many creations are
past as there are semaphores (so `sem_init` never fails), and the count of units.
Units are counted as a set of pairs of a semaphore and a number (`Spare`), which
gains or loses one element in a step: a sum by recursion could not be reasoned
about.

*`Queue`, `RingBuf`.* The refinement maps the array to the sequence of the `size`
cells from `head` round the array. Insertion and removal are shown to be `Append`
and `Tail` of that sequence, with the arithmetic of going round the array in
lemmas about `Wrap`; a flush is shown to be the empty sequence, whatever
`ringbuf_read` has left in the cells.

*`TtyIO`.* `ShownInOrder` is nearly inductive; lemmas about sequences of numbered
characters say that what is cut off a buffer and what is put on the screen join.

*`Screen`, `Display`.* `DisplayInv` relates the buffer, the cursor and the text
line by line (`Faithful`), for the active TTY and for those that are not shown
(`TtysSound`); most of the proof is arithmetic on rows and columns. An earlier
version of `ShowsText` was false when a backspace left a line that shows
something, which a run with two lines cannot reach. The property now excuses the
text after such a backspace (`BackspaceMangles`), and the run has three lines. The
loop of `tty_refresh` is a recursive function, and induction is replaced by a
least counterexample (`LeastElement`), which needs no operator as a parameter.
`DisplayShows` then needs only that each callback draws inside the cells it is
excused for.

*`Timer`.* `TimerInv` says that the table, the allocator and the counts of runs
agree, at every entry of the handler's loop and in the middle of a callback:
`Seen` is the last tick for which the loop has been at an entry, so it is behind
by one for the entries that the pass has not reached. The counts follow from
the multiples of an interval among the ticks.

*`Interrupts`.* `DeviceInv` follows a byte from the key to the decoder: what the
wire, the port and the prefix can be together (`WireSound`, `PortSound`), which
flags the keys that are down allow (`KeyboardSound`), that a byte in the port has
a request, a poll or a handler to come (`NoByteStuck`), and which handlers and
masks the boot has set at each step (`DispatchSound`).

*Only model-checked:* `ReadyRuns`, `SleeperWakes`, `ShellGetsIn`, `PlayGoesOn`,
`OutputShown` and `DevicesServed`. They are liveness properties under fairness,
which the prover does not reach.

## What is not modelled

- The results of io calls and of those that only read (`sys_get_time` and the
  like); stack addresses, where each trap frame is in the region of the next
  entry and that of the last outside `proc_stack` (`src/kproc.c:142`);
  `bit_util.c`, of which only `bit_test` has a caller.
- `vga_setc`, the hardware cursor, the screen of `kernel_exit`.
- `pic_irq_disable`, `pic_irq_enabled` and `interrupts_disable`, which have no
  caller; the second interrupt controller, whose lines have no handler; spurious
  interrupts, which no code of the repository handles.
- `ringbuf_write_mem` and `ringbuf_read_mem`, which have no caller.
- Names, colours, `run_time` and the text of the process list of `test.h`, which
  nothing reads but a person. Logging. The register saving in `context.S`.
- A process that destroys an id twice, or uses one it does not hold, a timer
  unregistered twice or by its own callback, or one with interval 0, by which the handler divides
  (`src/timer.c:130`): no code of the repository does it.
- What CTRL+n and CTRL+q do when struck before interrupts are enabled:
  `Interrupts` has the keys, and CTRL+n adds a process as it does later.
- Destruction of mutexes and semaphores by the programs, which none does; `KMutex`
  and `KSem` have it for arbitrary clients.

## Plan

Every safety property that a run checks is proved. What is left:

1. *Composition.* `TtyIO` over the abstract queue of `RingBuf` for several
   processes of one TTY; tick, scheduler and TTY refresh through `Timer`. With
   them the refinements that `BufferProofs` and `TimerProofs` prove apart would be
   used together.
2. *Programs that end.* `Shells` with CTRL+q, which `KMutexDies` shows to leave a
   mutex locked; the condition under which the other shells still get in.
3. *Proofs.* Variants of the safety that liveness rests on, where a measure can
   be stated as an action property, as `WaitIsBounded` is for `ReadyRuns`.
