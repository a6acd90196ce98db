# A TLA+ verification project for MBSD

MBSD is an OpenBSD kernel tree for the GL-MT3000 (MediaTek MT7981) router,
with a build, backup and governance pipeline of its own around it. This
directory holds TLA+ models of its concurrent core (sleep queues, signals,
mutexes, the kernel lock, reader/writer locks, futexes, task queues, timeouts,
SRP and SMR) and of its release pipeline, the
TLC configurations that check them, and machine-checked proofs of nearly every
safety property that the runs check. `PROJECT.json` lists the components, the
runs, the lines each definition stands for, the hazards and the theorems.

## 1. Inventory

| Component | State | Operations | Works with |
|---|---|---|---|
| Sleep queues (`kern_synch.c`, `sched_bsd.c`) | `slpque`, `p_wchan`, `p_stat`, `P_INSCHED`, `P_SINTR`, `P_TIMEOUT*` | `sleep_setup`, `sleep_finish`, `wakeup_n`, `wakeup_proc`, `unsleep`, `endtsleep`, `setrunnable` | everything that blocks; signals and the clock take threads off the queues |
| Signals and job control (`kern_sig.c`) | `p_siglist`, `ps_siglist`, `P_SUSPSIG` | `ptsignal`, `cursig`, `process_stop`, `process_continue`, `userret` | ends or stops sleeps; called from `sleep_finish` |
| Reader/writer locks (`kern_rwlock.c`) | `rwl_owner`, `rwl_waiters`, `rwl_readers` | `rw_enter` (read, write, downgrade, upgrade; `RW_NOSLEEP`, `RW_INTR`), `rw_exit` | two sleep channels per lock |
| Futexes (`sys_futex.c`) | hashed `futex_slpque`s, `struct futex` on the waiter's stack | `FUTEX_WAIT`, `FUTEX_WAKE`, `FUTEX_REQUEUE` | sleep queues, slpque locks, user memory |
| Task queues (`kern_task.c`) | worklist, `TASK_ONQUEUE`, `tq_running`, barrier counters | `taskq_create`, `task_add`, `task_del`, `taskq_barrier`, `taskq_del_barrier`, `taskq_destroy`, the worker threads | `tq_mtx`, sleep channels, `kthread_create` |
| Timeouts (`kern_timeout.c`, `kern_clock.c`, `kern_tc.c`) | two wheels, four queues, `ticks`, `kc_lastscan`, `tctx_running` | `timeout_add`, `timeout_abs_ts`, `timeout_del`, `timeout_barrier`, `hardclock`, `softclock`, the softclock threads, `timeout_adjust_ticks` | drive `endtsleep`, `srp_v_gc`, the smr thread |
| Mutexes (`kern_lock.c`) | `mtx_owner` with its parked bit, `mtx_oldipl`, parking lots | `mtx_enter`, `mtx_enter_try`, `mtx_leave` | `SCHED_LOCK`, `ps_mtx`, `tq_mtx`, `timeout_mutex`, `smr_lock` |
| Kernel lock (`kern_lock.c`) | `mpl_users`, `mpl_ticket`, a depth and a ticket per CPU | `__mp_lock`, `__mp_unlock`, `__mp_release_all`, `__mp_acquire_count` | interrupts, `mi_switch` |
| Producer/consumer locks (`kern_lock.c`) | `pcl_gen` | `pc_sprod_*`, `pc_mprod_*`, `pc_cons_*` | CPU time accounting |
| SRP (`kern_srp.c`) | the pointer, hazard records per CPU, `srp_gc_refcnt` | `srp_enter`, `srp_follow`, `srp_leave`, `srp_update`, `srp_finalize`, `srp_v_gc` | timeouts; memory order |
| SMR (`kern_smr.c`) | lists of entries, `smr_grace_period`, `spc_smrgp` | `smr_read_*`, `smr_call`, `smr_barrier`, `smr_dispatch`, `smr_idle`, `smr_thread` | `mi_switch`, the idle loop, interrupts |
| Release pipeline (`Makefile`, `scripts/*.sh`) | files under `build/`, `release/`, `backups/`, `audits/evidence/` | `make build-image`, `quantize`, `release`, `clean`, `evidence`, `halt-on-critical`; the Factory backup | only through the files they leave |
| Law-Core (`bin/law-core`) | its verdict file | the clauses CP-2, CP-3, CP-5, CP-9 | reads what the pipeline wrote |
| Intent validation (`validate_intent.sh`, `make validate-intent`) | none | two validators of `docs/intent.json` | gate of `halt-on-critical` |
| MT7981 drivers (`sys/dev/fdt`) | attach-time only | attach | not modelled: no data path yet |
| Kernel build and flashing (`docker/`, `wsl_build.sh`) | none | calls of external tools | not modelled |
| Everything else imported from OpenBSD | | | not modelled: MBSD does not change it |

What is hard here, and which property is about it:

* **Between deciding to sleep and sleeping.** A thread queues itself, looks at
  its condition, and only then takes `SCHED_LOCK` to switch away. Wakeups,
  signals and the timeout may come at each point between
  (`NoLostWakeup`, `SignalEndsSleep`, `NoPanic`, `QueueMatchesWchan`).
* **Cancelling a timeout that is running** (`TimeoutHandshake`).
* **Two counters and a word without a lock around them.** `rw_exit` clears the
  word and reads the counters, a waiter counts itself and reads the word
  (`WaitCounters`, `NotStranded`, `CallsReturn`).
* **Objects on other threads' stacks.** A waiting futex lives on its thread's
  stack, a barrier's task on its caller's; a wake, a requeue, a timeout and a
  signal race for them (`FutexesListed`, `WakeOutranksError`, `OnQueueOnce`).
* **Two locks at once**, in the requeue (`NoLockCycle`).
* **Barriers that share one generation**, some of them run by the workers they
  wait for (`BarrierWaits`, `BarrierReturns`, `DelBarrierStops`).
* **A bit that says somebody waits.** A CPU that parks for a mutex sets it in
  a word that others take, leave and clear (`MtxExclusion`, `FreeIsTaken`,
  `IplRestored`).
* **Numbers that wrap**: tickets, generations, `ticks`, grace periods
  (`TicketsServed`, `Snapshot`, `NotLate`, `HeldIsLive`).
* **Deleting what is running**, and waiting for it with a barrier on one's own
  stack (`RunHasEnded`, `Linked`, `NoneForgotten`).
* **Freeing what somebody may read** who holds no lock (`UsedIsLive`,
  `HeldIsLive`), and not forgetting to free it (`RetiredOnce`,
  `NoEntryLingers`).
* **Steps that are cut short**: the pipeline has no transactions, and the next
  command finds what the last one left (`ReleaseIsCoherent`,
  `OnlyPinnedTree`, `CiGate`).

`PROJECT.json` lists the hazards line by line.

## 2. The modules

```
Queues --+-- SleepQueue --+-- KernSynch ---- MCKernSynch --+
         |                |   Mutex -----------------------+-- MCSynch
         |                |   MpLock ----------------------+
         |                |   PcLock ----------------------+
         |                +-- RwLock ------- MCRwLock
         |                |     +-- INSTANCE RwLockSpec
         |                +-- Futex -------- MCFutex
         +-- Timeout -------- MCTimeout --+
             Srp -------------------------+-- MCDeferred
             Smr -------------------------+
TaskQ ----------------------- MCTaskQ
Intent --+------------------- MCIntent
         +-- ReleasePipeline ---- MCReleasePipeline

Proofs (TLAPS):  Queues                        QueueProofs
                 SleepQueue                    SleepQueueProofs
                 KernSynch                     KernSynchProofs
                 Futex                         FutexProofs
                 RwLock, Mutex, MpLock, PcLock LockProofs
                 TaskQ                         TaskQProofs
                 Timeout, Srp, Smr             DeferredProofs
                 ReleasePipeline               ReleaseProofs
```

**Queues** has the linked lists as sequences: an element taken out of one, and a
part of one taken out in its order.

**SleepQueue** is the shared kernel of the concurrent models. A variable is a
field of the code (`slpque`, `p_wchan`, `p_stat`, `p_flag`, `p_siglist`,
`ps_siglist`); `sleep_to` is the state of `p_sleep_to` and of a running
`endtsleep`; `sf` holds the program counter and the locals of `sleep_finish`.
An action is one section under `SCHED_LOCK` or `ps_mtx`, or one atomic access.
`PANIC` is the state of a thread for which a `KASSERT` or `panic` of the code
fired. Signals are a caught one (`INTR`), `SIGSTOP` and `SIGCONT`; every
process has one thread, so single-threading never outlives a `ps_mtx` section.
`ptsignal` is one action: in the code it runs under `ps_mtx` and, where it
changes the thread, under `SCHED_LOCK`.

**KernSynch** adds `cond_init`, `cond_wait` and `cond_signal_handler`. The loop
of `cond_wait` is the one that the other sleepers of the kernel repeat, so it
is run in four modes (with or without `PCATCH`, with or without a timeout);
`cond_wait` itself is the mode with neither.

**RwLock** has one action per atomic access of `kern_rwlock.c`. The lock word
is a record, the owner or a reader count. **RwLockSpec** is what callers rely
on (hold for reading or writing, a writer alone, downgrade without a gap,
upgrade of an only reader); `Hold` is the refinement mapping.

**Futex** has one action per section under a slpque lock and one for each
access outside: the read of the user value, the read of `ft_proc`, the
sleep. A slpque lock is taken in a step of its own, since who holds what while
waiting for what is the point; that it excludes is what RwLock shows. A user
program is a store followed by `FUTEX_WAKE`.

**TaskQ** has one action per section under `tq_mtx`, with `msleep_nsec` (which
queues the thread before it lets go of the mutex) at its end, and one for each
access outside the mutex. `awaited` is a history variable: the workers that
ran a task function when a barrier began.

**Mutex** has one action per access of `mtx_owner` or of a waiter's `wait`, and
one per section under the lock of a parking lot, but for the one in
`mtx_leave`, which has two: other CPUs see the word cleared before the waiter
is released. A CPU enters mutexes in the order of their numbers, as the lock
order of the kernel has it.

**MpLock** keeps the calls of `__mp_lock` on each CPU as a stack, since an
interrupt may take the lock while the code below it still spins for it.
**PcLock** adds two words of data, read and written one at a time.

**Timeout** has one action per section under `timeout_mutex`. `softclock` and
the softclock threads keep the mutex from one turn of their loops to the next
and give it up for the function. Both wheels are sequences of timeouts with
the bucket of each, and the arithmetic of the buckets is that of the macros,
with the width of the wheel as a parameter (`WHEELSIZE`; an int has the
`WHEELSIZE^4` values that the four levels tell apart). `cond_wait` is a wait
for `signalled`, and the sleep of a softclock thread has the two points between
which KernSynch shows that no wakeup is lost. `awaits` is a history variable: the context that ran the
timeout when `timeout_del` was called.

**Srp** gives each CPU a buffer of stores that the others do not see yet,
because the order of a store and a load is what the algorithm rests on.
`ConsumerDrains` says whether `membar_consumer` empties it. Addresses of
destroyed values are used again.

**Smr** has one action per access of the grace periods. Readers are threads or
interrupts; the latter also come between two steps of `smr_idle`. The smr
thread moves from CPU to CPU with `mi_switch`, and so through `smr_idle`.

**Intent** and **ReleasePipeline**: a file is what it was made from (an image, a
backup, a verdict), `Absent`, `Torn` or `Empty`. A command of the operator is
a sequence of steps; `Abort` cuts any of them short and leaves the file it was
writing in part.

The MC modules define constants, and three do a little more. MCIntent
enumerates intents. MCFutex, MCRwLock and MCReleasePipeline choose at the start
of a behaviour who takes part (`scene`, `cast`, `work`), so that one run covers
several small instances. MCSynch and MCDeferred check modules that share no
variable: a behaviour is one of one of them, chosen at the start, and the
others stay in their initial state. Definitions named `Mut...` stand before the
definition they are a faulty version of; no specification uses them. They
document, for each property, a slip that the property catches.

Except in Srp memory is sequentially consistent: elsewhere the code puts its
`membar`s where the models need them, and weaker orders are not explored.

## 3. The runs

| Run | Instance | Shows |
|---|---|---|
| `synch` | one sleeping thread, four modes, one signal of each kind, two wakers | `NoPanic QueueMatchesWchan NoLostWakeup SignalEndsSleep TimeoutHandshake`, and `SignalledReturns` under fairness |
| | three CPUs on one mutex, or two on each of two mutexes in one lot | `MtxExclusion IplRestored`, and `FreeIsTaken` under fairness |
| | three CPUs, two levels of the kernel lock, four tickets | `TicketsServed` |
| | two producers (interlocked or not), one consumer, a lap of four writes | `Snapshot` |
| `synch_stops` | the sleeping thread with two `SIGSTOP`s | a finding (section 5) |
| `rwlock` | three threads without signals, or two with `RW_INTR` and signals | `MutualExclusion OwnerWord WaitCounters NotStranded`, the refinement of RwLockSpec, and `CallsReturn` under fairness |
| `rwlock_interrupted` | three threads with `RW_INTR` | a finding |
| `futex` | two waiters and a waker in four scenes | `FutexesListed NoLostWake WakeOutranksError NoLockCycle`, and `WaitEnds` under fairness |
| `taskq_safety` | two workers, two clients, two tasks, `kthread_create` may fail, destroy | `BarrierWaits DelBarrierStops OnQueueOnce DestroyDrains` |
| `taskq_live` | two workers, two clients, one task that may run barriers, destroy | `QueuedIsTaken BarrierReturns DestroyReturns` |
| `deferred` | timeouts: six workloads (below) | `Linked NotLate RunHasEnded NoneForgotten` |
| | SRP: a reader with two records, an updater, the gc, two pointers, two addresses | `UsedIsLive RetiredOnce` |
| | SMR: two CPUs, one reads, one writes, two objects, four periods | `HeldIsLive NoEntryLingers` |
| `timeout_lap` | one kclock timeout and a suspend of almost a lap | a finding |
| `srp_fence` | the SRP instance, `membar_consumer` without the drain | a finding |
| `release` | all building commands with two source versions; or backup, evidence, gate and clean with three intents, two sidecar sets and two partition contents | `ReleaseIsCoherent OnlyPinnedTree CiGate` |
| `intent_sh` | intents with at most one missing key, one bad field, two signatures | a finding |

Each module has one type invariant; it is the first conjunct of the invariant
that says most about the shape of the state (`QueueMatchesWchan`,
`MtxExclusion`, `TicketsServed`, `Snapshot`, `FutexesListed`, `OnQueueOnce`,
`Linked`, `RetiredOnce`, `HeldIsLive`, `OnlyPinnedTree`). The one of RwLock is
proved.

### Bounds

* `MaxSignal` (one of each kind) and `MaxWakers` (two) in `synch`. The state of
  a thread is its own: channels are per thread, so a second thread adds only a
  product. One signal of each kind meets every point of the sleep; two wakers
  let a late `wakeup_one` of an earlier wait meet the next one. A second
  `SIGSTOP` is left to `synch_stops`, where it breaks an assertion; `NoPanic`
  is therefore a statement about at most one.
* Three threads in RwLock: a holder, a waiter that is woken, and a third that
  enters between the wakeup and its use, or waits behind it. Counters are
  unbounded in the model; three threads bound them.
* Two waiters and one waker in Futex: a requeue needs one waiter to wake and
  one to move. The fsq_ids run against the order of the addresses, so that the
  lock order is not the order of the arguments. `Value` has two values where
  the comparison matters; the scenes keep the cases apart.
* Two workers and two clients in TaskQ: two barriers that overlap, with one
  worker held and one busy. `MaxGen = 2` in `taskq_safety` lets a barrier of
  the next generation begin while threads of the last one have not yet run;
  `taskq_live` has the barriers of one generation, any number of them at once.
  In these instances clients add tasks; task functions only run barriers.
* `MaxSrc = 2` in the pipeline: an old and a new image. `Contents` (what a read
  of the Factory partition returns) has two values where passes may differ.
* Three CPUs in Mutex: one that holds, one that is parked, and one that slips
  in; with two mutexes in a lot, the CPU that uses both and one of each.
  `MaxSpins = 1` stands for 40: what matters is that a CPU gives up spinning.
* `Tickets = 4` (2^32 in the code) and three CPUs in MpLock: as many tickets as
  can be out at once, and one more. `MaxDepth = 2` nests once. `Lap = 4` in
  PcLock: a lap of four writes, of which a consumer may meet three (2^31 in the
  code).
* `WHEELSIZE = 4` in Timeout: four levels of four buckets, `ticks` of eight
  bits. The workloads: `Race` and its two variants, few ticks with timeouts in
  all contexts and one or two callers, beginning just before `ticks` wraps;
  `Wheel`, one timeout at the borders of each level and at the largest
  distance, through the wrap; `Uptime`, a kclock timeout that may be moved, with
  clock steps below and above a lap; `Suspend`, both kinds over a step of the
  clock. Steps of almost a lap are left to `timeout_lap`.
* Two pointers and two addresses in Srp: `srp_follow` from one to the other,
  and an address that is destroyed and published again. Two CPUs in Smr: one
  the smr thread is on and one it has to visit, either of them reading.
* Symmetry is used for threads in `rwlock_interrupted` and for workers in
  `taskq_safety`, where no property singles one out; never in a run with a
  liveness property.

### Deadlock

Deadlock is checked except where the system may stop: in `synch_stops` once the
bounded signals are used up and the thread is left stopped (in `synch` that
state may stutter instead), in TaskQ once the queue is destroyed, in
`timeout_lap` and in the timeouts of `deferred` once the clock has reached its
bound.

### Fairness

The scheduler runs a runnable thread in the end and the clock interrupts, so
the steps of a thread that was started and of its timeout are weakly fair. A
`cond_signal_handler` that has stored gets to its `wakeup_one`. A CPU goes on
spinning, and leaves a mutex that it is in. A holder of an
rwlock leaves it (the exits are among the fair actions of RwLock). Task
functions return: `JobDone` is strongly fair, since a function that keeps
making calls is only now and then at a point where it can return. Nobody is
obliged to call anything, to send a signal or to wake anybody.

## 4. What is proved

TLAPS checks the theorems below for every value of the constants; TLC checks
the same properties on the instances of section 3. Each proof has the same
form: an inductive invariant that is the property and what its step needs, one
lemma per action (or per kind of action), and a last step in temporal logic.
The inductive invariants were run through TLC before they were proved.

| Module | Theorem | States | Assumes |
|---|---|---|---|
| LockProofs | `LockInvariant LockExcludes LockWordCorrect CountersCorrect` | `MutualExclusion`, `OwnerWord`, `WaitCounters` | `Thread` is finite; flags and signals are those that exist |
| | `LockRefines` | RwLock implements RwLockSpec | the same |
| | `NobodyStranded` | `NotStranded` | the same, and no caller passes `RW_INTR` |
| | `MtxExcludes` | `MtxExclusion` | mutexes have numbers (the lock order), a lot each |
| | `LevelRestored` | `IplRestored` | the same |
| | `LockServes` | `TicketsServed` | finitely many CPUs, fewer than tickets |
| | `ConsumerSnapshot` | `Snapshot` | producers are no consumers; a lap has two writes or more |
| KernSynchProofs | `SynchInvariant QueuesMatch WakeupsArrive SignalsEndSleep TimeoutsHandshake` | `QueueMatchesWchan`, `NoLostWakeup`, `SignalEndsSleep`, `TimeoutHandshake` | a channel per thread |
| | `OnlyStopPanics` | `NoPanic` | the same, and in all states `SelfStopAssertion` |
| | `OneStopNoPanic` | `NoPanic` | the same, and at most one `SIGSTOP` |
| FutexProofs | `FutexInvariant FutexesOnLists WakeBeatsError LocksDoNotCycle` | `FutexesListed`, `WakeOutranksError`, `NoLockCycle` | finitely many threads; addresses hash to slpques with numbers |
| | `NoWakeIsLost` | `NoLostWake` | the same, and `WakesReachAll`, `RequeuesEnd` |
| TaskQProofs | `BarriersWait DelStops QueuedOnce DestroyedDrained` | `BarrierWaits`, `DelBarrierStops`, `OnQueueOnce`, `DestroyDrains` | finitely many threads; threads, tasks, `NULL` and the creator are different things |
| DeferredProofs | `ValuesRetiredOnce` | `RetiredOnce` | finitely many readers and values, two records or more per CPU |
| | `UsedValuesLive` | `UsedIsLive` | the same, and `ConsumerDrains` |
| | `ReadersKeep EntriesDispatched` | `HeldIsLive`, `NoEntryLingers` | finitely many CPUs, two periods or more |
| | `TmoInvariant TimeoutsLinked RunsHaveEnded` | `Linked`, `RunHasEnded` | timeouts, callers and contexts are different things; the wheel's size is even |
| | `NobodyForgotten` | `NoneForgotten` | the same, and in all states `BarriersDue` |
| | `NobodyForgottenShort` | `NoneForgotten` | the same, and `ShortWorkloads` in its place |
| | `TimeoutsInTime` | `NotLate` | the wheel's size is even; in all steps `NoLapTick` |
| | `TimeoutsInTimeSteady` | `NotLate` | the same, and `SteadyWorkloads` in its place |
| ReleaseProofs | `TreeIsPinned ReleaseCoherent GateHolds` | `OnlyPinnedTree`, `ReleaseIsCoherent`, `CiGate` | one source version or more; `Absent` is no tree |

All assumptions are named `ASSUME`s of the modules that declare the constants,
and TLC evaluates them in every run. The widths that the code fixes (2^32
tickets, a lap of 2^31 writes, 256 grace periods) are constants, so the proofs
cover both the small numbers of the runs and the code's own.

Conditions that are not `ASSUME`s are hypotheses of their theorem: they are
either what the code's own assertion says (`SelfStopAssertion`), what callers
have to do for the property to make sense (`WakesReachAll`, `RequeuesEnd`), or
exclude a case that a violation run shows to be a real exception (`RW_INTR`, two
stops, `NoLapTick`).

**Queues.** QueueProofs has what the other proofs cite: a queue without one of
its elements has the others, once if they were there once; a part of a queue
has the elements at its indices; what appending adds.

**Sleep queues.** SleepQueueProofs is about one thread at a time (`SleepGood`):
where it is in `sleep_finish` fixes which of `p_stat`, `P_INSCHED`, `P_SINTR`,
`P_TIMEOUT`, `P_TIMEOUTRAN`, `p_sleep_to` and the queue of its channel go
together, and each section under `SCHED_LOCK` or `ps_mtx` moves from one such
row to another and leaves the other threads alone (`Others`). It is stated for
the module and used by KernSynch and Futex. For KernSynch it takes two more
parts: where the thread is in `cond_wait` (`Located`), and that whoever has
decided to sleep still has its condition or somebody on the way to
`wakeup_one` (`Owed`), which is `NoLostWakeup` before the sleep has begun.
`NoPanic` is the one property that is not true in general. The proof shows why:
of all the checks of the code, only the one in `process_stop` is not implied by
the invariant (`OnlyStopPanics`), so any failure begins there. With one
`SIGSTOP` it holds too (`OneStopNoPanic`), because a thread that stops itself
has then consumed the only stop there was.

**Futexes.** `FutexInv` says where a futex is for each place of its thread in
`futex_wait`: on the list that its `ft_fsq` names while it waits and is not
woken, on none before and after (`Lists`), and which of the slpque locks a
thread holds at each place (`Locks`). The lock that excludes is needed for the
lists: `futex_unwait` takes the lock of the slpque it read, and looks again.
For `NoLockCycle`, if every holder waited for a second lock, take the one whose
first lock has the highest number: its second is higher and free, or held by
one with a higher first lock. `NoLostWake` has two conditions. A wake of fewer
threads than wait may choose another one, and a futex that is requeued to an
address from which it is requeued on may run ahead of the wake that looks for
it; under `WakesReachAll` and `RequeuesEnd` (which the calls of each of the
first three scenes of `futex` satisfy) the invariant is that for each thread
that waits on a changed value the one that changed it has not scanned yet.

**Reader/writer lock.** `MutualExclusion` is not inductive: a compare-and-swap
that finds the word 0 says nothing about who is inside unless the word counts
them. `OwnerWord` says it does: it names the only writer, or is the number of
readers. Its own step needs cardinalities: when one thread moves from one
program point to another, the number of threads in a set of points changes by
one at most (`CountMove`, specialised as `Move`). The two counters need the
same lemma, and are in the invariant because every action moves a thread
between the same program points. The actions fall into few kinds, each with a
lemma (`PureMove`, `TakeWrite`, `TakeRead`, `WaitersMove`, `ReadersMove`).
`StepMoves` says of each step which thread moves between which of the three
ways to hold the lock; `MoveRefines` turns such a move into a step of
RwLockSpec, using `OwnerWord` for the guards.

`NotStranded` speaks of sleepers and the proof of those on the way to help
them: when the lock is free, for every writer that is asleep or bound to sleep
somebody is between clearing the word and `wakeup_one`, or is a writer that is
awake and will try the word again; for a reader it may also be any writer that
waits, since that one leaves the lock through `rw_exited` in turn
(`WritersHelped`, `ReadersHelped`). A woken writer is the helper of the others,
and that is what `RW_INTR` breaks: it may leave with an error instead. The
theorem excludes it; `rwlock_interrupted` is the other half.

**Mutex.** The word of a mutex and the CPU that has it change in one access, so
`MtxExclusion` is close to inductive. What it needs is where a CPU can be with
which argument and which mutexes held. `IplRestored` needs more: the level
saved in a mutex is that of its holder, and the mutexes a CPU holds form a
chain, each with the level at which the one before was entered.

**Kernel lock and pc locks.** For `TicketsServed` the tickets that are out are
numbered from the one that is served (`Numbered`), and the numbering is shifted
when a ticket is given out or served; with fewer CPUs than tickets the shift
never makes two of them equal. `Levels` relates the depth of a CPU to its
stack of calls. `Snapshot` rests on `OneWriter` and `ConsumersBehind`: the
distance of a consumer's generation from the current one is twice the number
of writes since, modulo two laps, so an unchanged generation means no write
(or a whole lap of them, which the model's bound on `writes` leaves out).

**Task queue.** A barrier returns when `tq_bthreads` has reached
`tq_nthreads`. That nobody it waits for is left then is an argument about what
is counted (`Counts`): `tq_bthreads` is the number of held workers, these are
among the live ones, and `tq_running`, at most `tq_nthreads`, counts those; so
all live workers are held (`AllHeld`). Workers that a barrier waits for are
live and not held (`Awaits`). The end of a generation empties the set of held
workers because nobody's `gen` is ahead of `tq_bgen`. `Stopped` adds that a
deleted task with one adder stays off the list while the barrier runs, and
that whoever took it before is waited for. `Drains` follows the queue through
its destruction: as long as there is work and a thread was made, somebody
works on it. It holds for every `DestroyWhen`, so also where the creator is
still under way.

**SRP.** `RetiredOnce` is an account of where each replaced value is: with one
scan or on one timeout (`Lives`, `Counted`). `UsedIsLive` is the argument about
the store buffer. `Announced` says that a reader that has passed its barrier
shows its record, in memory or by what its buffer ends with; `Uses` says that a
value that was current at the second load is either still current, or is being
looked for by a scan that has not passed that record yet or has to come back.
Without `ConsumerDrains` the first of these is false, and `srp_fence` shows the
run in which the value is destroyed.

**SMR.** `Period` bounds the distance of each CPU's period from the global one,
`Holds` says that a reader that holds an object which is unlinked is on a CPU
that has not been seen in the new period, and `Dispatches`, `Pending` and
`Wakes` follow an entry from `smr_call` to the smr thread and the wakeup that
is owed to it.

**Timeouts.** `TmoInv` says that a timeout is on exactly one of the lists if
`TIMEOUT_ONQUEUE` is set and on none otherwise, and that a barrier, which is a
timeout on its caller's stack, is only on the lists of the context it is for,
or run by it, while its caller waits (`BarrierOK`). `RunHasEnded` follows: the
barrier is signalled by the context it waits for, which then runs something
else. `NoneForgotten` adds that the one who puts something on a thread's list
has the wakeup still ahead, or the thread looks at the list again (`Heard`),
and that a barrier is where somebody will get to it (`Sure`). The
second has a condition: softclock compares a barrier's time, the tick it was
called at, with `ticks` as a signed distance, so after 2^31 ticks it would go
back on the wheel. `BarriersDue` says this does not happen; `ShortWorkloads`
implies it by the arithmetic of a wrapping int (`Recent`): the distance is the
number of ticks since, as long as those are at most half of the range. The
workloads of `deferred` satisfy it.

`NotLate` needs to know which bucket of which level a timeout is in, for a
wheel of any size (`LateInv`). On the wheel of ticks it is the bucket of a tick
that is still to come, comes no later than the timeout's own and begins the
bucket (`TickOK`): at that tick all lower levels have come round, so
`TickBuckets` has the bucket. The step of the tick counter leaves that
distance one shorter, also where `ticks` wraps, since the buckets of a level
divide the range of an int (`MaskLaps`). On the uptime wheel it is the bucket of a
time after the last scan, above level 0 in a later bucket than the scan's
(`UpOK`). A scan covers all buckets from its last time to now (`ScanCovers`), and
leaves a level out only if now is in the same bucket of it (`ScanStops`). Both
need `NoLap`: a level whose width has not passed has not come round to the bucket
of the last scan. That is where the code is wrong (`timeout_lap`), and the proof
shows that nothing else is needed. `SteadyWorkloads` gives it to workloads
without suspends whose ticks come after at most 255 of the 256 buckets of a
level, or after all of them; with suspends it is a condition on the sum of
the steps since the last scan, which all behaviours of `deferred` satisfy and
the one of `timeout_lap` does not.

**Pipeline.** The invariants are per step: what the files are while a command
is at that step, wherever earlier commands were cut short.

### What stays with TLC

* Liveness (`SignalledReturns`, `CallsReturn`, `WaitEnds`, `QueuedIsTaken`,
  `BarrierReturns`, `DestroyReturns`, `FreeIsTaken`): TLAPS has no rules for
  fairness and `ENABLED`.
* `NotStranded` with `RW_INTR` and signals, for two threads (with three it is
  false); `NoLostWake` where a wake reaches fewer than may wait.
* The findings, which are counterexamples.

## 5. Findings

1. **A wakeup swallowed by an interrupted writer** (`kern_rwlock.c:307`, run
   `rwlock_interrupted`). A writer that enters with `RW_INTR`, is chosen by
   `wakeup_one` and finds a signal when it runs, returns the error without
   passing the wakeup on. Whoever waits behind it sleeps on a free lock until
   the next enter and exit.
2. **`process_stop`'s assertion** (`kern_sig.c:1602`, run `synch_stops`).
   `sleep_signal_check` decides to stop before it takes `ps_mtx`; a second
   `SIGSTOP` in between sets `P_SUSPSIG` first.
3. **`validate_intent.sh` rejects every intent** (line 207, run `intent_sh`):
   the minimum it computes starts from 0.

4. **A lap of the timeout wheel that is not noticed** (`kern_timeout.c:641`, run
   `timeout_lap`). If the clock was stepped by less than the width of a level,
   but by so much that the index came back to the bucket it started from, then
   `first == last`: one bucket is dumped and the scan ends. Timeouts that were
   due, for instance after a suspend of 511 seconds, stay on the wheel for up to
   another lap.
5. **A fence that does not order what it should** (`kern_srp.c:208`, run
   `srp_fence`). `srp_v` relies on `membar_consumer` between the store of the
   hazard record and the second load of the pointer. On amd64, arm64 and riscv64
   it orders loads only; the value can be destroyed before the record is seen.
   With a barrier that drains the stores (`ConsumerDrains = TRUE`, what arm and
   powerpc64 have) `UsedIsLive` holds, in `deferred`.

Met while modelling and in the models' transitions, with no property of their
own: a `SIGCONT` does not drop a stop that `cursig(deep)` moved to the thread;
`FUTEX_REQUEUE` with `n = 0` and `m > 0` wakes all waiters; a thread that
returns `EAGAIN` may have been counted as woken; `taskq_create_thread` may use a
queue that was destroyed while it was in `kthread_create`; a barrier of a queue
whose threads could not all be made never returns, nor does one called by the
last task of a queue that is destroyed; a process-context timeout that is moved
back while it is on `timeout_proc` runs at once; a consumer of a pc_lock that is
held up for 2^31 writes reads without noticing; `factory-check` accepts an empty
or stale checksum; a partly unpacked ImageBuilder is built in; `make release`
does not depend on the gate that should block it.

## 6. What is not modelled

* Signals beyond one caught signal, `SIGSTOP` and `SIGCONT`; masks, tracing,
  `SIGKILL`, processes with several threads.
* Run queues, priorities, preemption, the idle loop.
* Weak memory, except for the store buffers of Srp. The uniprocessor variants
  of `kern_lock.c`.
* Clocks other than the uptime clock (the code has no other), the conversions of
  the `timeout_add_*` functions, `smr_thread`'s log.
* CPUs that are taken offline, and hibernation.
* `rrw_*` locks, WITNESS and DDB code; `RWDIAG`'s timeouts.
* How `futex_addrs` derives a key from the map entry; page faults in
  `copyin32` beyond success and failure.
* `signify`, `curl`, `tar`, `ssh`, the ImageBuilder: external, each a step that
  succeeds, fails or is cut short. `--verify-owner` of `validate_intent.sh`.
* The text of reports and logs.

## 7. Plan

Done: the core (SleepQueue, KernSynch, RwLock), its two largest clients (Futex,
TaskQ), what it stands on (Mutex, MpLock, PcLock), what it leaves for later
(Timeout, Srp, Smr), the pipeline; proofs of the safety of all of them. Next:

1. *Abstract specifications*: a futex as a set of waiters per address with
   atomic wake and requeue, refined by Futex; a task queue as a bag of pending
   tasks with barriers, refined by TaskQ.
2. *More of the sleepers*: `sys___thrsleep`/`__thrwakeup` and `refcnt_finalize`
   as clients of SleepQueue; processes with two threads, with `PS_STOPPING` and
   single-threading, since that is where stops and sleeps meet most.
