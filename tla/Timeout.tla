------------------------------ MODULE Timeout ------------------------------
(***************************************************************************)
(* kern_timeout.c: the two hierarchical timing wheels, the queues of new,  *)
(* due and process-context timeouts, softclock and the softclock threads,  *)
(* and timeout_add, timeout_abs_ts, timeout_del and timeout_barrier. An    *)
(* action is a section under timeout_mutex; the loops that run functions   *)
(* keep the mutex between two of their steps.                              *)
(***************************************************************************)
EXTENDS Integers, Sequences, FiniteSets, Functions, Queues

CONSTANTS
    To,             \* the timeouts
    Flags,          \* of a timeout: its context, "si", "proc" or "proc_mp"
    Kclock,         \* of a timeout: "none" (ticks) or "uptime"
    Caller,         \* threads; each has a barrier on its stack
    NIL,
    WHEELSIZE,      \* 256 in the code; an int has WHEELSIZE^4 values
    Sub,            \* steps of the uptime clock in the time of a bucket
    Workloads       \* what callers and clock do, one of them per behaviour

VARIABLES
    load,           \* the workload (does not change)
    ticks,          \* the tick counter, an int
    uptime,         \* the uptime clock
    kc_lastscan,    \* uptime at the last scan of the wheel
    wheel,          \* timeouts on the two wheels, in the order of insertion
    bucket,         \* of a timeout: its bucket
    queue,          \* timeout_new, _todo, _proc and _proc_mp
    to_time,        \* of a timeout: ticks or uptime to run at
    to_flags,       \* of a timeout: which of ONQUEUE and TRIGGERED are set
    tctx_running,   \* of a context: what it runs
    timeout_mutex,  \* the context that keeps the mutex between steps
    softclock_si,   \* the softclock interrupt is scheduled
    tpc,            \* program counters of the contexts and the callers
    arg,            \* of a caller: the timeout of timeout_barrier
    signalled,      \* of a caller: its barrier has run
    awaits,         \* of a caller: the context whose run it is to wait for
    needs,          \* the threads that softclock is about to wake
    nap,            \* ticks that tc_setclock has yet to adjust
    adds            \* calls of timeout_add left

tmoVars == <<load, ticks, uptime, kc_lastscan, wheel, bucket, queue, to_time,
             to_flags, tctx_running, timeout_mutex, softclock_si, tpc, arg,
             signalled, awaits, needs, nap, adds>>
clockVars == <<load, ticks, uptime, kc_lastscan, nap>>
linkVars == <<wheel, bucket, queue>>
softVars == <<tctx_running, timeout_mutex, softclock_si, needs>>
callerVars == <<arg, signalled, awaits>>

\* The timeouts, and the barriers on the stacks of the callers.
AnyTo == To \cup Caller

Ctx == {"si", "proc", "proc_mp"}
ThreadCtx == {"proc", "proc_mp"}
Queue == {"new", "todo", "proc", "proc_mp"}
\* Where a context is, and where a caller is in timeout_del_barrier.
TmoPC == {"idle", "loop", "run", "signalled", "wake", "left", "setup", "asleep", "woken"}
         \cup {"barrier", "wait", "returned"}
\* tctx_todo of a context.
Todo(x) == IF x = "si" THEN "todo" ELSE x

\* A barrier has the flags of the timeout it is for, and no kclock.
Context(t) == IF t \in To THEN Flags[t] ELSE Flags[arg[t]]
Clock(t) == IF t \in To THEN Kclock[t] ELSE "none"

-----------------------------------------------------------------------------
(* Arithmetic of the wheels *)

\* The ticks in a bucket of a level: WHEELSIZE^level.
Span(level) == CASE level = 0 -> 1
                 [] level = 1 -> WHEELSIZE
                 [] level = 2 -> WHEELSIZE * WHEELSIZE
                 [] level = 3 -> WHEELSIZE * WHEELSIZE * WHEELSIZE
INT_MAX == (WHEELSIZE * Span(3)) \div 2 - 1
\* The int that has the low bits of n.
Int32(n) == ((n + INT_MAX + 1) % (2 * (INT_MAX + 1))) - INT_MAX - 1

ASSUME TimeoutAssumption ==
    /\ To \cap Caller = {} /\ NIL \notin AnyTo \cup Ctx /\ AnyTo \cap Ctx = {}
    /\ Flags \in [To -> Ctx] /\ Kclock \in [To -> {"none", "uptime"}]
    /\ WHEELSIZE \in Nat /\ WHEELSIZE > 1 /\ WHEELSIZE % 2 = 0
    /\ Sub \in Nat \ {0}
ASSUME WorkloadsAssumption ==
    \A w \in Workloads :
        /\ w.start \in -INT_MAX - 1 .. INT_MAX /\ w.adds \in Nat
        /\ w.steps \subseteq Nat /\ w.adjust \subseteq Nat
        /\ w.ticks \subseteq Nat /\ w.abs \subseteq Nat

MASKWHEEL(level, time) == (time \div Span(level)) % WHEELSIZE
\* On the wheel of the tick timeouts, at a positive distance rel of abs. (An
\* int that is shifted keeps its sign; masked, that is the same.)
BUCKET(rel, abs) ==
    LET level == IF rel <= Span(1) THEN 0 ELSE IF rel <= Span(2) THEN 1
                 ELSE IF rel <= Span(3) THEN 2 ELSE 3
    IN  <<"none", level, MASKWHEEL(level, abs)>>

\* timeout_maskwheel() and timeout_level_width.
timeout_maskwheel(level, abs) == MASKWHEEL(level, abs \div Sub)
timeout_level_width(level) == Sub * WHEELSIZE * Span(level)
timeout_bucket(abs) ==
    LET diff == abs - kc_lastscan
        fits == {l \in 0 .. 2 : diff < timeout_level_width(l)}
        level == IF fits = {} THEN 3
                 ELSE CHOOSE l \in fits : \A k \in fits : l <= k
    IN  <<"uptime", level, timeout_maskwheel(level, abs)>>

\* The buckets MOVEBUCKET empties at a tick: the one of level 0, and one of
\* the next level where the lower ones have come round.
TickLevel(l, t) ==
    IF \A k \in 0 .. l - 1 : MASKWHEEL(k, t) = 0 THEN <<<<"none", l, MASKWHEEL(l, t)>>>>
    ELSE <<>>

\* Stops one level early.
MutTickBuckets(t) == TickLevel(0, t) \o TickLevel(1, t) \o TickLevel(2, t)

TickBuckets(t) == TickLevel(0, t) \o TickLevel(1, t) \o TickLevel(2, t) \o TickLevel(3, t)

\* The buckets that timeout_hardclock_update empties on the other wheel: on
\* each level from the bucket of the last scan to the one of now, all of them
\* if at least the level's width has passed; the next level only if this one
\* has come round.
ScanAll(l, then, now) == now - then >= timeout_level_width(l)
ScanFirst(l, then) == timeout_maskwheel(l, then)
ScanLast(l, then, now) ==
    IF ScanAll(l, then, now) THEN (ScanFirst(l, then) - 1) % WHEELSIZE
    ELSE timeout_maskwheel(l, now)
ScanDone(l, then, now) ==
    ~ScanAll(l, then, now) /\ ScanFirst(l, then) <= ScanLast(l, then, now)
ScanLevel(l, then, now) ==
    IF \E k \in 0 .. l - 1 : ScanDone(k, then, now) THEN <<>>
    ELSE [i \in 1 .. ((ScanLast(l, then, now) - ScanFirst(l, then)) % WHEELSIZE) + 1 |->
             <<"uptime", l, (ScanFirst(l, then) + i - 1) % WHEELSIZE>>]
ScanBuckets(then, now) ==
    ScanLevel(0, then, now) \o ScanLevel(1, then, now)
    \o ScanLevel(2, then, now) \o ScanLevel(3, then, now)

-----------------------------------------------------------------------------
TmoInit ==
    /\ load \in Workloads
    /\ ticks = load.start
    /\ uptime = 0 /\ kc_lastscan = 0
    /\ wheel = <<>>
    /\ bucket = [t \in AnyTo |-> NIL]
    /\ queue = [q \in Queue |-> <<>>]
    /\ to_time = [t \in AnyTo |-> 0]
    /\ to_flags = [t \in AnyTo |-> {}]
    /\ tctx_running = [x \in Ctx |-> NIL]
    /\ timeout_mutex = NIL
    /\ softclock_si = FALSE
    /\ tpc = [x \in Ctx \cup Caller |-> IF x \in ThreadCtx THEN "asleep" ELSE "idle"]
    /\ arg = [c \in Caller |-> NIL]
    /\ signalled = [c \in Caller |-> FALSE]
    /\ awaits = [c \in Caller |-> NIL]
    /\ needs = {} /\ nap = 0
    /\ adds = load.adds

TmoAt(x, from) == tpc[x] = from
TmoGoto(x, to) == tpc' = [tpc EXCEPT ![x] = to]
Unlocked == timeout_mutex = NIL

\* CIRCQ_REMOVE, from whatever queue or wheel the timeout is on.
Unlink(t) ==
    /\ queue' = [q \in Queue |-> Without(queue[q], t)]
    /\ wheel' = Without(wheel, t)
    /\ bucket' = [bucket EXCEPT ![t] = NIL]

\* ... and CIRCQ_INSERT_TAIL on timeout_new.
MoveToNew(t) ==
    /\ queue' = [q \in Queue |-> IF q = "new" THEN Append(Without(queue[q], t), t)
                                 ELSE Without(queue[q], t)]
    /\ wheel' = Without(wheel, t)
    /\ bucket' = [bucket EXCEPT ![t] = NIL]

\* timeout_add() and timeout_abs_ts(): the new time, and the queue if the
\* timeout was not queued or is now due earlier than it was. A timeout that
\* is moved back stays where it is.
Schedule(t, time) ==
    LET sooner == IF Kclock[t] = "none"
                  THEN Int32(time - ticks) < Int32(to_time[t] - ticks)
                  ELSE time < to_time[t]
    IN  /\ to_time' = [to_time EXCEPT ![t] = time]
        /\ to_flags' = [to_flags EXCEPT ![t] = {"ONQUEUE"}]
        /\ IF "ONQUEUE" \notin to_flags[t] \/ sooner THEN MoveToNew(t)
           ELSE UNCHANGED <<queue, wheel, bucket>>

\* The times a workload asks for.
Times(t) ==
    IF Kclock[t] = "none" THEN {Int32(ticks + r) : r \in load.ticks}
    ELSE load.abs

\* Called by a thread, or by the timeout's own function.
timeout_add(c, t) ==
    /\ Unlocked /\ t \in load.timeouts /\ adds > 0
    /\ \/ c \in load.callers /\ TmoAt(c, "idle")
       \/ c \in Ctx /\ TmoAt(c, "run") /\ tctx_running[c] = t
    /\ \E time \in Times(t) : Schedule(t, time)
    /\ adds' = adds - 1
    /\ UNCHANGED <<clockVars, softVars, tpc, callerVars>>

\* timeout_del(), and the first half of timeout_del_barrier().
timeout_del(c, t) ==
    /\ Unlocked /\ TmoAt(c, "idle") /\ c \in load.callers /\ t \in load.deleted
    /\ to_flags' = [to_flags EXCEPT ![t] = {}]
    /\ IF "ONQUEUE" \in to_flags[t] THEN Unlink(t) ELSE UNCHANGED linkVars
    /\ arg' = [arg EXCEPT ![c] = t]
    /\ awaits' = [awaits EXCEPT ![c] =
                      IF tctx_running[Flags[t]] = t THEN Flags[t] ELSE NIL]
    /\ TmoGoto(c, "barrier")
    /\ UNCHANGED <<clockVars, to_time, softVars, signalled, adds>>

\* Looks for the timeout in the context of the soft interrupt only.
Muttimeout_barrier(c) ==
    /\ Unlocked /\ TmoAt(c, "barrier")
    /\ IF tctx_running["si"] # arg[c]
       THEN /\ TmoGoto(c, "returned")
            /\ UNCHANGED <<queue, to_time, to_flags, signalled, awaits>>
       ELSE /\ to_time' = [to_time EXCEPT ![c] = ticks]
            /\ to_flags' = [to_flags EXCEPT ![c] = {"ONQUEUE"}]
            /\ queue' = [queue EXCEPT !["todo"] = <<c>> \o @]
            /\ signalled' = [signalled EXCEPT ![c] = FALSE]
            /\ awaits' = [awaits EXCEPT ![c] = "si"]
            /\ TmoGoto(c, "wait")
    /\ UNCHANGED <<clockVars, wheel, bucket, softVars, arg, adds>>

\* timeout_barrier(): nothing to wait for unless the timeout is running; else
\* a barrier at the head of what its context has to do.
timeout_barrier(c) ==
    LET t == arg[c]  x == Flags[t] IN
    /\ Unlocked /\ TmoAt(c, "barrier")
    /\ IF tctx_running[x] # t
       THEN /\ TmoGoto(c, "returned")
            /\ UNCHANGED <<queue, to_time, to_flags, signalled, awaits>>
       ELSE /\ to_time' = [to_time EXCEPT ![c] = ticks]
            /\ to_flags' = [to_flags EXCEPT ![c] = {"ONQUEUE"}]
            /\ queue' = [queue EXCEPT ![Todo(x)] = <<c>> \o @]
            /\ signalled' = [signalled EXCEPT ![c] = FALSE]
            /\ awaits' = [awaits EXCEPT ![c] = x]
            /\ TmoGoto(c, "wait")
    /\ UNCHANGED <<clockVars, wheel, bucket, softVars, arg, adds>>

\* cond_wait() in timeout_barrier().
BarrierWait(c) ==
    /\ TmoAt(c, "wait") /\ signalled[c]
    /\ TmoGoto(c, "returned")
    /\ UNCHANGED <<clockVars, linkVars, to_time, to_flags, softVars, callerVars,
                   adds>>

\* The caller goes on; its stack, with the barrier, is used again.
Return(c) ==
    /\ TmoAt(c, "returned")
    /\ TmoGoto(c, "idle")
    /\ arg' = [arg EXCEPT ![c] = NIL]
    /\ awaits' = [awaits EXCEPT ![c] = NIL]
    /\ UNCHANGED <<clockVars, linkVars, to_time, to_flags, softVars, signalled,
                   adds>>

-----------------------------------------------------------------------------
(* The clock *)

\* CIRCQ_CONCAT of a sequence of buckets onto timeout_todo: what is on the
\* wheel at K, in the order of the buckets, and in a bucket of the insertion.
Dump(buckets) ==
    LET K == {i \in 1 .. Len(wheel) : \E k \in 1 .. Len(buckets) : buckets[k] = bucket[wheel[i]]}
        turn(i) == CHOOSE k \in 1 .. Len(buckets) : buckets[k] = bucket[wheel[i]]
        before(i, j) == turn(i) < turn(j) \/ (turn(i) = turn(j) /\ i < j)
    IN  /\ \E order \in Bijection(1 .. Cardinality(K), K) :
              /\ \A j, k \in DOMAIN order : j < k => before(order[j], order[k])
              /\ queue' = [queue EXCEPT !["todo"] = @ \o [k \in DOMAIN order |-> wheel[order[k]]]]
        /\ wheel' = Part(wheel, 1 .. Len(wheel) \ K)
        /\ bucket' = [t \in AnyTo |-> IF \E i \in K : wheel[i] = t THEN NIL ELSE bucket[t]]

\* hardclock(): the next tick, some time after the last one, and
\* timeout_hardclock_update().
hardclock ==
    /\ Unlocked
    /\ \E step \in load.steps :
          /\ uptime + step <= load.until
          /\ uptime' = uptime + step
          /\ Dump(TickBuckets(Int32(ticks + 1))
                  \o ScanBuckets(kc_lastscan, uptime + step))
    /\ ticks' = Int32(ticks + 1)
    /\ kc_lastscan' = uptime'
    /\ softclock_si' = (softclock_si \/ queue'["new"] # <<>> \/ queue'["todo"] # <<>>)
    /\ UNCHANGED <<load, nap, to_time, to_flags, tctx_running, timeout_mutex, needs,
                   tpc, callerVars, adds>>

\* tc_setclock(), after a suspend: the uptime clock is stepped first.
tc_setclock ==
    /\ nap = 0
    /\ \E adj \in load.adjust :
          /\ uptime + adj <= load.until
          /\ uptime' = uptime + adj
          /\ nap' = adj
    /\ UNCHANGED <<load, ticks, kc_lastscan, linkVars, to_time, to_flags, softVars,
                   tpc, callerVars, adds>>

AllBuckets == [i \in 1 .. 4 * WHEELSIZE |->
                  <<"none", (i - 1) \div WHEELSIZE, (i - 1) % WHEELSIZE>>]

\* Then timeout_adjust_ticks(): all tick timeouts of the wheel are to be
\* looked at again, and those that would be overdue are due now.
timeout_adjust_ticks ==
    /\ Unlocked /\ nap > 0
    /\ ticks' = Int32(ticks + nap)
    /\ to_time' = [t \in AnyTo |->
          IF t \in Elements(wheel) /\ Clock(t) = "none" /\ Int32(to_time[t] - ticks) < nap
          THEN ticks' ELSE to_time[t]]
    /\ Dump(AllBuckets)
    /\ nap' = 0
    /\ UNCHANGED <<load, uptime, kc_lastscan, to_flags, softVars, tpc, callerVars,
                   adds>>

-----------------------------------------------------------------------------
(* softclock and the softclock threads *)

softclock ==
    /\ softclock_si /\ TmoAt("si", "idle") /\ Unlocked
    /\ softclock_si' = FALSE
    /\ timeout_mutex' = "si"
    /\ queue' = [queue EXCEPT !["todo"] = @ \o queue["new"], !["new"] = <<>>]
    /\ TmoGoto("si", "loop")
    /\ UNCHANGED <<clockVars, wheel, bucket, to_time, to_flags, tctx_running, needs,
                   callerVars, adds>>

\* Leaves the timeout marked as queued.
Muttimeout_run(x, t) ==
    /\ to_flags' = [to_flags EXCEPT ![t] = @ \cup {"TRIGGERED"}]
    /\ tctx_running' = [tctx_running EXCEPT ![x] = t]
    /\ timeout_mutex' = NIL
    /\ TmoGoto(x, "run")

\* timeout_run() up to the call: the mutex is given up for the function.
timeout_run(x, t) ==
    /\ to_flags' = [to_flags EXCEPT ![t] = {"TRIGGERED"}]
    /\ tctx_running' = [tctx_running EXCEPT ![x] = t]
    /\ timeout_mutex' = NIL
    /\ TmoGoto(x, "run")

\* Ticks or time that the timeout has left, as softclock computes it.
Left(t) == IF Clock(t) = "none" THEN Int32(to_time[t] - ticks)
           ELSE to_time[t] - kc_lastscan

\* One turn of the loop: softclock_process_tick_timeout() or
\* softclock_process_kclock_timeout() for the first timeout of timeout_todo.
SoftclockNext ==
    LET t == Head(queue["todo"])
        rest == [queue EXCEPT !["todo"] = Tail(@)]
    IN  /\ TmoAt("si", "loop") /\ queue["todo"] # <<>>
        /\ \/ /\ Left(t) > 0
              /\ queue' = rest
              /\ wheel' = Append(wheel, t)
              /\ bucket' = [bucket EXCEPT ![t] =
                    IF Clock(t) = "none" THEN BUCKET(Left(t), to_time[t])
                    ELSE timeout_bucket(to_time[t])]
              /\ UNCHANGED <<to_flags, tctx_running, timeout_mutex, tpc>>
           \/ /\ Left(t) <= 0 /\ Context(t) \in ThreadCtx
              /\ queue' = [rest EXCEPT ![Context(t)] = Append(@, t)]
              /\ UNCHANGED <<wheel, bucket, to_flags, tctx_running, timeout_mutex,
                             tpc>>
           \/ /\ Left(t) <= 0 /\ Context(t) = "si"
              /\ queue' = rest
              /\ timeout_run("si", t)
              /\ UNCHANGED <<wheel, bucket>>
        /\ UNCHANGED <<clockVars, to_time, softclock_si, needs, callerVars, adds>>

\* The end of softclock(): which threads have something to do ...
SoftclockEnd ==
    /\ TmoAt("si", "loop") /\ queue["todo"] = <<>>
    /\ needs' = {x \in ThreadCtx : queue[x] # <<>>}
    /\ timeout_mutex' = NIL
    /\ TmoGoto("si", "wake")
    /\ UNCHANGED <<clockVars, linkVars, to_time, to_flags, tctx_running,
                   softclock_si, callerVars, adds>>

\* ... and, without the mutex, the wakeups.
SoftclockWake ==
    /\ TmoAt("si", "wake")
    /\ IF needs = {} THEN TmoGoto("si", "idle") /\ UNCHANGED needs
       ELSE \E x \in needs :
              /\ needs' = needs \ {x}
              /\ IF tpc[x] \in {"setup", "asleep"} THEN TmoGoto(x, "woken")
                 ELSE UNCHANGED tpc
    /\ UNCHANGED <<clockVars, linkVars, to_time, to_flags, tctx_running,
                   timeout_mutex, softclock_si, callerVars, adds>>

\* softclock_thread_run(): once on the sleep queue ...
ThreadSetup(x) ==
    /\ TmoAt(x, "left")
    /\ TmoGoto(x, "setup")
    /\ UNCHANGED <<clockVars, linkVars, to_time, to_flags, softVars, callerVars,
                   adds>>

\* Relies on the wakeup alone.
MutThreadSleep(x) ==
    /\ TmoAt(x, "setup")
    /\ TmoGoto(x, "asleep")
    /\ UNCHANGED <<clockVars, linkVars, to_time, to_flags, softVars, callerVars,
                   adds>>

\* ... it looks at its list without the mutex, and sleeps if that was empty.
\* (A wakeup that comes before sends it on.)
ThreadSleep(x) ==
    /\ TmoAt(x, "setup")
    /\ TmoGoto(x, IF queue[x] = <<>> THEN "asleep" ELSE "woken")
    /\ UNCHANGED <<clockVars, linkVars, to_time, to_flags, softVars, callerVars,
                   adds>>

ThreadEnter(x) ==
    /\ TmoAt(x, "woken") /\ Unlocked
    /\ timeout_mutex' = x
    /\ TmoGoto(x, "loop")
    /\ UNCHANGED <<clockVars, linkVars, to_time, to_flags, tctx_running,
                   softclock_si, needs, callerVars, adds>>

ThreadNext(x) ==
    /\ TmoAt(x, "loop") /\ queue[x] # <<>>
    /\ queue' = [queue EXCEPT ![x] = Tail(@)]
    /\ timeout_run(x, Head(queue[x]))
    /\ UNCHANGED <<clockVars, wheel, bucket, to_time, softclock_si, needs,
                   callerVars, adds>>

ThreadEnd(x) ==
    /\ TmoAt(x, "loop") /\ queue[x] = <<>>
    /\ timeout_mutex' = NIL
    /\ TmoGoto(x, "left")
    /\ UNCHANGED <<clockVars, linkVars, to_time, to_flags, tctx_running,
                   softclock_si, needs, callerVars, adds>>

\* The function of a barrier, cond_signal_handler(): the caller may go on.
BarrierSignal(x) ==
    /\ TmoAt(x, "run") /\ tctx_running[x] \in Caller
    /\ signalled' = [signalled EXCEPT ![tctx_running[x]] = TRUE]
    /\ TmoGoto(x, "signalled")
    /\ UNCHANGED <<clockVars, linkVars, to_time, to_flags, softVars, arg, awaits,
                   adds>>

\* The function returns, timeout_run() takes the mutex again.
RunDone(x) ==
    /\ Unlocked
    /\ \/ TmoAt(x, "signalled")
       \/ TmoAt(x, "run") /\ tctx_running[x] \in To
    /\ timeout_mutex' = x
    /\ tctx_running' = [tctx_running EXCEPT ![x] = NIL]
    /\ awaits' = [c \in Caller |-> IF awaits[c] = x THEN NIL ELSE awaits[c]]
    /\ TmoGoto(x, "loop")
    /\ UNCHANGED <<clockVars, linkVars, to_time, to_flags, softclock_si, needs, arg,
                   signalled, adds>>

-----------------------------------------------------------------------------
SoftclockStep == softclock \/ SoftclockNext \/ SoftclockEnd \/ SoftclockWake

ThreadStep(x) ==
    ThreadSetup(x) \/ ThreadSleep(x) \/ ThreadEnter(x) \/ ThreadNext(x) \/ ThreadEnd(x)

TmoNext ==
    \/ hardclock \/ tc_setclock \/ timeout_adjust_ticks \/ SoftclockStep
    \/ \E x \in ThreadCtx : ThreadStep(x)
    \/ \E x \in Ctx : BarrierSignal(x) \/ RunDone(x)
    \/ \E c \in Caller \cup Ctx, t \in To : timeout_add(c, t)
    \/ \E c \in Caller, t \in To : timeout_del(c, t)
    \/ \E c \in Caller : timeout_barrier(c) \/ BarrierWait(c) \/ Return(c)

TmoSpec == TmoInit /\ [][TmoNext]_tmoVars

-----------------------------------------------------------------------------
(* Properties *)

TmoTypeOK ==
    /\ load \in Workloads
    /\ ticks \in -INT_MAX - 1 .. INT_MAX
    /\ uptime \in Nat /\ kc_lastscan \in Nat /\ nap \in Nat /\ adds \in Nat
    /\ wheel \in Seq(AnyTo)
    /\ bucket \in [AnyTo -> {NIL} \cup ({"none", "uptime"} \X (0 .. 3) \X (0 .. WHEELSIZE - 1))]
    /\ queue \in [Queue -> Seq(AnyTo)]
    /\ to_time \in [AnyTo -> Int]
    /\ to_flags \in [AnyTo -> SUBSET {"ONQUEUE", "TRIGGERED"}]
    /\ tctx_running \in [Ctx -> AnyTo \cup {NIL}]
    /\ timeout_mutex \in Ctx \cup {NIL}
    /\ softclock_si \in BOOLEAN
    /\ tpc \in [Ctx \cup Caller -> TmoPC]
    /\ arg \in [Caller -> To \cup {NIL}]
    /\ signalled \in [Caller -> BOOLEAN]
    /\ awaits \in [Caller -> Ctx \cup {NIL}]
    /\ needs \subseteq ThreadCtx

List == Queue \cup {"wheel"}
OnList(t, l) == t \in Elements(IF l = "wheel" THEN wheel ELSE queue[l])

\* A timeout is on one of the queues and wheels, once, exactly if it is marked
\* ONQUEUE, whoever added, deleted, moved or ran it; and a barrier is on one
\* only while its caller, whose stack it is on, waits.
Linked ==
    /\ TmoTypeOK
    /\ NoDup(wheel) /\ \A q \in Queue : NoDup(queue[q])
    /\ \A t \in AnyTo :
          /\ "ONQUEUE" \in to_flags[t] => \E l \in List : OnList(t, l)
          /\ \A l \in List : OnList(t, l) =>
                /\ "ONQUEUE" \in to_flags[t]
                /\ \A m \in List \ {l} : ~OnList(t, m)
          /\ t \in Caller /\ "ONQUEUE" \in to_flags[t] => tpc[t] = "wait"

\* No timeout is left behind on a wheel once its time has come: the scan of
\* every tick has dumped its bucket, on all levels, through the wrap of ticks
\* and over steps of the clock (but for steps by almost a lap of a level).
NotLate == \A t \in Elements(wheel) : Left(t) > 0

\* When timeout_del_barrier returns, the run that was under way has ended.
RunHasEnded == \A c \in Caller : tpc[c] = "returned" => awaits[c] = NIL

\* Nobody is forgotten: a softclock thread never sleeps on a list with
\* something on it, unless softclock is about to wake it; and a caller that
\* waits in timeout_barrier is sure to be signalled, since its barrier has
\* run, runs, or is on the list of a context that is not yet done with it.
NoneForgotten ==
    /\ \A x \in ThreadCtx :
          tpc[x] = "asleep" /\ queue[x] # <<>> =>
              tpc["si"] \in {"loop", "run", "signalled"} \/ x \in needs
    /\ \A c \in Caller :
          tpc[c] = "wait" =>
              LET x == Flags[arg[c]] IN
              \/ signalled[c]
              \/ tctx_running[x] = c /\ tpc[x] = "run"
              \/ c \in Elements(queue[Todo(x)]) /\ tpc[x] \in {"loop", "run", "signalled"}
=============================================================================
