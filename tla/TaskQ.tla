-------------------------------- MODULE TaskQ --------------------------------
(***************************************************************************)
(* A task queue of sys/kern/kern_task.c: taskq_create and its deferred     *)
(* taskq_create_thread, taskq_thread, taskq_next_work, task_add, task_del, *)
(* taskq_barrier, taskq_del_barrier and taskq_destroy.                     *)
(*                                                                         *)
(* A section under tq_mtx is one action.  msleep_nsec releases tq_mtx with *)
(* the thread already on the sleep queue, so it is the end of an action;   *)
(* the sleeps have neither PCATCH nor a timeout and end with a wakeup (see *)
(* KernSynch for the sleep queue itself).  A task function may end, add a  *)
(* task or run a barrier.  Clients keep the contract of the interface: the *)
(* queue is destroyed once no client is inside it, and not used after.     *)
(***************************************************************************)
EXTENDS Integers, Sequences, SequencesExt, FiniteSets

CONSTANTS
    Worker,       \* the kernel threads kthread_create may make
    Client,       \* the threads that use the queue
    Creator,      \* the one that runs taskq_create_thread
    Task,         \* the tasks
    NULL,
    tq_nthreads,  \* how many threads the queue asked for
    Adders,       \* per task, who calls task_add for it
    InTask,       \* the tasks whose functions may call taskq_barrier
    MayFail,      \* may kthread_create fail?
    DestroyWhen,  \* where the creator may be when the queue is destroyed
    MaxGen        \* bound on tq_bgen: no barrier begins beyond it

Thread == Worker \cup Client

ASSUME TaskQAssumption ==
    /\ IsFiniteSet(Worker) /\ IsFiniteSet(Client) /\ Worker \cap Client = {}
    /\ Creator \notin Thread /\ Task \cap Thread = {} /\ NULL \notin Task \cup Thread
    /\ tq_nthreads \in 1..Cardinality(Worker)
    /\ Adders \in [Task -> SUBSET Thread]
    /\ InTask \subseteq Task
    /\ MayFail \in BOOLEAN
    /\ MaxGen \in Nat

VARIABLES
    tq_state,     \* "CREATED", "RUNNING", "DESTROYED"
    freed,        \* has the struct taskq been freed?
    tq_running,   \* the number of threads, counted before they are made
    tq_worklist,  \* the queued tasks; a barrier's task is named by its thread
    onqueue,      \* the tasks with TASK_ONQUEUE
    tq_threads,   \* the threads that take work
    tq_barriers,  \* the number of barriers under way
    tq_bgen,      \* the barrier generation
    tq_bthreads,  \* the number of threads that are held by the barriers
    sleepq,       \* per sleep channel, the sleeping threads, oldest first
    pc,           \* where a thread is
    job,          \* the task a worker runs
    gen,          \* the local `gen` of a barrier
    del,          \* the task of the task_add, task_del or taskq_del_barrier
    awaited       \* per barrier, the workers it still has to wait for

vars == <<tq_state, freed, tq_running, tq_worklist, onqueue, tq_threads,
          tq_barriers, tq_bgen, tq_bthreads, sleepq, pc, job, gen, del, awaited>>

Chan == {"tq", "tq_running", "tq_bthreads", "tq_bgen"}
BarrierPC == {"bar_enter", "bar_wait", "bar_gen", "bar_done"}
PC == {"idle", "add_lock", "add_wake", "del_lock", "delbar_lock",
       "destroy_wait"} \cup BarrierPC
      \cup {"none", "start", "next", "chain", "job", "bt_enter", "bt_wait",
            "exit", "exit_flags", "last_flags", "last_wake"}
      \cup {"deferred", "creating", "created", "failed", "done"}

TypeOK ==
    /\ tq_state \in {"CREATED", "RUNNING", "DESTROYED"}
    /\ freed \in BOOLEAN
    /\ tq_running \in 0..Cardinality(Worker)
    /\ tq_worklist \in Seq(Task \cup Thread)
    /\ onqueue \subseteq Task \cup Thread
    /\ tq_threads \subseteq Worker
    /\ tq_barriers \in 0..Cardinality(Thread)
    /\ tq_bgen \in Nat
    /\ tq_bthreads \in 0..tq_nthreads
    /\ sleepq \in [Chan -> Seq(Thread)]
    /\ pc \in [Thread \cup {Creator} -> PC]
    /\ job \in [Worker -> Task \cup Thread \cup {NULL}]
    /\ gen \in [Thread -> Nat]
    /\ del \in [Thread -> Task \cup {NULL}]
    /\ awaited \in [Thread -> SUBSET Worker]

\* taskq_create; kthread_create_deferred has queued taskq_create_thread.
Init ==
    /\ tq_state = "CREATED"
    /\ freed = FALSE
    /\ tq_running = 0
    /\ tq_worklist = <<>>
    /\ onqueue = {}
    /\ tq_threads = {}
    /\ tq_barriers = 0
    /\ tq_bgen = 0
    /\ tq_bthreads = 0
    /\ sleepq = [c \in Chan |-> <<>>]
    /\ pc = [t \in Thread \cup {Creator} |->
                IF t \in Worker THEN "none"
                ELSE IF t \in Client THEN "idle" ELSE "deferred"]
    /\ job = [w \in Worker |-> NULL]
    /\ gen = [t \in Thread |-> 0]
    /\ del = [t \in Thread |-> NULL]
    /\ awaited = [t \in Thread |-> {}]

-----------------------------------------------------------------------------
(* Sleeping (kern_synch.c, as this file uses it).                          *)

\* TAILQ_REMOVE of an entry that is queued.
Unqueue(q, x) == RemoveAt(q, CHOOSE i \in DOMAIN q : q[i] = x)
Asleep(t) == \E c \in Chan : \E i \in 1..Len(sleepq[c]) : sleepq[c][i] = t
WakeAll(sq, c) == [sq EXCEPT ![c] = <<>>]
WakeOne(sq, c) == [sq EXCEPT ![c] = IF @ = <<>> THEN @ ELSE Tail(@)]
SleepOn(sq, c, t) == [sq EXCEPT ![c] = Append(@, t)]

Goto(t, l) == pc' = [pc EXCEPT ![t] = l]
\* A thread at l that can run.
At(t, l) == pc[t] = l /\ ~Asleep(t)
\* Where the caller of the interface goes on: a client, or a task function.
Base(t) == IF t \in Worker THEN "job" ELSE "idle"
MayCall(t) == At(t, Base(t)) /\ (t \in Client => tq_state # "DESTROYED")

queueVars == <<tq_worklist, onqueue>>
barrierVars == <<tq_barriers, tq_bgen, tq_bthreads, gen, awaited>>
threadVars == <<tq_state, freed, tq_running, tq_threads>>

-----------------------------------------------------------------------------
(* taskq_create_thread                                                     *)

CreateThread ==
    /\ pc[Creator] = "deferred"
    /\ \/ /\ tq_state = "DESTROYED"
          /\ freed' = TRUE
          /\ Goto(Creator, "none")
          /\ UNCHANGED <<tq_state, tq_running>>
       \/ /\ tq_state = "CREATED"
          /\ tq_state' = "RUNNING"
          /\ tq_running' = tq_running + 1
          /\ Goto(Creator, "creating")
          /\ UNCHANGED freed
    /\ UNCHANGED <<tq_threads, queueVars, barrierVars, sleepq, job, del>>

\* kthread_create, without tq_mtx.
KthreadCreate ==
    /\ pc[Creator] = "creating"
    /\ \/ \E w \in Worker :
             /\ pc[w] = "none"
             /\ pc' = [pc EXCEPT ![w] = "start", ![Creator] = "created"]
       \/ /\ MayFail
          /\ Goto(Creator, "failed")
    /\ UNCHANGED <<threadVars, queueVars, barrierVars, sleepq, job, del>>

\* tq_mtx again: one more thread, or enough of them.
CreatedThread ==
    /\ pc[Creator] = "created"
    /\ IF tq_running < tq_nthreads
       THEN tq_running' = tq_running + 1 /\ Goto(Creator, "creating")
       ELSE UNCHANGED tq_running /\ Goto(Creator, "done")
    /\ UNCHANGED <<tq_state, freed, tq_threads, queueVars, barrierVars, sleepq,
                   job, del>>

\* kthread_create failed: a destroyer that waits for this thread is told.
\* (The creator ends at "none" when there is no thread at all.)
CreateFailed ==
    /\ pc[Creator] = "failed"
    /\ tq_running' = tq_running - 1
    /\ sleepq' = IF tq_state = "DESTROYED" /\ tq_running = 1
                 THEN WakeOne(sleepq, "tq_running") ELSE sleepq
    /\ Goto(Creator, IF tq_running = 1 THEN "none" ELSE "done")
    /\ UNCHANGED <<tq_state, freed, tq_threads, queueVars, barrierVars, job, del>>

-----------------------------------------------------------------------------
(* taskq_thread and taskq_next_work                                        *)

ThreadStart(w) ==
    /\ pc[w] = "start"
    /\ tq_threads' = tq_threads \cup {w}
    /\ Goto(w, "next")
    /\ UNCHANGED <<tq_state, freed, tq_running, queueVars, barrierVars, sleepq,
                   job, del>>

JobPC(x) == IF x \in Task THEN "job" ELSE "bt_enter"

\* Mutant: a destroyed queue's threads leave without draining it.
MutNextWorkDrain(w) ==
    /\ At(w, "next")
    /\ \/ /\ tq_state # "RUNNING"
          /\ Goto(w, "exit")
          /\ UNCHANGED <<queueVars, job, sleepq>>
       \/ /\ tq_worklist # <<>> /\ tq_state = "RUNNING"
          /\ tq_worklist' = Tail(tq_worklist)
          /\ onqueue' = onqueue \ {Head(tq_worklist)}
          /\ job' = [job EXCEPT ![w] = Head(tq_worklist)]
          /\ Goto(w, JobPC(Head(tq_worklist)))
          /\ UNCHANGED sleepq
       \/ /\ tq_worklist = <<>> /\ tq_state = "RUNNING"
          /\ sleepq' = SleepOn(sleepq, "tq", w)
          /\ UNCHANGED <<queueVars, job, pc>>
    /\ UNCHANGED <<threadVars, barrierVars, del>>

NextWork(w) ==
    /\ At(w, "next")
    /\ \/ /\ tq_worklist # <<>>
          /\ LET next == Head(tq_worklist)
                 rest == Tail(tq_worklist)
             IN  /\ tq_worklist' = rest
                 /\ onqueue' = onqueue \ {next}
                 /\ job' = [job EXCEPT ![w] = next]
                 /\ Goto(w, IF rest # <<>> /\ tq_nthreads > 1
                            THEN "chain" ELSE JobPC(next))
          /\ UNCHANGED sleepq
       \/ /\ tq_worklist = <<>> /\ tq_state # "RUNNING"
          /\ Goto(w, "exit")
          /\ UNCHANGED <<queueVars, job, sleepq>>
       \/ /\ tq_worklist = <<>> /\ tq_state = "RUNNING"
          /\ sleepq' = SleepOn(sleepq, "tq", w)
          /\ UNCHANGED <<queueVars, job, pc>>
    /\ UNCHANGED <<threadVars, barrierVars, del>>

\* There was more work: wake another thread, after tq_mtx.
WakeNext(w) ==
    /\ pc[w] = "chain"
    /\ sleepq' = WakeOne(sleepq, "tq")
    /\ Goto(w, JobPC(job[w]))
    /\ UNCHANGED <<threadVars, queueVars, barrierVars, job, del>>

\* The task function returns.
JobDone(w) ==
    /\ At(w, "job")
    /\ job' = [job EXCEPT ![w] = NULL]
    /\ awaited' = [t \in Thread |-> awaited[t] \ {w}]
    /\ Goto(w, "next")
    /\ UNCHANGED <<threadVars, queueVars, tq_barriers, tq_bgen, tq_bthreads,
                   gen, sleepq, del>>

\* Mutant: `last` is computed before the decrement.
MutThreadExit(w) ==
    /\ pc[w] = "exit"
    /\ tq_threads' = tq_threads \ {w}
    /\ tq_running' = tq_running - 1
    /\ Goto(w, IF tq_running = 0 THEN "last_flags" ELSE "exit_flags")
    /\ UNCHANGED <<tq_state, freed, queueVars, barrierVars, sleepq, job, del>>

ThreadExit(w) ==
    /\ pc[w] = "exit"
    /\ tq_threads' = tq_threads \ {w}
    /\ tq_running' = tq_running - 1
    /\ Goto(w, IF tq_running = 1 THEN "last_flags" ELSE "exit_flags")
    /\ UNCHANGED <<tq_state, freed, queueVars, barrierVars, sleepq, job, del>>

\* tq_flags is read after tq_mtx; the last thread wakes the destroyer.
ExitFlags(w) ==
    /\ pc[w] \in {"exit_flags", "last_flags"}
    /\ Goto(w, IF pc[w] = "last_flags" THEN "last_wake" ELSE "none")
    /\ UNCHANGED <<threadVars, queueVars, barrierVars, sleepq, job, del>>

LastWake(w) ==
    /\ pc[w] = "last_wake"
    /\ sleepq' = WakeOne(sleepq, "tq_running")
    /\ Goto(w, "none")
    /\ UNCHANGED <<threadVars, queueVars, barrierVars, job, del>>

-----------------------------------------------------------------------------
(* task_add and task_del.  TASK_ONQUEUE is first read without tq_mtx.      *)

Add(t, x) ==
    /\ MayCall(t) /\ t \in Adders[x]
    /\ x \notin onqueue
    /\ del' = [del EXCEPT ![t] = x]
    /\ Goto(t, "add_lock")
    /\ UNCHANGED <<threadVars, queueVars, barrierVars, sleepq, job>>

\* Mutant: TASK_ONQUEUE is not looked at again under tq_mtx.
MutAddLocked(t) ==
    /\ pc[t] = "add_lock"
    /\ onqueue' = onqueue \cup {del[t]}
    /\ tq_worklist' = Append(tq_worklist, del[t])
    /\ Goto(t, "add_wake")
    /\ del' = [del EXCEPT ![t] = NULL]
    /\ UNCHANGED <<threadVars, barrierVars, sleepq, job>>

\* Mutant: nobody is woken for the task.
MutAddWake(t) ==
    /\ pc[t] = "add_wake"
    /\ Goto(t, Base(t))
    /\ UNCHANGED <<threadVars, queueVars, barrierVars, sleepq, job, del>>

AddLocked(t) ==
    /\ pc[t] = "add_lock"
    /\ IF del[t] \in onqueue
       THEN UNCHANGED queueVars /\ Goto(t, Base(t))
       ELSE /\ onqueue' = onqueue \cup {del[t]}
            /\ tq_worklist' = Append(tq_worklist, del[t])
            /\ Goto(t, "add_wake")
    /\ del' = [del EXCEPT ![t] = NULL]
    /\ UNCHANGED <<threadVars, barrierVars, sleepq, job>>

AddWake(t) ==
    /\ pc[t] = "add_wake"
    /\ sleepq' = WakeOne(sleepq, "tq")
    /\ Goto(t, Base(t))
    /\ UNCHANGED <<threadVars, queueVars, barrierVars, job, del>>

\* Mutant: no barrier for a task that is not queued.
MutDel(t, x, barrier) ==
    /\ MayCall(t)
    /\ barrier => tq_bgen < MaxGen
    /\ del' = [del EXCEPT ![t] = x]
    /\ Goto(t, CASE ~barrier -> "del_lock"
                 [] barrier /\ x \in onqueue -> "delbar_lock"
                 [] barrier /\ x \notin onqueue -> "bar_done")
    /\ UNCHANGED <<threadVars, queueVars, barrierVars, sleepq, job>>

\* task_del, or taskq_del_barrier, which goes on with a barrier.
Del(t, x, barrier) ==
    /\ MayCall(t)
    /\ barrier => tq_bgen < MaxGen
    /\ x \in onqueue \/ barrier
    /\ del' = [del EXCEPT ![t] = x]
    /\ Goto(t, CASE ~barrier -> "del_lock"
                 [] barrier /\ x \in onqueue -> "delbar_lock"
                 [] barrier /\ x \notin onqueue -> "bar_enter")
    /\ UNCHANGED <<threadVars, queueVars, barrierVars, sleepq, job>>

DelLocked(t) ==
    /\ pc[t] \in {"del_lock", "delbar_lock"}
    /\ onqueue' = onqueue \ {del[t]}
    /\ tq_worklist' = IF del[t] \in onqueue THEN Unqueue(tq_worklist, del[t])
                                            ELSE tq_worklist
    /\ IF pc[t] = "del_lock"
       THEN Goto(t, Base(t)) /\ del' = [del EXCEPT ![t] = NULL]
       ELSE Goto(t, "bar_enter") /\ UNCHANGED del
    /\ UNCHANGED <<threadVars, barrierVars, sleepq, job>>

-----------------------------------------------------------------------------
(* The barrier                                                             *)

\* taskq_barrier_task: the thread is held until the generation ends.
BarrierTask(w) ==
    /\ pc[w] = "bt_enter"
    /\ tq_bthreads' = tq_bthreads + 1
    /\ gen' = [gen EXCEPT ![w] = tq_bgen]
    /\ sleepq' = SleepOn(WakeAll(sleepq, "tq_bthreads"), "tq_bgen", w)
    /\ Goto(w, "bt_wait")
    /\ UNCHANGED <<threadVars, queueVars, tq_barriers, tq_bgen, awaited, job, del>>

BarrierTaskWoken(w) ==
    /\ At(w, "bt_wait")
    /\ IF gen[w] = tq_bgen
       THEN sleepq' = SleepOn(sleepq, "tq_bgen", w) /\ UNCHANGED <<pc, job>>
       ELSE UNCHANGED sleepq /\ Goto(w, "next") /\ job' = [job EXCEPT ![w] = NULL]
    /\ UNCHANGED <<threadVars, queueVars, barrierVars, del>>

Barrier(t) ==
    /\ MayCall(t) /\ (t \in Worker => job[t] \in InTask)
    /\ tq_bgen < MaxGen
    /\ Goto(t, "bar_enter")
    /\ UNCHANGED <<threadVars, queueVars, barrierVars, sleepq, job, del>>

(* The loop of taskq_do_barrier, from a worklist wl, with nb barriers under *)
(* way, nt threads held and the sleepers sq: queue the barrier's task again *)
(* and sleep, or be the last one out, or wait for the last one.            *)
BarrierLoop(t, wl, nb, nt, sq) ==
    \/ /\ nt < tq_nthreads
       /\ onqueue' = onqueue \cup {t}
       /\ tq_worklist' = Append(wl, t)
       /\ sleepq' = SleepOn(WakeOne(sq, "tq"), "tq_bthreads", t)
       /\ tq_barriers' = nb
       /\ tq_bthreads' = nt
       /\ Goto(t, "bar_wait")
       /\ UNCHANGED <<tq_bgen, gen>>
    \/ /\ nt >= tq_nthreads /\ nb = 1
       /\ tq_worklist' = wl
       /\ tq_barriers' = 0
       /\ tq_bgen' = tq_bgen + 1
       /\ tq_bthreads' = 0
       /\ sleepq' = WakeAll(sq, "tq_bgen")
       /\ Goto(t, "bar_done")
       /\ UNCHANGED <<onqueue, gen>>
    \/ /\ nt >= tq_nthreads /\ nb > 1
       /\ tq_worklist' = wl
       /\ tq_barriers' = nb - 1
       /\ tq_bthreads' = nt
       /\ gen' = [gen EXCEPT ![t] = tq_bgen]
       /\ sleepq' = SleepOn(sq, "tq_bgen", t)
       /\ Goto(t, "bar_gen")
       /\ UNCHANGED <<onqueue, tq_bgen>>

\* The workers that run a task function, and are not in a barrier themselves.
Busy == {w \in Worker : job[w] \in Task /\ pc[w] \notin BarrierPC}

\* Mutant: a barrier inside a task does not count its own thread.
MutBarrierEnter(t) ==
    /\ pc[t] = "bar_enter"
    /\ awaited' = [u \in Thread |-> IF u = t THEN Busy ELSE awaited[u] \ {t}]
    /\ BarrierLoop(t, tq_worklist, tq_barriers + 1, tq_bthreads, sleepq)
    /\ UNCHANGED <<threadVars, job, del>>

\* taskq_do_barrier; a thread of the queue counts itself as held.
BarrierEnter(t) ==
    /\ pc[t] = "bar_enter"
    /\ awaited' = [u \in Thread |-> IF u = t THEN Busy ELSE awaited[u] \ {t}]
    /\ IF t \in tq_threads
       THEN BarrierLoop(t, tq_worklist, tq_barriers + 1, tq_bthreads + 1,
                        WakeAll(sleepq, "tq_bthreads"))
       ELSE BarrierLoop(t, tq_worklist, tq_barriers + 1, tq_bthreads, sleepq)
    /\ UNCHANGED <<threadVars, job, del>>

\* Mutant: one thread held is enough.
MutBarrierWoken(t) ==
    /\ At(t, "bar_wait")
    /\ BarrierLoop(t, IF t \in onqueue THEN Unqueue(tq_worklist, t)
                                       ELSE tq_worklist, tq_barriers,
                   IF tq_bthreads > 0 THEN tq_nthreads ELSE 0, sleepq)
    /\ UNCHANGED <<threadVars, job, del, awaited>>

\* Woken: take the task back if no worker did, and look again.
BarrierWoken(t) ==
    /\ At(t, "bar_wait")
    /\ BarrierLoop(t, IF t \in onqueue THEN Unqueue(tq_worklist, t)
                                       ELSE tq_worklist,
                   tq_barriers, tq_bthreads, sleepq)
    /\ UNCHANGED <<threadVars, job, del, awaited>>

BarrierGen(t) ==
    /\ At(t, "bar_gen")
    /\ IF gen[t] = tq_bgen
       THEN sleepq' = SleepOn(sleepq, "tq_bgen", t) /\ UNCHANGED pc
       ELSE UNCHANGED sleepq /\ Goto(t, "bar_done")
    /\ UNCHANGED <<threadVars, queueVars, barrierVars, job, del>>

BarrierReturn(t) ==
    /\ pc[t] = "bar_done"
    /\ del' = [del EXCEPT ![t] = NULL]
    /\ gen' = [gen EXCEPT ![t] = 0]
    /\ onqueue' = onqueue \ {t}
    /\ awaited' = [awaited EXCEPT ![t] = {}]
    /\ Goto(t, Base(t))
    /\ UNCHANGED <<threadVars, tq_worklist, tq_barriers, tq_bgen, tq_bthreads,
                   sleepq, job>>

-----------------------------------------------------------------------------
(* taskq_destroy                                                           *)

\* The loop: wake the threads and wait while there are any, then free.
DestroyLoop(t) ==
    IF tq_running > 0
    THEN /\ sleepq' = SleepOn(WakeAll(sleepq, "tq"), "tq_running", t)
         /\ Goto(t, "destroy_wait")
         /\ UNCHANGED freed
    ELSE /\ freed' = TRUE
         /\ Goto(t, "idle")
         /\ UNCHANGED sleepq

Destroy(t) ==
    /\ At(t, "idle") /\ tq_state # "DESTROYED"
    /\ \A u \in Client : pc[u] = "idle"
    /\ pc[Creator] \in DestroyWhen
    /\ tq_state' = "DESTROYED"
    /\ \/ /\ tq_state = "CREATED"
          /\ UNCHANGED <<freed, sleepq, pc>>
       \/ /\ tq_state = "RUNNING"
          /\ DestroyLoop(t)
    /\ UNCHANGED <<tq_running, tq_threads, queueVars, barrierVars, job, del>>

DestroyWoken(t) ==
    /\ At(t, "destroy_wait")
    /\ DestroyLoop(t)
    /\ UNCHANGED <<tq_state, tq_running, tq_threads, queueVars, barrierVars,
                   job, del>>

-----------------------------------------------------------------------------
CreatorStep == CreateThread \/ KthreadCreate \/ CreatedThread \/ CreateFailed

WorkerStep(w) ==
    \/ ThreadStart(w) \/ NextWork(w) \/ WakeNext(w) \/ JobDone(w)
    \/ BarrierTask(w) \/ BarrierTaskWoken(w)
    \/ ThreadExit(w) \/ ExitFlags(w) \/ LastWake(w)

\* The steps of a call of the interface that was made.
CallStep(t) ==
    \/ AddLocked(t) \/ AddWake(t) \/ DelLocked(t)
    \/ BarrierEnter(t) \/ BarrierWoken(t) \/ BarrierGen(t) \/ BarrierReturn(t)
    \/ DestroyWoken(t)

Next ==
    \/ CreatorStep
    \/ \E w \in Worker : WorkerStep(w)
    \/ \E t \in Thread : CallStep(t) \/ Barrier(t)
    \/ \E t \in Thread, x \in Task : Add(t, x)
    \/ \E t \in Client, x \in Task, b \in BOOLEAN : Del(t, x, b)
    \/ \E t \in Client : Destroy(t)

Spec == Init /\ [][Next]_vars

(* Threads that can run do run, and task functions return (JobDone is      *)
(* always possible while the function makes no call, and its calls are     *)
(* bounded); nobody is obliged to call the interface.                      *)
FairSpec ==
    /\ Spec
    /\ WF_vars(CreatorStep)
    /\ \A w \in Worker : WF_vars(WorkerStep(w)) /\ SF_vars(JobDone(w))
    /\ \A t \in Thread : WF_vars(CallStep(t))

-----------------------------------------------------------------------------
(* Properties                                                              *)

\* A barrier returns only when every task function that ran when it began
\* has returned or is in a barrier itself, although barriers of several
\* threads share tq_bthreads and one generation.
BarrierWaits == \A t \in Thread : pc[t] = "bar_done" => awaited[t] = {}

\* taskq_del_barrier by the only thread that adds a task leaves the task
\* neither queued nor running, whether the worker had just taken it or not
\* (unless the task function runs a barrier: two such barriers end together).
DelBarrierStops ==
    \A t \in Client :
        pc[t] = "bar_done" /\ del[t] # NULL =>
            (Adders[del[t]] = {t} /\ del[t] \notin InTask =>
                /\ del[t] \notin onqueue
                /\ \A w \in Worker : job[w] # del[t])

\* TASK_ONQUEUE says whether a task is on the worklist, where it is once:
\* add, delete, the worker and a barrier that takes its task back agree.
\* (A barrier's own task, gone when the barrier ends, may keep the flag.)
OnQueueOnce ==
    /\ TypeOK
    /\ \A x \in Task \cup Thread :
          LET n == Cardinality({i \in 1..Len(tq_worklist) : tq_worklist[i] = x})
          IN  /\ n <= 1
              /\ n = 1 => x \in onqueue
              /\ x \in Task /\ x \in onqueue => n = 1

\* When taskq_destroy frees a queue that had threads, these have drained it:
\* no task is left on the list and no task function runs.
DestroyDrains ==
    freed /\ pc[Creator] = "done" =>
        /\ tq_worklist = <<>>
        /\ \A w \in Worker : job[w] = NULL

\* A queued task is taken by a worker or deleted: its wakeup_one is not lost
\* to a thread that is held by a barrier or was woken for other work.
QueuedIsTaken ==
    \A x \in Task : (x \in onqueue /\ ~freed) ~> (x \notin onqueue \/ freed)

\* A barrier returns, whoever else runs barriers at the same time, the task
\* functions included.  (In a queue that is being destroyed a task function
\* may wait for workers that have left.)
BarrierReturns ==
    \A t \in Thread :
        (pc[t] \in BarrierPC) ~> (pc[t] \notin BarrierPC \/ tq_state = "DESTROYED")

\* taskq_destroy returns: the last worker to leave wakes it, whether the
\* threads were idle, busy or not yet made, unless a task function is in a
\* barrier of the queue that is being destroyed.
DestroyReturns ==
    \A t \in Client :
        (pc[t] = "destroy_wait") ~>
            (pc[t] # "destroy_wait" \/ \E w \in Worker : pc[w] \in BarrierPC)

=============================================================================
