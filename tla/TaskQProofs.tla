---------------------------- MODULE TaskQProofs ----------------------------
(***************************************************************************)
(* Proofs about TaskQ, for any threads, tasks and number of workers, any   *)
(* tasks that run barriers, and any place of the creator at which the      *)
(* queue is destroyed.                                                     *)
(*                                                                         *)
(* A barrier returns when tq_bthreads has reached tq_nthreads.  That this  *)
(* means that every worker is held is an argument about what is counted:   *)
(* tq_bthreads is the number of workers in Held, these are among those     *)
(* that are Live, and tq_running, which is at most tq_nthreads, counts     *)
(* them (Counts).  A worker that a barrier waits for is Live and not held  *)
(* (Awaits), so then there is none.  Generations never let a worker count  *)
(* for two of them: gen <= tq_bgen, and the last one out makes Held empty. *)
(* The other conjuncts are about the list (Queue), deleted tasks (Stopped) *)
(* and the end of the queue (Drains).                                      *)
(***************************************************************************)
EXTENDS TaskQ, SequenceTheorems, FiniteSetTheorems, TLAPS

(* Workers that are not yet made, or have left.                            *)
LeftPC == {"none", "exit_flags", "last_flags", "last_wake"}
FreePC == LeftPC \cup {"start", "next", "exit"}
InTaskPC == {"job", "add_lock", "add_wake"} \cup BarrierPC
WorkerPC == FreePC \cup InTaskPC \cup {"chain", "bt_enter", "bt_wait"}
ClientPC == {"idle", "add_lock", "add_wake", "del_lock", "delbar_lock",
             "destroy_wait"} \cup BarrierPC
CreatorPC == {"deferred", "creating", "created", "failed", "done", "none"}

(* What a worker runs, and what a call is about, by where the thread is.   *)
WorkerPlace(w) ==
    /\ pc[w] \in WorkerPC
    /\ pc[w] \in FreePC => job[w] = NULL
    /\ pc[w] \in InTaskPC => job[w] \in Task
    /\ pc[w] \in BarrierPC => job[w] \in InTask
    /\ pc[w] \in {"bt_enter", "bt_wait"} => job[w] \in Thread
    /\ pc[w] = "chain" => job[w] # NULL
    /\ (w \in tq_threads) <=> (pc[w] \notin LeftPC \cup {"start"})

CallPlace(t) ==
    /\ t \in Client => pc[t] \in ClientPC
    /\ pc[t] = "add_lock" => del[t] \in Task /\ t \in Adders[del[t]]
    /\ pc[t] \in {"del_lock", "delbar_lock"} => del[t] \in Task
    /\ pc[t] \notin {"add_lock", "del_lock", "delbar_lock"} \cup BarrierPC => del[t] = NULL

Places ==
    /\ \A w \in Worker : WorkerPlace(w)
    /\ \A t \in Thread : CallPlace(t)
    /\ pc[Creator] \in CreatorPC

(* The worklist has no entry twice, and TASK_ONQUEUE of a task says        *)
(* whether it is there; that of a barrier's own task while it waits.       *)
Queued(x) == \E i \in 1 .. Len(tq_worklist) : tq_worklist[i] = x
Queue ==
    /\ \A i, j \in 1 .. Len(tq_worklist) : tq_worklist[i] = tq_worklist[j] => i = j
    /\ \A x \in Task : x \in onqueue <=> Queued(x)
    /\ \A t \in Thread : Queued(t) <=> (pc[t] = "bar_wait" /\ t \in onqueue)

(* What the counters count.                                                *)
Live == {w \in Worker : pc[w] \notin LeftPC}
Waiting == {t \in Thread : pc[t] = "bar_wait"}
HeldBy(w) == \/ pc[w] = "bar_wait"
             \/ pc[w] \in {"bt_wait", "bar_gen"} /\ gen[w] = tq_bgen
Held == {w \in Worker : HeldBy(w)}
Counts ==
    /\ tq_running = Cardinality(Live)
                    + (IF pc[Creator] \in {"creating", "failed"} THEN 1 ELSE 0)
    /\ tq_running <= tq_nthreads
    /\ tq_barriers = Cardinality(Waiting)
    /\ tq_bthreads = Cardinality(Held)
    /\ \A t \in Thread : gen[t] <= tq_bgen

(* A barrier that has counted all workers waits for nobody.                *)
Awaits ==
    \A t \in Thread : /\ \A w \in awaited[t] : /\ w \in Live /\ job[w] \in Task
                                               /\ pc[w] \notin BarrierPC \ {"bar_enter"}
                      /\ awaited[t] # {} => pc[t] = "bar_wait"

(* A task that only its deleter adds is not queued again, and the barrier  *)
(* waits for who runs it.                                                  *)
Stops(t) == /\ pc[t] \in BarrierPC /\ del[t] # NULL
            /\ Adders[del[t]] = {t} /\ del[t] \notin InTask
Stopped ==
    \A t \in Client : Stops(t) =>
        /\ del[t] \notin onqueue
        /\ pc[t] # "bar_enter" => \A w \in Worker : job[w] = del[t] => w \in awaited[t]

(* Who is left to work on the list of a queue that is destroyed.           *)
Working == {w \in Worker : pc[w] \notin LeftPC \cup {"exit"}}
Made == Live # {} \/ pc[Creator] \in {"created", "done"}
Drains ==
    /\ tq_state = "CREATED" => pc[Creator] = "deferred"
    /\ tq_state = "RUNNING" => pc[Creator] # "deferred"
    /\ pc[Creator] = "deferred" => Live = {}
    /\ tq_state = "RUNNING" => \A w \in Live : pc[w] # "exit"
    /\ tq_state = "RUNNING" /\ pc[Creator] \in {"created", "done"} => Live # {}
    /\ tq_state = "DESTROYED" => \A c \in Client : pc[c] \in {"idle", "destroy_wait"}
    /\ tq_state = "DESTROYED" /\ tq_worklist # <<>> /\ Made => Working # {}
    /\ (\E c \in Client : pc[c] = "destroy_wait")
          => tq_state = "DESTROYED" /\ pc[Creator] # "deferred"
    /\ freed => tq_state = "DESTROYED"
    /\ freed /\ pc[Creator] # "none" => tq_worklist = <<>> /\ \A w \in Worker : job[w] = NULL

(* The types, but for the bounds of the counters.                          *)
AllThreads == Thread \cup {Creator}
Sleepers == [Chan -> Seq(Thread)]
Shape ==
    /\ tq_state \in {"CREATED", "RUNNING", "DESTROYED"}
    /\ freed \in BOOLEAN
    /\ tq_worklist \in Seq(Task \cup Thread)
    /\ onqueue \subseteq Task \cup Thread
    /\ tq_threads \subseteq Worker
    /\ tq_bgen \in Nat
    /\ sleepq \in Sleepers
    /\ pc \in [AllThreads -> PC]
    /\ job \in [Worker -> Task \cup Thread \cup {NULL}]
    /\ gen \in [Thread -> Nat]
    /\ del \in [Thread -> Task \cup {NULL}]
    /\ awaited \in [Thread -> SUBSET Worker]

TaskInv == Shape /\ Places /\ Queue /\ Counts /\ Awaits /\ Stopped /\ Drains

-----------------------------------------------------------------------------
(* Steps of one thread *)

(* The constants, taken apart.                                             *)
LEMMA Constants ==
    /\ \A w \in Worker : w \in Thread /\ w \notin Client /\ w # Creator
    /\ \A c \in Client : c \in Thread /\ c \notin Worker /\ c # Creator
    /\ \A t \in Thread : t \in Worker \/ t \in Client
    /\ \A t \in Thread : t \notin Task /\ t # NULL /\ t # Creator
    /\ NULL \notin Task /\ Creator \notin Thread
  BY TaskQAssumption DEF Thread

(* The sleep queues after a wakeup or a sleep.                             *)
LEMMA SleepTypes ==
    ASSUME NEW sq \in Sleepers, NEW c \in Chan, NEW t \in Thread
    PROVE  /\ WakeAll(sq, c) \in Sleepers /\ WakeOne(sq, c) \in Sleepers
           /\ SleepOn(sq, c, t) \in Sleepers
<1>1. sq[c] \in Seq(Thread)
  BY DEF Sleepers
<1>2. Append(sq[c], t) \in Seq(Thread) /\ <<>> \in Seq(Thread)
      /\ (sq[c] # <<>> => Tail(sq[c]) \in Seq(Thread))
  BY <1>1, AppendProperties, HeadTailProperties, EmptySeq
<1>3. QED
  BY <1>1, <1>2 DEF Sleepers, WakeAll, WakeOne, SleepOn

(* A thread goes on.                                                       *)
LEMMA GotoEffect ==
    ASSUME Shape, NEW t \in AllThreads, NEW l \in PC, Goto(t, l)
    PROVE  /\ pc' \in [AllThreads -> PC] /\ pc'[t] = l
           /\ \A u \in AllThreads \ {t} : pc'[u] = pc[u]
  BY DEF Goto, Shape

(* What a step of t leaves to the others.                                  *)
Alone(t) ==
    /\ \A u \in AllThreads \ {t} : pc'[u] = pc[u]
    /\ \A u \in Thread \ {t} : del'[u] = del[u] /\ gen'[u] = gen[u]
    /\ \A w \in Worker \ {t} : /\ job'[w] = job[w]
                               /\ w \in tq_threads' <=> w \in tq_threads

(* Places, from the place of the thread that steps.                        *)
LEMMA PlacesStep ==
    ASSUME Places, NEW t \in Thread, Alone(t), t \in Worker => WorkerPlace(t)', CallPlace(t)'
    PROVE  Places'
<1>1. pc'[Creator] = pc[Creator]
  BY Constants DEF Alone, AllThreads
<1>2. ASSUME NEW w \in Worker PROVE WorkerPlace(w)'
  <2>1. CASE w = t
    BY <2>1
  <2>2. CASE w # t
    <3>1. pc'[w] = pc[w] /\ job'[w] = job[w] /\ (w \in tq_threads' <=> w \in tq_threads)
      BY <2>2, Constants DEF Alone, AllThreads
    <3>2. WorkerPlace(w)
      BY DEF Places
    <3>3. QED
      BY <3>1, <3>2 DEF WorkerPlace
  <2>3. QED
    BY <2>1, <2>2
<1>3. ASSUME NEW u \in Thread PROVE CallPlace(u)'
  <2>1. CASE u = t
    BY <2>1
  <2>2. CASE u # t
    <3>1. pc'[u] = pc[u] /\ del'[u] = del[u]
      BY <2>2 DEF Alone, AllThreads
    <3>2. CallPlace(u)
      BY DEF Places
    <3>3. QED
      BY <3>1, <3>2 DEF CallPlace
  <2>3. QED
    BY <2>1, <2>2
<1>4. QED
  BY <1>1, <1>2, <1>3 DEF Places

(* The steps of a worker.                                                  *)
LEMMA StartShape ==
    ASSUME Shape, Places, NEW w \in Worker, ThreadStart(w)
    PROVE  Shape' /\ Places' /\ Alone(w) /\ pc'[w] = "next" /\ pc[w] = "start"
<1>1. "next" \in PC /\ w \in AllThreads /\ w \in Thread
  BY Constants DEF PC, AllThreads
<1>2. /\ pc' \in [AllThreads -> PC] /\ pc'[w] = "next"
      /\ \A u \in AllThreads \ {w} : pc'[u] = pc[u]
  BY <1>1, GotoEffect DEF ThreadStart
<1>3. /\ pc[w] = "start" /\ tq_threads' = tq_threads \cup {w}
      /\ UNCHANGED <<tq_state, freed, tq_running, queueVars, barrierVars, sleepq, job, del>>
  BY DEF ThreadStart
<1>4. Shape'
  BY <1>2, <1>3 DEF Shape, queueVars, barrierVars
<1>5. Alone(w)
  BY <1>2, <1>3 DEF Alone, barrierVars
<1>6. WorkerPlace(w) /\ CallPlace(w)
  BY <1>1 DEF Places
<1>7. WorkerPlace(w)' /\ CallPlace(w)'
  BY <1>1, <1>2, <1>3, <1>6, Constants
     DEF WorkerPlace, CallPlace, WorkerPC, FreePC, LeftPC, InTaskPC, BarrierPC
<1>8. QED
  BY <1>1, <1>2, <1>3, <1>4, <1>5, <1>7, PlacesStep

(* Steps that move a thread, may wake others or sleep, and set its del.    *)
Moves(t, l) ==
    /\ Goto(t, l)
    /\ sleepq' \in Sleepers
    /\ UNCHANGED <<threadVars, queueVars, barrierVars, job>>
    /\ del' = del \/ \E x \in Task \cup {NULL} : del' = [del EXCEPT ![t] = x]

(* The types after such a step, and what it leaves alone.                  *)
LEMMA MoveShape ==
    ASSUME Shape, NEW t \in Thread, NEW l \in PC, Moves(t, l)
    PROVE  /\ Shape' /\ Alone(t) /\ pc'[t] = l
           /\ UNCHANGED <<tq_state, freed, tq_running, tq_threads, tq_worklist, onqueue,
                          tq_barriers, tq_bgen, tq_bthreads, gen, awaited, job>>
<1>1. /\ pc' \in [AllThreads -> PC] /\ pc'[t] = l
      /\ \A u \in AllThreads \ {t} : pc'[u] = pc[u]
  BY GotoEffect DEF Moves, AllThreads
<1>2. del' \in [Thread -> Task \cup {NULL}] /\ \A u \in Thread \ {t} : del'[u] = del[u]
  BY DEF Moves, Shape
<1>3. UNCHANGED <<tq_state, freed, tq_running, tq_threads, tq_worklist, onqueue,
                  tq_barriers, tq_bgen, tq_bthreads, gen, awaited, job>>
  BY DEF Moves, threadVars, queueVars, barrierVars
<1>4. Shape'
  BY <1>1, <1>2, <1>3 DEF Shape, Moves
<1>5. Alone(t)
  BY <1>1, <1>2, <1>3 DEF Alone
<1>6. QED
  BY <1>1, <1>3, <1>4, <1>5

(* A worker that goes on with its task or barrier's task.                  *)
LEMMA WakeNextMoves ==
    ASSUME Shape, Places, NEW w \in Worker, WakeNext(w)
    PROVE  /\ Moves(w, JobPC(job[w])) /\ JobPC(job[w]) \in {"job", "bt_enter"}
           /\ pc[w] = "chain" /\ Places'
<1>1. JobPC(job[w]) \in {"job", "bt_enter"} /\ JobPC(job[w]) \in PC
  BY DEF JobPC, PC
<1>2. w \in Thread /\ WorkerPlace(w) /\ CallPlace(w)
  BY Constants DEF Places
<1>3. WakeOne(sleepq, "tq") \in Sleepers
  BY <1>2, SleepTypes DEF Shape, Chan
<1>4. Moves(w, JobPC(job[w])) /\ pc[w] = "chain" /\ del' = del
  BY <1>3 DEF WakeNext, Moves
<1>5. Alone(w) /\ pc'[w] = JobPC(job[w]) /\ UNCHANGED <<tq_threads, job>>
  BY <1>1, <1>2, <1>4, MoveShape
<1>6. job[w] \in Task \/ job[w] \in Thread
  BY <1>2, <1>4 DEF Shape, WorkerPlace
<1>7. WorkerPlace(w)' /\ CallPlace(w)'
  BY <1>1, <1>2, <1>4, <1>5, <1>6, Constants
     DEF WorkerPlace, CallPlace, WorkerPC, FreePC, LeftPC, InTaskPC, BarrierPC, JobPC
<1>8. QED
  BY <1>1, <1>2, <1>4, <1>5, <1>7, PlacesStep

(* A worker that has left ends.                                            *)
LEMMA LeftMoves ==
    ASSUME Shape, Places, NEW w \in Worker, ExitFlags(w) \/ LastWake(w)
    PROVE  \E l \in LeftPC : Moves(w, l) /\ pc[w] \in LeftPC /\ Places'
<1>1. w \in Thread /\ WorkerPlace(w) /\ CallPlace(w)
  BY Constants DEF Places
<1>2. sleepq \in Sleepers /\ WakeOne(sleepq, "tq_running") \in Sleepers
  BY <1>1, SleepTypes DEF Shape, Chan
<1>3. PICK l \in {"last_wake", "none"} : Goto(w, l)
  BY DEF ExitFlags, LastWake
<1>4. Moves(w, l) /\ pc[w] \in LeftPC /\ l \in LeftPC /\ l \in PC /\ del' = del
  BY <1>2, <1>3 DEF ExitFlags, LastWake, Moves, LeftPC, PC
<1>5. Alone(w) /\ pc'[w] = l /\ UNCHANGED <<tq_threads, job>>
  BY <1>1, <1>4, MoveShape
<1>6. WorkerPlace(w)' /\ CallPlace(w)'
  BY <1>1, <1>3, <1>4, <1>5, Constants
     DEF WorkerPlace, CallPlace, WorkerPC, FreePC, LeftPC, InTaskPC, BarrierPC
<1>7. QED
  BY <1>1, <1>4, <1>5, <1>6, PlacesStep

(* The calls that begin, and their steps without tq_mtx.                   *)
LEMMA CallMoves ==
    ASSUME Shape, Places, NEW t \in Thread,
           \/ \E x \in Task : Add(t, x)
           \/ AddWake(t)
           \/ \E x \in Task, b \in BOOLEAN : t \in Client /\ Del(t, x, b)
           \/ Barrier(t)
    PROVE  \E l \in {"add_lock", "job", "idle", "del_lock", "delbar_lock", "bar_enter"} :
              /\ Moves(t, l) /\ pc[t] \in {"add_wake", "job", "idle"} /\ Places'
              /\ tq_state = "DESTROYED" /\ t \in Client => pc[t] = "add_wake"
              /\ l = "bar_enter" /\ del'[t] # NULL => del'[t] \notin onqueue
              /\ t \in Client => l # "job"
              /\ t \in Worker => l # "idle"
<1>1. /\ t \in Thread /\ CallPlace(t) /\ (t \in Worker => WorkerPlace(t))
      /\ (t \in Worker <=> t \notin Client)
  BY Constants DEF Places
<1>2. sleepq \in Sleepers /\ WakeOne(sleepq, "tq") \in Sleepers
  BY <1>1, SleepTypes DEF Shape, Chan
<1>3. Base(t) = IF t \in Worker THEN "job" ELSE "idle"
  BY DEF Base
<1>4. ASSUME NEW l \in {"add_lock", "job", "idle", "del_lock", "delbar_lock", "bar_enter"},
             Moves(t, l), t \in Worker => WorkerPlace(t)', CallPlace(t)'
      PROVE  Places'
  <2>1. l \in PC
    BY <1>4 DEF PC, BarrierPC
  <2>2. Alone(t)
    BY <1>4, <2>1, MoveShape
  <2>3. QED
    BY <1>4, <2>2, PlacesStep
<1>e. ASSUME NEW l \in {"add_lock", "job", "idle", "del_lock", "delbar_lock", "bar_enter"},
             Moves(t, l)
      PROVE  pc'[t] = l /\ job' = job /\ tq_threads' = tq_threads
  <2>1. l \in PC
    BY <1>e DEF PC, BarrierPC
  <2>2. QED
    BY <1>e, <2>1, MoveShape
<1>5. ASSUME NEW x \in Task, Add(t, x)
      PROVE  /\ Moves(t, "add_lock") /\ pc[t] \in {"job", "idle"} /\ Places'
             /\ tq_state = "DESTROYED" => t \notin Client
  <2>1. /\ Moves(t, "add_lock") /\ pc[t] = Base(t) /\ del' = [del EXCEPT ![t] = x]
        /\ t \in Adders[x] /\ (tq_state = "DESTROYED" => t \notin Client)
    BY <1>2, <1>5 DEF Add, Moves, MayCall, At
  <2>2. pc'[t] = "add_lock" /\ del'[t] = x /\ job' = job /\ tq_threads' = tq_threads
    BY <2>1, <1>e DEF Shape
  <2>3. (t \in Worker => WorkerPlace(t)') /\ CallPlace(t)'
    BY <1>1, <1>3, <2>1, <2>2
       DEF WorkerPlace, CallPlace, WorkerPC, ClientPC, FreePC, LeftPC, InTaskPC, BarrierPC
  <2>4. QED
    BY <1>3, <1>4, <2>1, <2>3
<1>6. CASE AddWake(t)
  <2>1. Moves(t, Base(t)) /\ pc[t] = "add_wake" /\ del' = del
    BY <1>2, <1>6 DEF AddWake, Moves
  <2>2. pc'[t] = Base(t) /\ job' = job /\ tq_threads' = tq_threads
    BY <1>3, <2>1, <1>e
  <2>3. (t \in Worker => WorkerPlace(t)') /\ CallPlace(t)'
    BY <1>1, <1>3, <2>1, <2>2
       DEF WorkerPlace, CallPlace, WorkerPC, ClientPC, FreePC, LeftPC, InTaskPC, BarrierPC
  <2>4. QED
    BY <1>1, <1>3, <1>4, <2>1, <2>3
<1>7. ASSUME NEW x \in Task, NEW b \in BOOLEAN, t \in Client, Del(t, x, b)
      PROVE  \E l \in {"del_lock", "delbar_lock", "bar_enter"} :
                /\ Moves(t, l) /\ pc[t] = "idle" /\ Places'
                /\ tq_state # "DESTROYED"
                /\ l = "bar_enter" => del'[t] \notin onqueue
  <2>1. PICK l \in {"del_lock", "delbar_lock", "bar_enter"} :
               /\ Goto(t, l) /\ (l = "bar_enter" => x \notin onqueue)
    BY <1>7 DEF Del
  <2>2. /\ Moves(t, l) /\ pc[t] = Base(t) /\ del' = [del EXCEPT ![t] = x]
        /\ tq_state # "DESTROYED"
    BY <1>2, <1>7, <2>1 DEF Del, Moves, MayCall, At
  <2>3. pc'[t] = l /\ del'[t] = x /\ job' = job /\ tq_threads' = tq_threads
    BY <2>2, <1>e DEF Shape
  <2>4. CallPlace(t)'
    BY <1>7, <2>1, <2>3 DEF CallPlace, ClientPC, BarrierPC
  <2>5. QED
    BY <1>1, <1>3, <1>4, <1>7, <2>1, <2>2, <2>3, <2>4
<1>8. CASE Barrier(t)
  <2>1. /\ Moves(t, "bar_enter") /\ pc[t] = Base(t) /\ del' = del
        /\ (t \in Worker => job[t] \in InTask) /\ (tq_state = "DESTROYED" => t \notin Client)
    BY <1>2, <1>8 DEF Barrier, Moves, MayCall, At
  <2>2. pc'[t] = "bar_enter" /\ job' = job /\ tq_threads' = tq_threads
    BY <2>1, <1>e
  <2>3. (t \in Worker => WorkerPlace(t)') /\ CallPlace(t)'
    BY <1>1, <1>3, <2>1, <2>2
       DEF WorkerPlace, CallPlace, WorkerPC, ClientPC, FreePC, LeftPC, InTaskPC, BarrierPC
  <2>4. del'[t] = NULL
    BY <1>1, <1>3, <2>1 DEF CallPlace, BarrierPC
  <2>5. QED
    BY <1>3, <1>4, <2>1, <2>3, <2>4
<1>9. QED
  BY <1>1, <1>5, <1>6, <1>7, <1>8

-----------------------------------------------------------------------------
(* What does not change with a step *)

(* The worklist is left alone, and nobody begins or ends to wait.          *)
LEMMA QueueFrame ==
    ASSUME Queue, UNCHANGED <<tq_worklist, onqueue>>,
           \A u \in Thread : (pc'[u] = "bar_wait") <=> (pc[u] = "bar_wait")
    PROVE  Queue'
  BY DEF Queue, Queued

(* Nobody comes or goes.                                                   *)
LEMMA CountsFrame ==
    ASSUME Counts, UNCHANGED <<tq_running, tq_barriers, tq_bthreads, tq_bgen>>,
           (pc'[Creator] \in {"creating", "failed"}) <=> (pc[Creator] \in {"creating", "failed"}),
           \A w \in Worker : (pc'[w] \in LeftPC) <=> (pc[w] \in LeftPC),
           \A u \in Thread : (pc'[u] = "bar_wait") <=> (pc[u] = "bar_wait"),
           \A w \in Worker : HeldBy(w)' <=> HeldBy(w),
           \A u \in Thread : gen'[u] <= tq_bgen
    PROVE  Counts' /\ Live' = Live /\ Waiting' = Waiting /\ Held' = Held
<1>1. Live' = Live
  BY DEF Live
<1>2. Waiting' = Waiting
  BY DEF Waiting
<1>3. Held' = Held
  BY DEF Held
<1>4. QED
  BY <1>1, <1>2, <1>3 DEF Counts

(* The tasks that are stopped stay so, if no task is queued or taken.      *)
LEMMA StoppedFrame ==
    ASSUME Stopped, \A x \in Task : x \in onqueue' => x \in onqueue,
           del' \in [Thread -> Task \cup {NULL}],
           \A c \in Client, w \in Worker : job'[w] \in Task =>
               job'[w] = job[w] /\ (w \in awaited[c] => w \in awaited'[c]),
           \A c \in Client : Stops(c)' =>
               /\ Stops(c) /\ del'[c] = del[c]
               /\ pc'[c] # "bar_enter" => pc[c] # "bar_enter"
    PROVE  Stopped'
<1> SUFFICES ASSUME NEW c \in Client, Stops(c)'
             PROVE  /\ del'[c] \notin onqueue'
                    /\ pc'[c] # "bar_enter" =>
                          \A w \in Worker : job'[w] = del'[c] => w \in awaited'[c]
  BY DEF Stopped
<1>1. /\ Stops(c) /\ del'[c] = del[c] /\ del'[c] \in Task
      /\ pc'[c] # "bar_enter" => pc[c] # "bar_enter"
  BY Constants DEF Stops
<1>2. /\ del[c] \notin onqueue
      /\ pc[c] # "bar_enter" => \A w \in Worker : job[w] = del[c] => w \in awaited[c]
  BY <1>1 DEF Stopped
<1>3. QED
  BY <1>1, <1>2

(* A thread that neither enters nor leaves what is counted.                *)
LEMMA QuietMove ==
    ASSUME TaskInv, NEW t \in Thread, NEW l \in PC, Moves(t, l), Places',
           pc[t] \notin {"bar_wait", "exit"}, l \notin {"bar_wait", "exit"},
           t \in Worker => (pc[t] \in LeftPC <=> l \in LeftPC),
           ~HeldBy(t), l \notin {"bt_wait", "bar_gen"},
           l \in BarrierPC => l = "bar_enter" \/ (l = "bar_done" /\ pc[t] = "bar_gen" /\ del' = del),
           l = "bar_enter" /\ del'[t] # NULL => del'[t] \notin onqueue,
           tq_state = "DESTROYED" /\ t \in Client => l = "idle",
           l # "destroy_wait"
    PROVE  TaskInv'
<1>1. /\ Shape' /\ Alone(t) /\ pc'[t] = l
      /\ UNCHANGED <<tq_state, freed, tq_running, tq_threads, tq_worklist, onqueue,
                     tq_barriers, tq_bgen, tq_bthreads, gen, awaited, job>>
  BY MoveShape DEF TaskInv
<1>2. /\ \A u \in Thread \ {t} : pc'[u] = pc[u] /\ del'[u] = del[u]
      /\ pc'[Creator] = pc[Creator]
  BY <1>1, Constants DEF Alone, AllThreads
<1>3. Queue'
  BY <1>1, <1>2, QueueFrame DEF TaskInv
<1>4. Counts' /\ Live' = Live
  <2>1. \A w \in Worker : HeldBy(w)' <=> HeldBy(w)
    BY <1>1, <1>2, Constants DEF HeldBy
  <2>2. \A w \in Worker : (pc'[w] \in LeftPC) <=> (pc[w] \in LeftPC)
    BY <1>1, <1>2, Constants
  <2>3. \A u \in Thread : gen'[u] <= tq_bgen
    BY <1>1 DEF TaskInv, Counts
  <2>4. \A u \in Thread : (pc'[u] = "bar_wait") <=> (pc[u] = "bar_wait")
    BY <1>1, <1>2
  <2>5. QED
    BY <1>1, <1>2, <2>1, <2>2, <2>3, <2>4, CountsFrame DEF TaskInv
<1>5. Awaits'
  <2> SUFFICES ASSUME NEW u \in Thread
               PROVE  /\ \A w \in awaited'[u] : /\ w \in Live' /\ job'[w] \in Task
                                                /\ pc'[w] \notin BarrierPC \ {"bar_enter"}
                      /\ awaited'[u] # {} => pc'[u] = "bar_wait"
    BY DEF Awaits
  <2>1. /\ \A w \in awaited[u] : /\ w \in Live /\ job[w] \in Task
                                 /\ pc[w] \notin BarrierPC \ {"bar_enter"}
        /\ awaited[u] # {} => pc[u] = "bar_wait"
    BY DEF TaskInv, Awaits
  <2>2. awaited[u] # {} => u # t
    BY <2>1
  <2>3. \A w \in awaited[u] : pc'[w] \notin BarrierPC \ {"bar_enter"}
    <3> SUFFICES ASSUME NEW w \in awaited[u] PROVE pc'[w] \notin BarrierPC \ {"bar_enter"}
      OBVIOUS
    <3>1. w \in Worker /\ pc[w] # "bar_gen"
      BY <2>1 DEF Live, BarrierPC
    <3>2. CASE w = t
      BY <1>1, <3>1, <3>2
    <3>3. CASE w # t
      BY <1>2, <2>1, <3>1, <3>3, Constants
    <3>4. QED
      BY <3>2, <3>3
  <2>4. QED
    BY <1>1, <1>2, <1>4, <2>1, <2>2, <2>3
<1>6. Stopped'
  <2> SUFFICES ASSUME NEW c \in Client, Stops(c)'
               PROVE  /\ del'[c] \notin onqueue'
                      /\ pc'[c] # "bar_enter" =>
                            \A w \in Worker : job'[w] = del'[c] => w \in awaited'[c]
    BY DEF Stopped
  <2>1. CASE c = t /\ l = "bar_enter"
    BY <1>1, <2>1 DEF Stops
  <2>2. CASE c # t \/ l # "bar_enter"
    <3>1. Stops(c) /\ del'[c] = del[c] /\ (pc'[c] # "bar_enter" => pc[c] # "bar_enter")
      <4>1. CASE c # t
        BY <1>2, <4>1, Constants DEF Stops
      <4>2. CASE c = t /\ l # "bar_enter"
        BY <1>1, <4>2 DEF Stops, BarrierPC
      <4>3. QED
        BY <2>2, <4>1, <4>2
    <3>2. QED
      BY <1>1, <3>1 DEF TaskInv, Stopped
  <2>3. QED
    BY <2>1, <2>2
<1>7. Drains'
  <2>1. \A c \in Client : pc'[c] = "destroy_wait" => pc[c] = "destroy_wait"
    BY <1>1, <1>2, Constants
  <2>2. tq_state = "DESTROYED" => \A c \in Client : pc'[c] \in {"idle", "destroy_wait"}
    BY <1>1, <1>2, Constants DEF TaskInv, Drains
  <2>3. Working' = Working
    <3>1. \A w \in Worker : (pc'[w] \in LeftPC \cup {"exit"}) <=> (pc[w] \in LeftPC \cup {"exit"})
      BY <1>1, <1>2, Constants
    <3>2. QED
      BY <3>1 DEF Working
  <2>4. \A w \in Live : pc[w] # "exit" => pc'[w] # "exit"
    BY <1>1, <1>2, Constants DEF Live
  <2>5. Made' <=> Made
    BY <1>2, <1>4 DEF Made
  <2>6. QED
    BY <1>1, <1>2, <1>4, <2>1, <2>2, <2>3, <2>4, <2>5 DEF TaskInv, Drains
<1>8. QED
  BY <1>1, <1>3, <1>4, <1>5, <1>6, <1>7 DEF TaskInv

(* The steps that are such moves.                                          *)
LEMMA CallsPreserve ==
    ASSUME TaskInv, NEW t \in Thread,
           \/ \E x \in Task : Add(t, x)
           \/ AddWake(t)
           \/ \E x \in Task, b \in BOOLEAN : t \in Client /\ Del(t, x, b)
           \/ Barrier(t)
    PROVE  TaskInv'
<1>1. PICK l \in {"add_lock", "job", "idle", "del_lock", "delbar_lock", "bar_enter"} :
              /\ Moves(t, l) /\ pc[t] \in {"add_wake", "job", "idle"} /\ Places'
              /\ tq_state = "DESTROYED" /\ t \in Client => pc[t] = "add_wake"
              /\ l = "bar_enter" /\ del'[t] # NULL => del'[t] \notin onqueue
  BY CallMoves DEF TaskInv
<1>2. l \in PC
  BY DEF PC, BarrierPC
<1>3. ~(tq_state = "DESTROYED" /\ t \in Client)
  BY <1>1 DEF TaskInv, Drains
<1>4. ~HeldBy(t) /\ pc[t] \notin LeftPC /\ l \notin LeftPC
  BY <1>1 DEF HeldBy, LeftPC
<1>5. l \in BarrierPC => l = "bar_enter"
  BY DEF BarrierPC
<1>6. QED
  BY <1>1, <1>2, <1>3, <1>4, <1>5, QuietMove

(* taskq_next_work's wakeup_one for more work is a quiet move.             *)
LEMMA WakeNextPreserves ==
    ASSUME TaskInv, NEW w \in Worker, WakeNext(w)
    PROVE  TaskInv'
<1>1. PICK l \in {"job", "bt_enter"} : l = JobPC(job[w])
  BY WakeNextMoves DEF TaskInv
<1>2. Moves(w, l) /\ pc[w] = "chain" /\ Places'
  BY <1>1, WakeNextMoves DEF TaskInv
<1>3. l \in PC /\ l \notin LeftPC /\ l \notin BarrierPC
  BY DEF PC, LeftPC, BarrierPC
<1>4. ~HeldBy(w) /\ pc[w] \notin LeftPC
  BY <1>2 DEF HeldBy, LeftPC
<1>5. w \in Thread /\ w \notin Client
  BY Constants
<1>6. QED
  BY <1>2, <1>3, <1>4, <1>5, QuietMove

(* The end of a worker that has left is a quiet move.                      *)
LEMMA LeftPreserves ==
    ASSUME TaskInv, NEW w \in Worker, ExitFlags(w) \/ LastWake(w)
    PROVE  TaskInv'
<1>1. PICK l \in LeftPC : Moves(w, l) /\ pc[w] \in LeftPC /\ Places'
  BY LeftMoves DEF TaskInv
<1>2. l \in PC /\ l \notin BarrierPC /\ l \notin {"bar_wait", "exit", "bt_wait", "bar_gen", "destroy_wait"}
  BY DEF PC, LeftPC, BarrierPC
<1>3. ~HeldBy(w) /\ pc[w] \notin {"bar_wait", "exit"}
  BY <1>1 DEF HeldBy, LeftPC
<1>4. w \in Thread /\ w \notin Client
  BY Constants
<1>5. l # "bar_enter"
  BY DEF LeftPC
<1>6. QED
  BY <1>1, <1>2, <1>3, <1>4, <1>5, QuietMove

(* Nobody begins to be waited for, and who still is goes on.               *)
LEMMA AwaitsFrame ==
    ASSUME Awaits, \A u \in Thread : awaited'[u] \subseteq awaited[u],
           \A u \in Thread : awaited'[u] # {} /\ pc[u] = "bar_wait" => pc'[u] = "bar_wait",
           \A u \in Thread : \A w \in awaited'[u] :
               w \in Live /\ job[w] \in Task /\ pc[w] \notin BarrierPC \ {"bar_enter"} =>
               w \in Live' /\ job'[w] \in Task /\ pc'[w] \notin BarrierPC \ {"bar_enter"}
    PROVE  Awaits'
<1> SUFFICES ASSUME NEW u \in Thread
             PROVE  /\ \A w \in awaited'[u] : /\ w \in Live' /\ job'[w] \in Task
                                              /\ pc'[w] \notin BarrierPC \ {"bar_enter"}
                    /\ awaited'[u] # {} => pc'[u] = "bar_wait"
  BY DEF Awaits
<1>1. /\ \A w \in awaited[u] : /\ w \in Live /\ job[w] \in Task
                               /\ pc[w] \notin BarrierPC \ {"bar_enter"}
      /\ awaited[u] # {} => pc[u] = "bar_wait"
  BY DEF Awaits
<1>2. awaited'[u] \subseteq awaited[u]
  OBVIOUS
<1>3. QED
  BY <1>1, <1>2

(* The worklist stays and nobody leaves.                                   *)
LEMMA DrainsFrame ==
    ASSUME Drains, UNCHANGED <<tq_state, freed>>, tq_worklist = <<>> => tq_worklist' = <<>>,
           pc'[Creator] = pc[Creator], Live' = Live,
           \A w \in Worker : pc'[w] \in LeftPC \cup {"exit"} <=> pc[w] \in LeftPC \cup {"exit"},
           \A c \in Client : pc'[c] = "destroy_wait" => pc[c] = "destroy_wait",
           tq_state = "DESTROYED" => \A c \in Client : pc'[c] \in {"idle", "destroy_wait"},
           \A w \in Worker : job[w] = NULL => job'[w] = NULL
    PROVE  Drains'
<1>1. Working' = Working
  BY DEF Working
<1>2. Made' <=> Made
  BY DEF Made
<1>3. \A w \in Live : pc[w] # "exit" => pc'[w] # "exit"
  BY DEF Live
<1>4. QED
  BY <1>1, <1>2, <1>3 DEF Drains

(* A thread that neither enters nor leaves what is counted, and may end    *)
(* its task or its barrier.                                                *)
LEMMA QuietStep ==
    ASSUME TaskInv, NEW t \in Thread, Shape', Places', Alone(t),
           UNCHANGED <<tq_state, freed, tq_running, tq_worklist, tq_barriers, tq_bgen, tq_bthreads>>,
           \A x \in (Task \cup Thread) \ {t} : x \in onqueue' <=> x \in onqueue,
           pc[t] # "bar_wait", pc'[t] # "bar_wait",
           t \in Worker => /\ pc'[t] \in LeftPC <=> pc[t] \in LeftPC
                           /\ pc'[t] = "exit" <=> pc[t] = "exit"
                           /\ HeldBy(t)' <=> HeldBy(t)
                           /\ job'[t] = job[t] \/ job'[t] = NULL,
           gen'[t] <= tq_bgen,
           \/ awaited' = awaited
           \/ t \in Worker /\ job'[t] = NULL /\ \A u \in Thread : awaited'[u] = awaited[u] \ {t},
           \A u \in Thread : t \notin awaited'[u],
           t \in Client => /\ Stops(t)' => Stops(t) /\ del'[t] = del[t] /\ pc[t] # "bar_enter"
                           /\ tq_state = "DESTROYED" => pc'[t] \in {"idle", "destroy_wait"}
                           /\ pc'[t] = "destroy_wait" => pc[t] = "destroy_wait"
    PROVE  TaskInv'
<1>1. /\ \A u \in Thread \ {t} : pc'[u] = pc[u] /\ del'[u] = del[u] /\ gen'[u] = gen[u]
      /\ \A w \in Worker \ {t} : job'[w] = job[w]
      /\ pc'[Creator] = pc[Creator]
  BY Constants DEF Alone, AllThreads
<1>2. \A w \in Worker : HeldBy(w)' <=> HeldBy(w)
  BY <1>1, Constants DEF HeldBy
<1>3. Queue'
  <2>1. \A x \in Task : x \in onqueue' <=> x \in onqueue
    BY Constants
  <2>2. \A u \in Thread : (pc'[u] = "bar_wait" /\ u \in onqueue') <=> (pc[u] = "bar_wait" /\ u \in onqueue)
    BY <1>1
  <2>3. QED
    BY <2>1, <2>2 DEF TaskInv, Queue, Queued
<1>4. Counts' /\ Live' = Live
  <2>1. \A w \in Worker : (pc'[w] \in LeftPC) <=> (pc[w] \in LeftPC)
    BY <1>1, Constants
  <2>2. \A u \in Thread : gen'[u] <= tq_bgen
    BY <1>1 DEF TaskInv, Counts
  <2>3. \A u \in Thread : (pc'[u] = "bar_wait") <=> (pc[u] = "bar_wait")
    BY <1>1
  <2>4. QED
    BY <1>1, <1>2, <2>1, <2>2, <2>3, CountsFrame DEF TaskInv
<1>5. Awaits'
  <2>1. \A u \in Thread : awaited'[u] \subseteq awaited[u] /\ awaited'[u] \subseteq Worker \ {t}
    BY DEF Shape
  <2>2. \A u \in Thread : pc[u] = "bar_wait" => pc'[u] = "bar_wait"
    BY <1>1
  <2>3. \A w \in Worker \ {t} : pc'[w] = pc[w] /\ job'[w] = job[w]
    BY <1>1, Constants
  <2>4. QED
    BY <1>4, <2>1, <2>2, <2>3, AwaitsFrame DEF TaskInv
<1>6. Stopped'
  <2>1. \A c \in Client, w \in Worker : job'[w] \in Task =>
            job'[w] = job[w] /\ (w \in awaited[c] => w \in awaited'[c])
    BY <1>1, Constants
  <2>2. \A c \in Client : Stops(c)' => /\ Stops(c) /\ del'[c] = del[c]
                                       /\ pc'[c] # "bar_enter" => pc[c] # "bar_enter"
    <3> SUFFICES ASSUME NEW c \in Client, Stops(c)'
                 PROVE  /\ Stops(c) /\ del'[c] = del[c]
                        /\ pc'[c] # "bar_enter" => pc[c] # "bar_enter"
      OBVIOUS
    <3>1. CASE c = t
      BY <3>1
    <3>2. CASE c # t
      <4>1. pc'[c] = pc[c] /\ del'[c] = del[c]
        BY <1>1, <3>2, Constants
      <4>2. QED
        BY <4>1 DEF Stops
    <3>3. QED
      BY <3>1, <3>2
  <2>3. del' \in [Thread -> Task \cup {NULL}]
    BY DEF Shape
  <2>4. \A x \in Task : x \in onqueue' => x \in onqueue
    BY Constants
  <2>5. QED
    BY <2>1, <2>2, <2>3, <2>4, StoppedFrame DEF TaskInv
<1>7. Drains'
  <2>1. \A w \in Worker : pc'[w] \in LeftPC \cup {"exit"} <=> pc[w] \in LeftPC \cup {"exit"}
    BY <1>1, Constants
  <2>2. \A c \in Client : pc'[c] = "destroy_wait" => pc[c] = "destroy_wait"
    BY <1>1, Constants
  <2>3. tq_state = "DESTROYED" => \A c \in Client : pc'[c] \in {"idle", "destroy_wait"}
    BY <1>1, Constants DEF TaskInv, Drains
  <2>4. \A w \in Worker : job[w] = NULL => job'[w] = NULL
    BY <1>1
  <2>5. QED
    BY <1>1, <1>4, <2>1, <2>2, <2>3, <2>4, DrainsFrame DEF TaskInv
<1>8. QED
  BY <1>3, <1>4, <1>5, <1>6, <1>7 DEF TaskInv

(* Who runs no task function, or is in a barrier, is waited for by nobody. *)
LEMMA NotAwaited ==
    ASSUME TaskInv, NEW t \in Thread,
           t \in Worker => job[t] \notin Task \/ pc[t] \in BarrierPC \ {"bar_enter"}
    PROVE  \A u \in Thread : t \notin awaited[u]
<1>1. \A u \in Thread : awaited[u] \subseteq Worker
  BY DEF TaskInv, Shape
<1>2. QED
  BY <1>1 DEF TaskInv, Awaits

(* A new worker starts to take work.                                       *)
LEMMA StartPreserves ==
    ASSUME TaskInv, NEW w \in Worker, ThreadStart(w)
    PROVE  TaskInv'
<1>1. w \in Thread /\ w \notin Client
  BY Constants
<1>2. Shape' /\ Places' /\ Alone(w) /\ pc'[w] = "next" /\ pc[w] = "start"
  BY StartShape DEF TaskInv
<1>3. UNCHANGED <<tq_state, freed, tq_running, tq_worklist, onqueue, tq_barriers, tq_bgen,
                  tq_bthreads, gen, awaited, job>>
  BY DEF ThreadStart, queueVars, barrierVars
<1>4. job[w] = NULL
  BY <1>2 DEF TaskInv, Places, WorkerPlace, FreePC
<1>5. \A u \in Thread : w \notin awaited'[u]
  BY <1>1, <1>3, <1>4, Constants, NotAwaited
<1>6. gen'[w] <= tq_bgen
  BY <1>1, <1>3 DEF TaskInv, Counts
<1>7. pc'[w] \notin LeftPC /\ pc[w] \notin LeftPC /\ ~HeldBy(w) /\ ~HeldBy(w)'
  BY <1>2 DEF HeldBy, LeftPC
<1>8. QED
  BY <1>1, <1>2, <1>3, <1>5, <1>6, <1>7, QuietStep

(* A task function returns, and no barrier waits for its worker any more.  *)
LEMMA JobDonePreserves ==
    ASSUME TaskInv, NEW w \in Worker, JobDone(w)
    PROVE  TaskInv'
<1>1. w \in Thread /\ w \notin Client /\ w \in AllThreads /\ "next" \in PC
  BY Constants DEF AllThreads, PC
<1>2. /\ pc[w] = "job" /\ job' = [job EXCEPT ![w] = NULL]
      /\ awaited' = [t \in Thread |-> awaited[t] \ {w}]
      /\ UNCHANGED <<tq_state, freed, tq_running, tq_threads, tq_worklist, onqueue, tq_barriers,
                     tq_bgen, tq_bthreads, gen, sleepq, del>>
  BY DEF JobDone, At, threadVars, queueVars
<1>3. /\ pc' \in [AllThreads -> PC] /\ pc'[w] = "next"
      /\ \A u \in AllThreads \ {w} : pc'[u] = pc[u]
  BY <1>1, GotoEffect DEF JobDone, TaskInv
<1>4. /\ job' \in [Worker -> Task \cup Thread \cup {NULL}] /\ job'[w] = NULL
      /\ \A v \in Worker \ {w} : job'[v] = job[v]
      /\ awaited' \in [Thread -> SUBSET Worker] /\ \A u \in Thread : awaited'[u] = awaited[u] \ {w}
  BY <1>2 DEF TaskInv, Shape
<1>5. Shape'
  BY <1>2, <1>3, <1>4 DEF TaskInv, Shape
<1>6. Alone(w)
  BY <1>2, <1>3, <1>4 DEF Alone
<1>7. WorkerPlace(w) /\ CallPlace(w)
  BY <1>1 DEF TaskInv, Places
<1>8. WorkerPlace(w)' /\ CallPlace(w)'
  BY <1>1, <1>2, <1>3, <1>4, <1>7
     DEF WorkerPlace, CallPlace, WorkerPC, FreePC, LeftPC, InTaskPC, BarrierPC
<1>9. Places'
  BY <1>1, <1>6, <1>8, PlacesStep DEF TaskInv
<1>10. gen'[w] <= tq_bgen
  BY <1>1, <1>2 DEF TaskInv, Counts
<1>11. pc'[w] \notin LeftPC /\ pc[w] \notin LeftPC /\ ~HeldBy(w) /\ ~HeldBy(w)'
  BY <1>2, <1>3 DEF HeldBy, LeftPC
<1>12. QED
  BY <1>1, <1>2, <1>3, <1>4, <1>5, <1>6, <1>9, <1>10, <1>11, QuietStep

(* A worker that a barrier held is woken: it sleeps on or takes work       *)
(* again.                                                                  *)
LEMMA TaskWokenPreserves ==
    ASSUME TaskInv, NEW w \in Worker, BarrierTaskWoken(w)
    PROVE  TaskInv'
<1>1. w \in Thread /\ w \notin Client /\ w \in AllThreads /\ "next" \in PC
  BY Constants DEF AllThreads, PC
<1>2. /\ pc[w] = "bt_wait"
      /\ UNCHANGED <<tq_state, freed, tq_running, tq_threads, tq_worklist, onqueue, tq_barriers,
                     tq_bgen, tq_bthreads, gen, awaited, del>>
  BY DEF BarrierTaskWoken, At, threadVars, queueVars, barrierVars
<1>3. WorkerPlace(w) /\ CallPlace(w)
  BY <1>1 DEF TaskInv, Places
<1>4. job[w] \notin Task /\ \A u \in Thread : w \notin awaited[u]
  <2>1. job[w] \in Thread
    BY <1>2, <1>3 DEF WorkerPlace
  <2>2. job[w] \notin Task
    BY <2>1, Constants
  <2>3. QED
    BY <1>1, <2>2, NotAwaited
<1>5. gen'[w] <= tq_bgen
  BY <1>1, <1>2 DEF TaskInv, Counts
<1>6. CASE gen[w] = tq_bgen
  <2>1. sleepq' = SleepOn(sleepq, "tq_bgen", w) /\ pc' = pc /\ job' = job
    BY <1>6 DEF BarrierTaskWoken
  <2>2. sleepq' \in Sleepers
    BY <1>1, <2>1, SleepTypes DEF TaskInv, Shape, Chan
  <2>3. Shape'
    BY <1>2, <2>1, <2>2 DEF TaskInv, Shape
  <2>4. Alone(w)
    BY <1>2, <2>1 DEF Alone
  <2>5. WorkerPlace(w)' /\ CallPlace(w)'
    BY <1>2, <1>3, <2>1 DEF WorkerPlace, CallPlace
  <2>6. Places'
    BY <1>1, <2>4, <2>5, PlacesStep DEF TaskInv
  <2>7. HeldBy(w)' <=> HeldBy(w)
    BY <1>2, <2>1 DEF HeldBy
  <2>8. QED
    BY <1>1, <1>2, <1>4, <1>5, <2>1, <2>3, <2>4, <2>6, <2>7, QuietStep
<1>7. CASE gen[w] # tq_bgen
  <2>1. sleepq' = sleepq /\ Goto(w, "next") /\ job' = [job EXCEPT ![w] = NULL]
    BY <1>7 DEF BarrierTaskWoken
  <2>2. /\ pc' \in [AllThreads -> PC] /\ pc'[w] = "next"
        /\ \A u \in AllThreads \ {w} : pc'[u] = pc[u]
    BY <1>1, <2>1, GotoEffect DEF TaskInv
  <2>3. /\ job' \in [Worker -> Task \cup Thread \cup {NULL}] /\ job'[w] = NULL
        /\ \A v \in Worker \ {w} : job'[v] = job[v]
    BY <2>1 DEF TaskInv, Shape
  <2>4. Shape'
    BY <1>2, <2>1, <2>2, <2>3 DEF TaskInv, Shape
  <2>5. Alone(w)
    BY <1>2, <2>2, <2>3 DEF Alone
  <2>6. WorkerPlace(w)' /\ CallPlace(w)'
    BY <1>1, <1>2, <1>3, <2>2, <2>3
       DEF WorkerPlace, CallPlace, WorkerPC, FreePC, LeftPC, InTaskPC, BarrierPC
  <2>7. Places'
    BY <1>1, <2>5, <2>6, PlacesStep DEF TaskInv
  <2>8. pc'[w] \notin LeftPC /\ pc[w] \notin LeftPC /\ ~HeldBy(w) /\ ~HeldBy(w)'
    BY <1>2, <1>7, <2>2 DEF HeldBy, LeftPC
  <2>9. QED
    BY <1>1, <1>2, <1>4, <1>5, <2>2, <2>3, <2>4, <2>5, <2>7, <2>8, QuietStep
<1>8. QED
  BY <1>6, <1>7

(* A barrier that waits for the last one is woken.                         *)
LEMMA GenPreserves ==
    ASSUME TaskInv, NEW t \in Thread, BarrierGen(t)
    PROVE  TaskInv'
<1>1. t \in AllThreads /\ "bar_done" \in PC
  BY DEF AllThreads, PC, BarrierPC
<1>2. /\ pc[t] = "bar_gen"
      /\ UNCHANGED <<tq_state, freed, tq_running, tq_threads, tq_worklist, onqueue, tq_barriers,
                     tq_bgen, tq_bthreads, gen, awaited, job, del>>
  BY DEF BarrierGen, At, threadVars, queueVars, barrierVars
<1>3. CallPlace(t) /\ (t \in Worker => WorkerPlace(t))
  BY DEF TaskInv, Places
<1>4. \A u \in Thread : t \notin awaited[u]
  BY <1>2, NotAwaited DEF BarrierPC
<1>5. gen'[t] <= tq_bgen
  BY <1>2 DEF TaskInv, Counts
<1>6. tq_state = "DESTROYED" => t \notin Client
  BY <1>2 DEF TaskInv, Drains
<1>7. CASE gen[t] = tq_bgen
  <2>1. sleepq' = SleepOn(sleepq, "tq_bgen", t) /\ pc' = pc
    BY <1>7 DEF BarrierGen
  <2>2. sleepq' \in Sleepers
    BY <2>1, SleepTypes DEF TaskInv, Shape, Chan
  <2>3. Shape'
    BY <1>2, <2>1, <2>2 DEF TaskInv, Shape
  <2>4. Alone(t)
    BY <1>2, <2>1 DEF Alone
  <2>5. (t \in Worker => WorkerPlace(t)') /\ CallPlace(t)'
    BY <1>2, <1>3, <2>1 DEF WorkerPlace, CallPlace
  <2>6. Places'
    BY <2>4, <2>5, PlacesStep DEF TaskInv
  <2>7. (HeldBy(t)' <=> HeldBy(t)) /\ (Stops(t)' <=> Stops(t))
    BY <1>2, <2>1 DEF HeldBy, Stops
  <2>8. QED
    BY <1>2, <1>4, <1>5, <1>6, <2>1, <2>3, <2>4, <2>6, <2>7, QuietStep
<1>8. CASE gen[t] # tq_bgen
  <2>1. sleepq' = sleepq /\ Goto(t, "bar_done")
    BY <1>8 DEF BarrierGen
  <2>2. /\ pc' \in [AllThreads -> PC] /\ pc'[t] = "bar_done"
        /\ \A u \in AllThreads \ {t} : pc'[u] = pc[u]
    BY <1>1, <2>1, GotoEffect DEF TaskInv
  <2>3. Shape'
    BY <1>2, <2>1, <2>2 DEF TaskInv, Shape
  <2>4. Alone(t)
    BY <1>2, <2>2 DEF Alone
  <2>5. (t \in Worker => WorkerPlace(t)') /\ CallPlace(t)'
    BY <1>2, <1>3, <2>2, Constants
       DEF WorkerPlace, CallPlace, WorkerPC, ClientPC, FreePC, LeftPC, InTaskPC, BarrierPC
  <2>6. Places'
    BY <2>4, <2>5, PlacesStep DEF TaskInv
  <2>7. pc'[t] \notin LeftPC /\ pc[t] \notin LeftPC /\ ~HeldBy(t) /\ ~HeldBy(t)'
    BY <1>2, <1>8, <2>2 DEF HeldBy, LeftPC
  <2>8. Stops(t)' => Stops(t)
    BY <1>2, <2>2 DEF Stops, BarrierPC
  <2>9. QED
    BY <1>2, <1>4, <1>5, <1>6, <2>2, <2>3, <2>4, <2>6, <2>7, <2>8, QuietStep
<1>9. QED
  BY <1>7, <1>8

(* taskq_barrier returns.                                                  *)
LEMMA ReturnPreserves ==
    ASSUME TaskInv, NEW t \in Thread, BarrierReturn(t)
    PROVE  TaskInv'
<1>1. /\ t \in AllThreads /\ Base(t) \in PC /\ Base(t) = IF t \in Worker THEN "job" ELSE "idle"
      /\ (t \in Worker <=> t \notin Client)
  BY Constants DEF AllThreads, PC, Base
<1>2. /\ pc[t] = "bar_done" /\ Goto(t, Base(t)) /\ del' = [del EXCEPT ![t] = NULL]
      /\ gen' = [gen EXCEPT ![t] = 0] /\ onqueue' = onqueue \ {t}
      /\ awaited' = [awaited EXCEPT ![t] = {}]
      /\ UNCHANGED <<tq_state, freed, tq_running, tq_threads, tq_worklist, tq_barriers,
                     tq_bgen, tq_bthreads, sleepq, job>>
  BY DEF BarrierReturn, threadVars
<1>3. CallPlace(t) /\ (t \in Worker => WorkerPlace(t))
  BY DEF TaskInv, Places
<1>4. awaited[t] = {}
  BY <1>2 DEF TaskInv, Awaits
<1>5. awaited' = awaited
  BY <1>2, <1>4 DEF TaskInv, Shape
<1>6. \A u \in Thread : t \notin awaited'[u]
  BY <1>2, <1>5, NotAwaited DEF BarrierPC
<1>7. /\ pc' \in [AllThreads -> PC] /\ pc'[t] = Base(t)
      /\ \A u \in AllThreads \ {t} : pc'[u] = pc[u]
  BY <1>1, <1>2, GotoEffect DEF TaskInv
<1>8. /\ del' \in [Thread -> Task \cup {NULL}] /\ del'[t] = NULL
      /\ \A u \in Thread \ {t} : del'[u] = del[u]
      /\ gen' \in [Thread -> Nat] /\ gen'[t] = 0
      /\ \A u \in Thread \ {t} : gen'[u] = gen[u]
  BY <1>2 DEF TaskInv, Shape
<1>9. Shape'
  BY <1>2, <1>5, <1>7, <1>8 DEF TaskInv, Shape
<1>10. Alone(t)
  BY <1>2, <1>7, <1>8 DEF Alone
<1>11. (t \in Worker => WorkerPlace(t)') /\ CallPlace(t)'
  BY <1>1, <1>2, <1>3, <1>7, <1>8
     DEF WorkerPlace, CallPlace, WorkerPC, ClientPC, FreePC, LeftPC, InTaskPC, BarrierPC
<1>12. Places'
  BY <1>10, <1>11, PlacesStep DEF TaskInv
<1>13. /\ pc'[t] \notin LeftPC /\ pc[t] \notin LeftPC /\ ~HeldBy(t) /\ ~HeldBy(t)'
       /\ ~Stops(t)' /\ pc'[t] \notin {"exit", "bar_wait", "destroy_wait"}
  BY <1>1, <1>2, <1>7 DEF HeldBy, LeftPC, Stops, BarrierPC
<1>14. gen'[t] <= tq_bgen
  BY <1>8 DEF TaskInv, Shape
<1>15. tq_state = "DESTROYED" => t \notin Client
  BY <1>2 DEF TaskInv, Drains
<1>16. QED
  BY <1>2, <1>5, <1>6, <1>9, <1>10, <1>12, <1>13, <1>14, <1>15, QuietStep

(* task_add of a task that is queued by now.                               *)
LEMMA AddSkipPreserves ==
    ASSUME TaskInv, NEW t \in Thread, AddLocked(t), del[t] \in onqueue
    PROVE  TaskInv'
<1>1. /\ Base(t) \in PC /\ Base(t) = IF t \in Worker THEN "job" ELSE "idle"
      /\ (t \in Worker <=> t \notin Client)
  BY Constants DEF PC, Base
<1>2. /\ pc[t] = "add_lock" /\ Goto(t, Base(t)) /\ del' = [del EXCEPT ![t] = NULL]
      /\ UNCHANGED <<threadVars, queueVars, barrierVars, sleepq, job>>
  BY DEF AddLocked
<1>3. Moves(t, Base(t))
  BY <1>2 DEF Moves, TaskInv, Shape
<1>4. /\ Alone(t) /\ pc'[t] = Base(t) /\ UNCHANGED <<job, tq_threads>>
  BY <1>1, <1>3, MoveShape DEF TaskInv
<1>5. CallPlace(t) /\ (t \in Worker => WorkerPlace(t)) /\ del'[t] = NULL
  BY <1>2 DEF TaskInv, Places, Shape
<1>6. (t \in Worker => WorkerPlace(t)') /\ CallPlace(t)'
  BY <1>1, <1>2, <1>4, <1>5
     DEF WorkerPlace, CallPlace, WorkerPC, ClientPC, FreePC, LeftPC, InTaskPC, BarrierPC
<1>7. Places'
  BY <1>4, <1>6, PlacesStep DEF TaskInv
<1>8. PICK l \in {"job", "idle"} : l = Base(t)
  BY <1>1
<1>9. ~HeldBy(t) /\ pc[t] \notin LeftPC /\ l \notin LeftPC /\ l \notin BarrierPC
  BY <1>2 DEF HeldBy, LeftPC, BarrierPC
<1>10. tq_state = "DESTROYED" => t \notin Client
  BY <1>2 DEF TaskInv, Drains
<1>11. QED
  BY <1>1, <1>2, <1>3, <1>7, <1>8, <1>9, <1>10, QuietMove

-----------------------------------------------------------------------------
(* The worklist *)

Entry(q, x) == \E i \in 1 .. Len(q) : q[i] = x
Distinct(q) == \A i, j \in 1 .. Len(q) : q[i] = q[j] => i = j

(* TAILQ_INSERT_TAIL.                                                      *)
LEMMA AppendEntries ==
    ASSUME NEW S, NEW q \in Seq(S), NEW x \in S, Distinct(q), ~Entry(q, x)
    PROVE  /\ Append(q, x) \in Seq(S) /\ Distinct(Append(q, x)) /\ Append(q, x) # <<>>
           /\ \A y : Entry(Append(q, x), y) <=> Entry(q, y) \/ y = x
<1> DEFINE r == Append(q, x)
<1>1. /\ r \in Seq(S) /\ Len(q) \in Nat /\ Len(r) = Len(q) + 1 /\ r # <<>>
      /\ r[Len(q) + 1] = x /\ \A i \in 1 .. Len(q) : r[i] = q[i]
  BY AppendProperties, LenProperties
<1> HIDE DEF r
<1>2. Distinct(r)
  BY <1>1 DEF Distinct, Entry
<1>3. ASSUME NEW y PROVE Entry(r, y) <=> Entry(q, y) \/ y = x
  <2>1. \A i \in 1 .. Len(r) : i \in 1 .. Len(q) \/ i = Len(q) + 1
    BY <1>1
  <2>2. Len(q) + 1 \in 1 .. Len(r) /\ \A i \in 1 .. Len(q) : i \in 1 .. Len(r)
    BY <1>1
  <2>3. QED
    BY <1>1, <2>1, <2>2 DEF Entry
<1>4. QED
  BY <1>1, <1>2, <1>3 DEF r

(* TAILQ_FIRST and TAILQ_REMOVE of it.                                     *)
LEMMA TailEntries ==
    ASSUME NEW S, NEW q \in Seq(S), Distinct(q), q # <<>>
    PROVE  /\ Tail(q) \in Seq(S) /\ Distinct(Tail(q)) /\ Head(q) \in S /\ Entry(q, Head(q))
           /\ \A y : Entry(Tail(q), y) <=> Entry(q, y) /\ y # Head(q)
<1>1. /\ Head(q) \in S /\ Tail(q) \in Seq(S) /\ Len(Tail(q)) = Len(q) - 1
      /\ \A i \in 1 .. Len(Tail(q)) : Tail(q)[i] = q[i + 1]
  BY HeadTailProperties
<1>2. Head(q) = q[1] /\ Len(q) \in Nat /\ Len(q) >= 1
  BY EmptySeq, LenProperties
<1>3. PICK r, h : r = Tail(q) /\ h = Head(q)
  OBVIOUS
<1>n. PICK n \in Nat : n = Len(q)
  BY <1>2
<1>4. /\ Len(r) = n - 1 /\ n >= 1 /\ h = q[1] /\ \A i \in 1 .. n - 1 : r[i] = q[i + 1]
      /\ \A i, j \in 1 .. n : q[i] = q[j] => i = j
  BY <1>1, <1>2, <1>3, <1>n DEF Distinct
<1>5. Distinct(r)
  <2>1. \A i \in 1 .. n - 1 : i + 1 \in 1 .. n
    BY <1>4
  <2>2. QED
    BY <1>4, <2>1 DEF Distinct
<1>6. ASSUME NEW y PROVE (\E i \in 1 .. n - 1 : r[i] = y) <=> (\E i \in 1 .. n : q[i] = y) /\ y # h
  <2>1. ASSUME NEW i \in 1 .. n - 1, r[i] = y PROVE (\E j \in 1 .. n : q[j] = y) /\ y # h
    <3>1. i + 1 \in 1 .. n /\ 1 \in 1 .. n /\ i + 1 # 1 /\ q[i + 1] = y
      BY <1>4, <2>1
    <3>2. QED
      BY <1>4, <3>1
  <2>2. ASSUME NEW i \in 1 .. n, q[i] = y, y # h PROVE \E j \in 1 .. n - 1 : r[j] = y
    <3>1. i - 1 \in 1 .. n - 1 /\ r[i - 1] = q[i]
      BY <1>4, <2>2
    <3>2. QED
      BY <2>2, <3>1
  <2>3. QED
    BY <2>1, <2>2
<1>7. Entry(q, h)
  BY <1>3, <1>n, <1>4 DEF Entry
<1>8. \A y : Entry(r, y) <=> Entry(q, y) /\ y # h
  BY <1>3, <1>n, <1>4, <1>6 DEF Entry
<1>9. QED
  BY <1>1, <1>3, <1>5, <1>7, <1>8

(* TAILQ_REMOVE of an entry.                                               *)
LEMMA UnqueueEntries ==
    ASSUME NEW S, NEW q \in Seq(S), NEW x, Distinct(q), Entry(q, x)
    PROVE  /\ Unqueue(q, x) \in Seq(S) /\ Distinct(Unqueue(q, x))
           /\ \A y : Entry(Unqueue(q, x), y) <=> Entry(q, y) /\ y # x
<1>1. PICK n \in Nat : n = Len(q) /\ DOMAIN q = 1 .. n
  BY LenProperties
<1>2. PICK k \in 1 .. n : q[k] = x /\ Unqueue(q, x) = RemoveAt(q, k)
  BY <1>1 DEF Unqueue, Entry
<1>3. PICK a, b : a = SubSeq(q, 1, k - 1) /\ b = SubSeq(q, k + 1, n)
  OBVIOUS
<1>4. /\ a \in Seq(S) /\ Len(a) = k - 1 /\ \A i \in 1 .. k - 1 : a[i] = q[i]
  BY <1>1, <1>3, SubSeqProperties
<1>5. /\ b \in Seq(S) /\ Len(b) = n - k /\ \A i \in 1 .. n - k : b[i] = q[k + i]
  BY <1>1, <1>3, SubSeqProperties
<1>6. PICK r : r = a \o b
  OBVIOUS
<1>7. /\ r \in Seq(S) /\ Len(r) = n - 1
      /\ \A i \in 1 .. n - 1 : r[i] = IF i < k THEN q[i] ELSE q[i + 1]
  <2>1. /\ r \in Seq(S) /\ Len(r) = Len(a) + Len(b)
        /\ \A i \in 1 .. Len(a) + Len(b) :
              r[i] = IF i <= Len(a) THEN a[i] ELSE b[i - Len(a)]
    BY <1>4, <1>5, <1>6, ConcatProperties
  <2>2. QED
    BY <1>4, <1>5, <2>1
<1>8. \A i, j \in 1 .. n : q[i] = q[j] => i = j
  BY <1>1 DEF Distinct
<1>9. Distinct(r)
  BY <1>7, <1>8 DEF Distinct
<1>10. ASSUME NEW y PROVE (\E i \in 1 .. n - 1 : r[i] = y) <=> (\E i \in 1 .. n : q[i] = y) /\ y # x
  <2>1. ASSUME NEW i \in 1 .. n - 1, r[i] = y PROVE (\E j \in 1 .. n : q[j] = y) /\ y # x
    <3>1. PICK j \in 1 .. n : j # k /\ r[i] = q[j]
      <4>1. CASE i < k
        BY <1>7, <4>1
      <4>2. CASE i >= k
        <5>1. i + 1 \in 1 .. n /\ i + 1 # k /\ r[i] = q[i + 1]
          BY <1>7, <4>2
        <5>2. QED
          BY <5>1
      <4>3. QED
        BY <4>1, <4>2
    <3>2. QED
      BY <1>2, <1>8, <2>1, <3>1
  <2>2. ASSUME NEW i \in 1 .. n, q[i] = y, y # x PROVE \E j \in 1 .. n - 1 : r[j] = y
    <3>1. CASE i < k
      BY <1>2, <1>7, <2>2, <3>1
    <3>2. CASE i > k
      <4>1. i - 1 \in 1 .. n - 1 /\ r[i - 1] = q[i]
        BY <1>7, <3>2
      <4>2. QED
        BY <2>2, <4>1
    <3>3. i # k
      BY <1>2, <2>2
    <3>4. QED
      BY <3>1, <3>2, <3>3
  <2>3. QED
    BY <2>1, <2>2
<1>11. \A y : Entry(r, y) <=> Entry(q, y) /\ y # x
  BY <1>1, <1>7, <1>10 DEF Entry
<1>12. Unqueue(q, x) = r
  BY <1>1, <1>2, <1>3, <1>6 DEF RemoveAt
<1>13. QED
  BY <1>7, <1>9, <1>11, <1>12

(* Queue, about the entries.                                               *)
LEMMA QueueEntries ==
    Queue <=> /\ Distinct(tq_worklist)
              /\ \A x \in Task : x \in onqueue <=> Entry(tq_worklist, x)
              /\ \A t \in Thread : Entry(tq_worklist, t) <=> (pc[t] = "bar_wait" /\ t \in onqueue)
  BY DEF Queue, Queued, Distinct, Entry

(* task_add queues the task: its caller is among those who add it, so no   *)
(* barrier that stopped the task sees it queued.                           *)
LEMMA AddPreserves ==
    ASSUME TaskInv, NEW t \in Thread, AddLocked(t), del[t] \notin onqueue
    PROVE  TaskInv'
<1>1. /\ t \in AllThreads /\ "add_wake" \in PC /\ (t \in Worker <=> t \notin Client)
  BY Constants DEF AllThreads, PC
<1>2. CallPlace(t) /\ (t \in Worker => WorkerPlace(t))
  BY DEF TaskInv, Places
<1>3. /\ pc[t] = "add_lock" /\ Goto(t, "add_wake") /\ del' = [del EXCEPT ![t] = NULL]
      /\ onqueue' = onqueue \cup {del[t]} /\ tq_worklist' = Append(tq_worklist, del[t])
      /\ UNCHANGED <<tq_state, freed, tq_running, tq_threads, tq_barriers, tq_bgen,
                     tq_bthreads, gen, awaited, sleepq, job>>
  BY DEF AddLocked, threadVars, barrierVars
<1>4. PICK x \in Task : x = del[t] /\ t \in Adders[x]
  BY <1>2, <1>3 DEF CallPlace
<1>5. /\ pc' \in [AllThreads -> PC] /\ pc'[t] = "add_wake"
      /\ \A u \in AllThreads \ {t} : pc'[u] = pc[u]
  BY <1>1, <1>3, GotoEffect DEF TaskInv
<1>6. /\ del' \in [Thread -> Task \cup {NULL}] /\ del'[t] = NULL
      /\ \A u \in Thread \ {t} : del'[u] = del[u]
  BY <1>3 DEF TaskInv, Shape
<1>7. /\ Distinct(tq_worklist) /\ ~Entry(tq_worklist, x)
      /\ tq_worklist \in Seq(Task \cup Thread)
  BY <1>4, QueueEntries DEF TaskInv, Shape
<1>8. /\ tq_worklist' \in Seq(Task \cup Thread) /\ Distinct(tq_worklist') /\ tq_worklist' # <<>>
      /\ \A y : Entry(tq_worklist', y) <=> Entry(tq_worklist, y) \/ y = x
  BY <1>3, <1>4, <1>7, AppendEntries
<1>9. Shape'
  BY <1>3, <1>4, <1>5, <1>6, <1>8 DEF TaskInv, Shape
<1>10. Alone(t)
  BY <1>3, <1>5, <1>6 DEF Alone
<1>11. (t \in Worker => WorkerPlace(t)') /\ CallPlace(t)'
  BY <1>1, <1>2, <1>3, <1>5, <1>6
     DEF WorkerPlace, CallPlace, WorkerPC, ClientPC, FreePC, LeftPC, InTaskPC, BarrierPC
<1>12. Places'
  BY <1>10, <1>11, PlacesStep DEF TaskInv
<1>13. /\ \A u \in Thread : pc'[u] = pc[u] \/ u = t
       /\ pc'[Creator] = pc[Creator]
  BY <1>5, Constants DEF AllThreads
<1>14. Queue'
  <2>1. \A y \in Task : y \in onqueue' <=> Entry(tq_worklist', y)
    <3>1. \A y \in Task : y \in onqueue <=> Entry(tq_worklist, y)
      BY QueueEntries DEF TaskInv
    <3>2. onqueue' = onqueue \cup {x}
      BY <1>3, <1>4
    <3>3. QED
      BY <1>8, <3>1, <3>2
  <2>2. \A u \in Thread : Entry(tq_worklist', u) <=> (pc'[u] = "bar_wait" /\ u \in onqueue')
    <3>1. \A u \in Thread : u # x
      BY Constants
    <3>2. \A u \in Thread : u \in onqueue' <=> u \in onqueue
      BY <1>3, <1>4, <3>1
    <3>3. \A u \in Thread : pc'[u] = "bar_wait" <=> pc[u] = "bar_wait"
      BY <1>3, <1>5, <1>13
    <3>4. QED
      BY <1>8, <3>1, <3>2, <3>3, QueueEntries DEF TaskInv
  <2>3. QED
    BY <1>8, <2>1, <2>2 DEF Queue, Queued, Distinct, Entry
<1>15. \A w \in Worker : HeldBy(w)' <=> HeldBy(w)
  BY <1>3, <1>5, <1>13, Constants DEF HeldBy
<1>16. Counts' /\ Live' = Live
  <2>1. \A w \in Worker : (pc'[w] \in LeftPC) <=> (pc[w] \in LeftPC)
    BY <1>3, <1>5, <1>13, Constants DEF LeftPC
  <2>2. \A u \in Thread : (pc'[u] = "bar_wait") <=> (pc[u] = "bar_wait")
    BY <1>3, <1>5, <1>13
  <2>3. QED
    BY <1>3, <1>13, <1>15, <2>1, <2>2, CountsFrame DEF TaskInv, Counts
<1>17. Awaits'
  <2>1. \A u \in Thread : awaited[u] \subseteq Worker
    BY DEF TaskInv, Shape
  <2>2. \A w \in Worker : pc'[w] = pc[w] \/ pc'[w] = "add_wake"
    BY <1>5, <1>13, Constants
  <2>3. \A u \in Thread : pc[u] = "bar_wait" => pc'[u] = "bar_wait"
    BY <1>3, <1>13
  <2>4. "add_wake" \notin BarrierPC
    BY DEF BarrierPC
  <2>5. QED
    BY <1>3, <1>16, <2>1, <2>2, <2>3, <2>4, AwaitsFrame DEF TaskInv
<1>18. Stopped'
  <2> SUFFICES ASSUME NEW c \in Client, Stops(c)'
               PROVE  /\ del'[c] \notin onqueue'
                      /\ pc'[c] # "bar_enter" =>
                            \A w \in Worker : job'[w] = del'[c] => w \in awaited'[c]
    BY DEF Stopped
  <2>1. c # t /\ c \in Thread
    BY <1>5, Constants DEF Stops, BarrierPC
  <2>2. pc'[c] = pc[c] /\ del'[c] = del[c]
    BY <1>6, <1>13, <2>1
  <2>3. Stops(c)
    BY <2>2 DEF Stops
  <2>4. del[c] # x
    BY <1>4, <2>1, <2>3 DEF Stops
  <2>5. QED
    BY <1>3, <1>4, <2>2, <2>3, <2>4 DEF TaskInv, Stopped
<1>19. Drains'
  <2>1. tq_state = "DESTROYED" => t \in Worker
    BY <1>1, <1>3 DEF TaskInv, Drains
  <2>2. t \in Worker => t \in Working' /\ job[t] # NULL
    BY <1>2, <1>3, <1>5, Constants DEF Working, LeftPC, WorkerPlace, InTaskPC
  <2>3. \A w \in Worker : pc[w] # "exit" => pc'[w] # "exit"
    BY <1>5, <1>13, Constants
  <2>4. \A c \in Client : pc'[c] = pc[c] \/ (c = t /\ pc'[c] = "add_wake")
    BY <1>5, <1>13, Constants
  <2>5. (Made' <=> Made) /\ Live \subseteq Worker
    BY <1>13, <1>16 DEF Made, Live
  <2>6. freed => pc[Creator] = "none"
    BY <2>1, <2>2 DEF TaskInv, Drains
  <2>7. QED
    BY <1>1, <1>3, <1>13, <1>16, <2>1, <2>2, <2>3, <2>4, <2>5, <2>6 DEF TaskInv, Drains
<1>20. QED
  BY <1>9, <1>12, <1>14, <1>16, <1>17, <1>18, <1>19 DEF TaskInv

(* task_del takes the task off the list under tq_mtx.                      *)
LEMMA DelPreserves ==
    ASSUME TaskInv, NEW t \in Thread, DelLocked(t)
    PROVE  TaskInv'
<1>1. CallPlace(t) /\ (t \in Worker => WorkerPlace(t))
  BY DEF TaskInv, Places
<1>2. /\ pc[t] \in {"del_lock", "delbar_lock"} /\ onqueue' = onqueue \ {del[t]}
      /\ tq_worklist' = IF del[t] \in onqueue THEN Unqueue(tq_worklist, del[t]) ELSE tq_worklist
      /\ UNCHANGED <<tq_state, freed, tq_running, tq_threads, tq_barriers, tq_bgen,
                     tq_bthreads, gen, awaited, sleepq, job>>
  BY DEF DelLocked, threadVars, barrierVars
<1>3. t \in Client /\ t \notin Worker /\ t \in AllThreads /\ tq_state # "DESTROYED" /\ ~freed
  <2>1. t \notin Worker
    BY <1>1, <1>2 DEF WorkerPlace, WorkerPC, FreePC, LeftPC, InTaskPC, BarrierPC
  <2>2. t \in Client
    BY <2>1, Constants
  <2>3. tq_state # "DESTROYED"
    BY <1>2, <2>2 DEF TaskInv, Drains
  <2>4. QED
    BY <2>1, <2>2, <2>3 DEF TaskInv, Drains, AllThreads
<1>4. PICK x \in Task : x = del[t]
  BY <1>1, <1>2 DEF CallPlace
<1>5. PICK l \in {"idle", "bar_enter"} :
             /\ Goto(t, l)
             /\ l = "idle" => del' = [del EXCEPT ![t] = NULL]
             /\ l = "bar_enter" => del' = del
  BY <1>3 DEF DelLocked, Base
<1>6. l \in PC /\ l \notin LeftPC /\ l \notin BarrierPC \ {"bar_enter"}
  BY DEF PC, BarrierPC, LeftPC
<1>7. /\ pc' \in [AllThreads -> PC] /\ pc'[t] = l
      /\ \A u \in AllThreads \ {t} : pc'[u] = pc[u]
  BY <1>3, <1>5, <1>6, GotoEffect DEF TaskInv
<1>8. /\ del' \in [Thread -> Task \cup {NULL}] /\ (l = "idle" => del'[t] = NULL)
      /\ l = "bar_enter" => del'[t] = x
      /\ \A u \in Thread \ {t} : del'[u] = del[u]
  BY <1>4, <1>5 DEF TaskInv, Shape
<1>9. /\ Distinct(tq_worklist) /\ tq_worklist \in Seq(Task \cup Thread)
      /\ \A y \in Task : y \in onqueue <=> Entry(tq_worklist, y)
      /\ \A u \in Thread : Entry(tq_worklist, u) <=> (pc[u] = "bar_wait" /\ u \in onqueue)
  BY QueueEntries DEF TaskInv, Shape
<1>10. /\ tq_worklist' \in Seq(Task \cup Thread) /\ Distinct(tq_worklist')
       /\ \A y : Entry(tq_worklist', y) <=> Entry(tq_worklist, y) /\ y # x
  <2>1. CASE x \in onqueue
    <3>1. tq_worklist' = Unqueue(tq_worklist, x) /\ Entry(tq_worklist, x)
      BY <1>2, <1>4, <1>9, <2>1
    <3>2. QED
      BY <1>9, <3>1, UnqueueEntries
  <2>2. CASE x \notin onqueue
    <3>1. tq_worklist' = tq_worklist /\ ~Entry(tq_worklist, x)
      BY <1>2, <1>4, <1>9, <2>2
    <3>2. QED
      BY <1>9, <3>1
  <2>3. QED
    BY <2>1, <2>2
<1>11. Shape'
  BY <1>2, <1>7, <1>8, <1>10 DEF TaskInv, Shape
<1>12. Alone(t)
  BY <1>2, <1>7, <1>8 DEF Alone
<1>13. CallPlace(t)'
  BY <1>3, <1>7, <1>8 DEF CallPlace, ClientPC, BarrierPC
<1>14. Places'
  BY <1>3, <1>12, <1>13, PlacesStep DEF TaskInv
<1>15. /\ \A u \in Thread : pc'[u] = pc[u] \/ u = t
       /\ pc'[Creator] = pc[Creator] /\ \A w \in Worker : pc'[w] = pc[w]
  BY <1>3, <1>7, Constants DEF AllThreads
<1>16. \A u \in Thread : pc'[u] = "bar_wait" <=> pc[u] = "bar_wait"
  BY <1>2, <1>7, <1>15
<1>17. Queue'
  <2>1. \A y \in Task : y \in onqueue' <=> Entry(tq_worklist', y)
    BY <1>2, <1>4, <1>9, <1>10
  <2>2. \A u \in Thread : u # x
    BY Constants
  <2>3. \A u \in Thread : u \in onqueue' <=> u \in onqueue
    BY <1>2, <1>4, <2>2
  <2>4. \A u \in Thread : Entry(tq_worklist', u) <=> (pc'[u] = "bar_wait" /\ u \in onqueue')
    BY <1>9, <1>10, <1>16, <2>2, <2>3
  <2>5. QED
    BY <1>10, <2>1, <2>4 DEF Queue, Queued, Distinct, Entry
<1>18. Counts' /\ Live' = Live
  <2>1. \A w \in Worker : HeldBy(w)' <=> HeldBy(w)
    BY <1>2, <1>15 DEF HeldBy
  <2>2. QED
    BY <1>2, <1>15, <1>16, <2>1, CountsFrame DEF TaskInv, Counts
<1>19. Awaits'
  <2>1. \A u \in Thread : awaited[u] \subseteq Worker
    BY DEF TaskInv, Shape
  <2>2. QED
    BY <1>2, <1>15, <1>16, <1>18, <2>1, AwaitsFrame DEF TaskInv
<1>20. Stopped'
  <2> SUFFICES ASSUME NEW c \in Client, Stops(c)'
               PROVE  /\ del'[c] \notin onqueue'
                      /\ pc'[c] # "bar_enter" =>
                            \A w \in Worker : job'[w] = del'[c] => w \in awaited'[c]
    BY DEF Stopped
  <2>1. CASE c = t
    <3>1. l = "bar_enter"
      BY <1>7, <2>1 DEF Stops, BarrierPC
    <3>2. QED
      BY <1>2, <1>4, <1>7, <1>8, <2>1, <3>1
  <2>2. CASE c # t
    <3>1. pc'[c] = pc[c] /\ del'[c] = del[c]
      BY <1>8, <1>15, <2>2, Constants
    <3>2. Stops(c)
      BY <3>1 DEF Stops
    <3>3. QED
      BY <1>2, <3>1, <3>2 DEF TaskInv, Stopped
  <2>3. QED
    BY <2>1, <2>2
<1>21. Drains'
  <2>1. \A c \in Client : pc'[c] = "destroy_wait" => pc[c] = "destroy_wait"
    BY <1>7, <1>15, Constants
  <2>2. \A w \in Live : pc'[w] = pc[w]
    BY <1>15 DEF Live
  <2>3. QED
    BY <1>2, <1>3, <1>15, <1>18, <2>1, <2>2 DEF TaskInv, Drains
<1>22. QED
  BY <1>11, <1>14, <1>17, <1>18, <1>19, <1>20, <1>21 DEF TaskInv

(* taskq_next_work takes a task, leaves the queue or sleeps.               *)
LEMMA TakePreserves ==
    ASSUME TaskInv, NEW w \in Worker, NextWork(w), tq_worklist # <<>>
    PROVE  TaskInv'
<1>1. w \in Thread /\ w \notin Client /\ w \in AllThreads
  BY Constants DEF AllThreads
<1>2. PICK x, rest : x = Head(tq_worklist) /\ rest = Tail(tq_worklist)
  OBVIOUS
<1>3. /\ pc[w] = "next" /\ onqueue' = onqueue \ {x} /\ tq_worklist' = rest
      /\ job' = [job EXCEPT ![w] = x]
      /\ UNCHANGED <<tq_state, freed, tq_running, tq_threads, tq_barriers, tq_bgen,
                     tq_bthreads, gen, awaited, sleepq, del>>
  BY <1>2 DEF NextWork, At, threadVars, barrierVars
<1>4. PICK l \in {"chain", "job", "bt_enter"} :
             Goto(w, l) /\ (l = "job" => x \in Task) /\ (l = "bt_enter" => x \notin Task)
  BY <1>2 DEF NextWork, JobPC
<1>5. WorkerPlace(w) /\ CallPlace(w)
  BY <1>1 DEF TaskInv, Places
<1>6. job[w] = NULL
  BY <1>3, <1>5 DEF WorkerPlace, FreePC
<1>7. l \in PC /\ l \notin LeftPC /\ l \notin BarrierPC
  BY DEF PC, LeftPC, BarrierPC
<1>8. /\ pc' \in [AllThreads -> PC] /\ pc'[w] = l
      /\ \A u \in AllThreads \ {w} : pc'[u] = pc[u]
  BY <1>1, <1>4, <1>7, GotoEffect DEF TaskInv
<1>9. /\ Distinct(tq_worklist) /\ tq_worklist \in Seq(Task \cup Thread)
      /\ \A y \in Task : y \in onqueue <=> Entry(tq_worklist, y)
      /\ \A u \in Thread : Entry(tq_worklist, u) <=> (pc[u] = "bar_wait" /\ u \in onqueue)
  BY QueueEntries DEF TaskInv, Shape
<1>10. /\ rest \in Seq(Task \cup Thread) /\ Distinct(rest) /\ x \in Task \cup Thread
       /\ Entry(tq_worklist, x) /\ \A y : Entry(rest, y) <=> Entry(tq_worklist, y) /\ y # x
  BY <1>2, <1>9, TailEntries
<1>11. /\ job' \in [Worker -> Task \cup Thread \cup {NULL}] /\ job'[w] = x
       /\ \A v \in Worker \ {w} : job'[v] = job[v]
  BY <1>3, <1>10 DEF TaskInv, Shape
<1>12. Shape'
  BY <1>3, <1>8, <1>10, <1>11 DEF TaskInv, Shape
<1>13. Alone(w)
  BY <1>3, <1>8, <1>11 DEF Alone
<1>14. WorkerPlace(w)' /\ CallPlace(w)'
  <2>1. x # NULL /\ (x \in Task <=> x \notin Thread)
    BY <1>10, Constants
  <2>2. WorkerPlace(w)'
    BY <1>3, <1>4, <1>5, <1>8, <1>10, <1>11, <2>1
       DEF WorkerPlace, WorkerPC, FreePC, LeftPC, InTaskPC, BarrierPC
  <2>3. CallPlace(w)'
    BY <1>1, <1>3, <1>4, <1>5, <1>8 DEF CallPlace, BarrierPC
  <2>4. QED
    BY <2>2, <2>3
<1>15. Places'
  BY <1>1, <1>13, <1>14, PlacesStep DEF TaskInv
<1>16. /\ \A u \in Thread : pc'[u] = pc[u] \/ u = w
       /\ pc'[Creator] = pc[Creator] /\ \A c \in Client : pc'[c] = pc[c]
  BY <1>8, Constants DEF AllThreads
<1>17. \A u \in Thread : pc'[u] = "bar_wait" <=> pc[u] = "bar_wait"
  BY <1>3, <1>8, <1>16
<1>18. Queue'
  <2>1. \A y \in Task : y \in onqueue' <=> Entry(rest, y)
    BY <1>3, <1>9, <1>10
  <2>2. \A u \in Thread : Entry(rest, u) <=> (pc'[u] = "bar_wait" /\ u \in onqueue')
    BY <1>3, <1>9, <1>10, <1>17
  <2>3. QED
    BY <1>3, <1>10, <2>1, <2>2 DEF Queue, Queued, Distinct, Entry
<1>19. Counts' /\ Live' = Live
  <2>1. \A v \in Worker : HeldBy(v)' <=> HeldBy(v)
    BY <1>1, <1>3, <1>8, <1>16, Constants DEF HeldBy
  <2>2. \A v \in Worker : (pc'[v] \in LeftPC) <=> (pc[v] \in LeftPC)
    BY <1>3, <1>7, <1>8, <1>16, Constants DEF LeftPC
  <2>3. QED
    BY <1>3, <1>16, <1>17, <2>1, <2>2, CountsFrame DEF TaskInv, Counts
<1>20. Awaits'
  <2>1. \A u \in Thread : awaited[u] \subseteq Worker /\ w \notin awaited[u]
    BY <1>1, <1>6, NotAwaited, Constants DEF TaskInv, Shape
  <2>2. \A v \in Worker \ {w} : pc'[v] = pc[v] /\ job'[v] = job[v]
    BY <1>11, <1>16, Constants
  <2>3. QED
    BY <1>3, <1>17, <1>19, <2>1, <2>2, AwaitsFrame DEF TaskInv
<1>21. Stopped'
  <2> SUFFICES ASSUME NEW c \in Client, Stops(c)'
               PROVE  /\ del'[c] \notin onqueue'
                      /\ pc'[c] # "bar_enter" =>
                            \A v \in Worker : job'[v] = del'[c] => v \in awaited'[c]
    BY DEF Stopped
  <2>1. pc'[c] = pc[c] /\ del'[c] = del[c] /\ awaited'[c] = awaited[c] /\ c \in Thread
    BY <1>3, <1>16, Constants
  <2>2. Stops(c)
    BY <2>1 DEF Stops
  <2>3. del[c] \in Task
    BY <2>1, <2>2 DEF TaskInv, Shape, Stops
  <2>4. /\ del[c] \notin onqueue
        /\ pc[c] # "bar_enter" => \A v \in Worker : job[v] = del[c] => v \in awaited[c]
    BY <2>2 DEF TaskInv, Stopped
  <2>5. x # del[c]
    BY <1>9, <1>10, <2>3, <2>4
  <2>6. QED
    BY <1>3, <1>11, <2>1, <2>4, <2>5
<1>22. Drains'
  <2>1. w \in Working'
    BY <1>4, <1>7, <1>8 DEF Working
  <2>2. freed => pc[Creator] = "none"
    BY DEF TaskInv, Drains
  <2>3. \A v \in Live : pc[v] # "exit" => pc'[v] # "exit"
    BY <1>4, <1>8, <1>16, Constants DEF Live
  <2>4. QED
    BY <1>3, <1>16, <1>19, <2>1, <2>2, <2>3 DEF TaskInv, Drains
<1>23. QED
  BY <1>12, <1>15, <1>18, <1>19, <1>20, <1>21, <1>22 DEF TaskInv

(* A worker leaves a destroyed queue only when the list is empty.          *)
LEMMA LeavePreserves ==
    ASSUME TaskInv, NEW w \in Worker, NextWork(w), tq_worklist = <<>>, tq_state # "RUNNING"
    PROVE  TaskInv'
<1>1. w \in Thread /\ w \notin Client /\ w \in AllThreads /\ "exit" \in PC
  BY Constants DEF AllThreads, PC
<1>2. /\ pc[w] = "next" /\ Goto(w, "exit")
      /\ UNCHANGED <<tq_state, freed, tq_running, tq_threads, tq_worklist, onqueue, tq_barriers,
                     tq_bgen, tq_bthreads, gen, awaited, sleepq, job, del>>
  BY DEF NextWork, At, threadVars, barrierVars, queueVars
<1>3. /\ pc' \in [AllThreads -> PC] /\ pc'[w] = "exit"
      /\ \A u \in AllThreads \ {w} : pc'[u] = pc[u]
  BY <1>1, <1>2, GotoEffect DEF TaskInv
<1>4. WorkerPlace(w) /\ CallPlace(w)
  BY <1>1 DEF TaskInv, Places
<1>5. Shape'
  BY <1>2, <1>3 DEF TaskInv, Shape
<1>6. Alone(w)
  BY <1>2, <1>3 DEF Alone
<1>7. WorkerPlace(w)' /\ CallPlace(w)'
  BY <1>1, <1>2, <1>3, <1>4
     DEF WorkerPlace, CallPlace, WorkerPC, FreePC, LeftPC, InTaskPC, BarrierPC
<1>8. Places'
  BY <1>1, <1>6, <1>7, PlacesStep DEF TaskInv
<1>9. /\ \A u \in Thread : pc'[u] = pc[u] \/ u = w
      /\ pc'[Creator] = pc[Creator] /\ \A c \in Client : pc'[c] = pc[c]
  BY <1>3, Constants DEF AllThreads
<1>10. \A u \in Thread : pc'[u] = "bar_wait" <=> pc[u] = "bar_wait"
  BY <1>2, <1>3, <1>9
<1>11. Queue'
  BY <1>2, <1>10, QueueFrame DEF TaskInv
<1>12. Counts' /\ Live' = Live
  <2>1. \A v \in Worker : HeldBy(v)' <=> HeldBy(v)
    BY <1>1, <1>2, <1>3, <1>9, Constants DEF HeldBy
  <2>2. \A v \in Worker : (pc'[v] \in LeftPC) <=> (pc[v] \in LeftPC)
    BY <1>2, <1>3, <1>9, Constants DEF LeftPC
  <2>3. QED
    BY <1>2, <1>9, <1>10, <2>1, <2>2, CountsFrame DEF TaskInv, Counts
<1>13. Awaits'
  <2>1. job[w] \notin Task
    BY <1>2, <1>4, Constants DEF WorkerPlace, FreePC
  <2>2. \A u \in Thread : awaited[u] \subseteq Worker /\ w \notin awaited[u]
    BY <1>1, <2>1, NotAwaited DEF TaskInv, Shape
  <2>3. \A v \in Worker \ {w} : pc'[v] = pc[v]
    BY <1>9, Constants
  <2>4. QED
    BY <1>2, <1>10, <1>12, <2>2, <2>3, AwaitsFrame DEF TaskInv
<1>14. Stopped'
  <2>1. \A c \in Client : Stops(c)' => Stops(c)
    BY <1>2, <1>9 DEF Stops
  <2>2. del' \in [Thread -> Task \cup {NULL}]
    BY <1>5 DEF Shape
  <2>3. QED
    BY <1>2, <1>9, <2>1, <2>2, StoppedFrame DEF TaskInv
<1>15. Drains'
  BY <1>2, <1>9, <1>12 DEF TaskInv, Drains
<1>16. QED
  BY <1>5, <1>8, <1>11, <1>12, <1>13, <1>14, <1>15 DEF TaskInv

(* All of taskq_next_work.                                                 *)
LEMMA NextWorkPreserves ==
    ASSUME TaskInv, NEW w \in Worker, NextWork(w)
    PROVE  TaskInv'
<1>1. CASE tq_worklist # <<>>
  BY <1>1, TakePreserves
<1>2. CASE tq_worklist = <<>> /\ tq_state # "RUNNING"
  BY <1>2, LeavePreserves
<1>3. CASE tq_worklist = <<>> /\ tq_state = "RUNNING"
  <2>1. w \in Thread /\ w \notin Client
    BY Constants
  <2>2. /\ pc[w] = "next" /\ sleepq' = SleepOn(sleepq, "tq", w)
        /\ UNCHANGED <<tq_state, freed, tq_running, tq_threads, tq_worklist, onqueue, tq_barriers,
                       tq_bgen, tq_bthreads, gen, awaited, pc, job, del>>
    BY <1>3 DEF NextWork, At, threadVars, barrierVars, queueVars
  <2>3. sleepq' \in Sleepers
    BY <2>1, <2>2, SleepTypes DEF TaskInv, Shape, Chan
  <2>4. Shape'
    BY <2>2, <2>3 DEF TaskInv, Shape
  <2>5. Alone(w)
    BY <2>2 DEF Alone
  <2>6. WorkerPlace(w) /\ CallPlace(w)
    BY <2>1 DEF TaskInv, Places
  <2>7. WorkerPlace(w)' /\ CallPlace(w)'
    BY <2>2, <2>6 DEF WorkerPlace, CallPlace
  <2>8. Places'
    BY <2>1, <2>5, <2>7, PlacesStep DEF TaskInv
  <2>9. job[w] \notin Task
    BY <2>2, <2>6, Constants DEF WorkerPlace, FreePC
  <2>10. \A u \in Thread : w \notin awaited'[u]
    BY <2>1, <2>2, <2>9, NotAwaited
  <2>11. (HeldBy(w)' <=> HeldBy(w)) /\ gen'[w] <= tq_bgen
    BY <2>1, <2>2 DEF HeldBy, TaskInv, Counts
  <2>12. QED
    BY <2>1, <2>2, <2>4, <2>5, <2>8, <2>10, <2>11, QuietStep
<1>4. QED
  BY <1>1, <1>2, <1>3

-----------------------------------------------------------------------------
(* Threads that come and go *)

(* The sets that are counted are finite.                                   *)
LEMMA Finite ==
    /\ IsFiniteSet(Worker) /\ IsFiniteSet(Thread)
    /\ \A S \in SUBSET Worker : IsFiniteSet(S) /\ Cardinality(S) \in Nat
    /\ \A S \in SUBSET Thread : IsFiniteSet(S) /\ Cardinality(S) \in Nat
    /\ Live \subseteq Worker /\ Waiting \subseteq Thread /\ Held \subseteq Worker
    /\ tq_nthreads \in Nat /\ tq_nthreads >= 1 /\ tq_nthreads <= Cardinality(Worker)
<1>1. IsFiniteSet(Worker) /\ IsFiniteSet(Client)
  BY TaskQAssumption
<1>2. IsFiniteSet(Thread)
  BY <1>1, FS_Union DEF Thread
<1>3. \A S \in SUBSET Worker : IsFiniteSet(S) /\ Cardinality(S) \in Nat
  BY <1>1, FS_Subset, FS_CardinalityType
<1>4. \A S \in SUBSET Thread : IsFiniteSet(S) /\ Cardinality(S) \in Nat
  BY <1>2, FS_Subset, FS_CardinalityType
<1>5. Live \subseteq Worker /\ Waiting \subseteq Thread /\ Held \subseteq Worker
  BY DEF Live, Waiting, Held
<1>6. Cardinality(Worker) \in Nat
  BY <1>1, FS_CardinalityType
<1>7. tq_nthreads \in Nat /\ tq_nthreads >= 1 /\ tq_nthreads <= Cardinality(Worker)
  BY <1>6, TaskQAssumption
<1>8. QED
  BY <1>1, <1>2, <1>3, <1>4, <1>5, <1>7

(* A worker that leaves is no longer counted, and was held by no barrier.  *)
LEMMA ExitPreserves ==
    ASSUME TaskInv, NEW w \in Worker, ThreadExit(w)
    PROVE  TaskInv'
<1>1. w \in Thread /\ w \notin Client /\ w \in AllThreads
  BY Constants DEF AllThreads
<1>2. /\ pc[w] = "exit" /\ tq_threads' = tq_threads \ {w} /\ tq_running' = tq_running - 1
      /\ UNCHANGED <<tq_state, freed, tq_worklist, onqueue, tq_barriers,
                     tq_bgen, tq_bthreads, gen, awaited, sleepq, job, del>>
  BY DEF ThreadExit, barrierVars, queueVars
<1>3. PICK l \in {"last_flags", "exit_flags"} : Goto(w, l)
  BY DEF ThreadExit
<1>4. l \in PC /\ l \in LeftPC
  BY DEF PC, LeftPC
<1>5. /\ pc' \in [AllThreads -> PC] /\ pc'[w] = l
      /\ \A u \in AllThreads \ {w} : pc'[u] = pc[u]
  BY <1>1, <1>3, <1>4, GotoEffect DEF TaskInv
<1>6. WorkerPlace(w) /\ CallPlace(w)
  BY <1>1 DEF TaskInv, Places
<1>7. Shape'
  BY <1>2, <1>5 DEF TaskInv, Shape
<1>8. Alone(w)
  BY <1>2, <1>5 DEF Alone
<1>9. WorkerPlace(w)' /\ CallPlace(w)'
  BY <1>1, <1>2, <1>3, <1>5, <1>6
     DEF WorkerPlace, CallPlace, WorkerPC, FreePC, LeftPC, InTaskPC, BarrierPC
<1>10. Places'
  BY <1>1, <1>8, <1>9, PlacesStep DEF TaskInv
<1>11. /\ \A u \in Thread : pc'[u] = pc[u] \/ u = w
       /\ pc'[Creator] = pc[Creator] /\ \A c \in Client : pc'[c] = pc[c]
  BY <1>5, Constants DEF AllThreads
<1>12. \A u \in Thread : pc'[u] = "bar_wait" <=> pc[u] = "bar_wait"
  BY <1>2, <1>5, <1>11
<1>13. Queue'
  BY <1>2, <1>12, QueueFrame DEF TaskInv
<1>14. Live' = Live \ {w} /\ w \in Live
  <2>1. \A v \in Worker : pc'[v] \notin LeftPC <=> pc[v] \notin LeftPC /\ v # w
    BY <1>4, <1>5, <1>11, Constants
  <2>2. pc[w] \notin LeftPC
    BY <1>2 DEF LeftPC
  <2>3. QED
    BY <2>1, <2>2 DEF Live
<1>15. Counts'
  <2>1. Cardinality(Live') = Cardinality(Live) - 1 /\ Cardinality(Live) \in Nat
    BY <1>14, Finite, FS_RemoveElement
  <2>2. Waiting' = Waiting
    BY <1>12 DEF Waiting
  <2>3. \A v \in Worker : HeldBy(v)' <=> HeldBy(v)
    BY <1>1, <1>2, <1>5, <1>11, Constants DEF HeldBy
  <2>4. Held' = Held
    BY <2>3 DEF Held
  <2>5. QED
    BY <1>2, <1>11, <2>1, <2>2, <2>4, Finite DEF TaskInv, Counts
<1>16. Awaits'
  <2>1. job[w] \notin Task
    BY <1>2, <1>6, Constants DEF WorkerPlace, FreePC
  <2>2. \A u \in Thread : awaited[u] \subseteq Worker /\ w \notin awaited[u]
    BY <1>1, <2>1, NotAwaited DEF TaskInv, Shape
  <2>3. \A v \in Worker \ {w} : pc'[v] = pc[v]
    BY <1>11, Constants
  <2>4. QED
    BY <1>2, <1>12, <1>14, <2>2, <2>3, AwaitsFrame DEF TaskInv
<1>17. Stopped'
  <2>1. \A c \in Client : Stops(c)' => Stops(c)
    BY <1>2, <1>11 DEF Stops
  <2>2. del' \in [Thread -> Task \cup {NULL}]
    BY <1>7 DEF Shape
  <2>3. QED
    BY <1>2, <1>11, <2>1, <2>2, StoppedFrame DEF TaskInv
<1>18. Drains'
  <2>1. tq_state # "RUNNING" /\ pc[Creator] # "deferred" /\ tq_state # "CREATED"
    BY <1>2, <1>14 DEF TaskInv, Drains
  <2>2. Working' = Working
    <3>1. \A v \in Worker : pc'[v] \in LeftPC \cup {"exit"} <=> pc[v] \in LeftPC \cup {"exit"}
      BY <1>2, <1>4, <1>5, <1>11, Constants
    <3>2. QED
      BY <3>1 DEF Working
  <2>3. Made' => Made
    BY <1>11, <1>14 DEF Made
  <2>4. QED
    BY <1>2, <1>11, <2>1, <2>2, <2>3 DEF TaskInv, Drains
<1>19. QED
  BY <1>7, <1>10, <1>13, <1>15, <1>16, <1>17, <1>18 DEF TaskInv

(* taskq_barrier_task holds one more worker.                               *)
LEMMA HoldPreserves ==
    ASSUME TaskInv, NEW w \in Worker, BarrierTask(w)
    PROVE  TaskInv'
<1>1. w \in Thread /\ w \notin Client /\ w \in AllThreads /\ "bt_wait" \in PC
  BY Constants DEF AllThreads, PC
<1>2. /\ pc[w] = "bt_enter" /\ tq_bthreads' = tq_bthreads + 1 /\ Goto(w, "bt_wait")
      /\ gen' = [gen EXCEPT ![w] = tq_bgen]
      /\ sleepq' = SleepOn(WakeAll(sleepq, "tq_bthreads"), "tq_bgen", w)
      /\ UNCHANGED <<tq_state, freed, tq_running, tq_threads, tq_worklist, onqueue, tq_barriers,
                     tq_bgen, awaited, job, del>>
  BY DEF BarrierTask, threadVars, queueVars
<1>3. sleepq' \in Sleepers
  <2>1. PICK sq \in Sleepers : sq = WakeAll(sleepq, "tq_bthreads")
    BY <1>1, SleepTypes DEF TaskInv, Shape, Chan
  <2>2. QED
    BY <1>1, <1>2, <2>1, SleepTypes DEF Chan
<1>4. /\ pc' \in [AllThreads -> PC] /\ pc'[w] = "bt_wait"
      /\ \A u \in AllThreads \ {w} : pc'[u] = pc[u]
  BY <1>1, <1>2, GotoEffect DEF TaskInv
<1>5. /\ gen' \in [Thread -> Nat] /\ gen'[w] = tq_bgen
      /\ \A u \in Thread \ {w} : gen'[u] = gen[u]
  BY <1>1, <1>2 DEF TaskInv, Shape
<1>6. WorkerPlace(w) /\ CallPlace(w)
  BY <1>1 DEF TaskInv, Places
<1>7. Shape'
  BY <1>2, <1>3, <1>4, <1>5 DEF TaskInv, Shape
<1>8. Alone(w)
  BY <1>2, <1>4, <1>5 DEF Alone
<1>9. WorkerPlace(w)' /\ CallPlace(w)'
  BY <1>1, <1>2, <1>4, <1>6
     DEF WorkerPlace, CallPlace, WorkerPC, FreePC, LeftPC, InTaskPC, BarrierPC
<1>10. Places'
  BY <1>1, <1>8, <1>9, PlacesStep DEF TaskInv
<1>11. /\ \A u \in Thread : pc'[u] = pc[u] \/ u = w
       /\ pc'[Creator] = pc[Creator] /\ \A c \in Client : pc'[c] = pc[c]
  BY <1>4, Constants DEF AllThreads
<1>12. \A u \in Thread : pc'[u] = "bar_wait" <=> pc[u] = "bar_wait"
  BY <1>2, <1>4, <1>11
<1>13. Queue'
  BY <1>2, <1>12, QueueFrame DEF TaskInv
<1>14. Live' = Live /\ \A v \in Worker : pc'[v] \in LeftPC \cup {"exit"} <=> pc[v] \in LeftPC \cup {"exit"}
  <2>1. \A v \in Worker : pc'[v] \in LeftPC <=> pc[v] \in LeftPC
    BY <1>2, <1>4, <1>11, Constants DEF LeftPC
  <2>2. \A v \in Worker : pc'[v] = "exit" <=> pc[v] = "exit"
    BY <1>2, <1>4, <1>11, Constants
  <2>3. QED
    BY <2>1, <2>2 DEF Live
<1>15. Counts'
  <2>1. \A v \in Worker : HeldBy(v)' <=> HeldBy(v) \/ v = w
    BY <1>1, <1>2, <1>4, <1>5, <1>11, Constants DEF HeldBy
  <2>2. ~HeldBy(w)
    BY <1>2 DEF HeldBy
  <2>3. Held' = Held \cup {w} /\ w \notin Held
    BY <2>1, <2>2 DEF Held
  <2>4. Cardinality(Held') = Cardinality(Held) + 1
    BY <2>3, Finite, FS_AddElement
  <2>5. Waiting' = Waiting
    BY <1>12 DEF Waiting
  <2>6. \A u \in Thread : gen'[u] <= tq_bgen
    <3>1. tq_bgen \in Nat /\ \A u \in Thread : gen[u] <= tq_bgen
      BY DEF TaskInv, Counts, Shape
    <3>2. QED
      BY <1>5, <3>1
  <2>7. tq_bthreads' = Cardinality(Held')
    BY <1>2, <2>4 DEF TaskInv, Counts
  <2>8. QED
    BY <1>2, <1>11, <1>14, <2>5, <2>6, <2>7 DEF TaskInv, Counts
<1>16. Awaits'
  <2>1. job[w] \in Thread
    BY <1>2, <1>6 DEF WorkerPlace
  <2>2. job[w] \notin Task
    BY <2>1, Constants
  <2>3. \A u \in Thread : awaited[u] \subseteq Worker /\ w \notin awaited[u]
    BY <1>1, <2>2, NotAwaited DEF TaskInv, Shape
  <2>4. \A v \in Worker \ {w} : pc'[v] = pc[v]
    BY <1>11, Constants
  <2>5. QED
    BY <1>2, <1>12, <1>14, <2>3, <2>4, AwaitsFrame DEF TaskInv
<1>17. Stopped'
  <2>1. \A c \in Client : Stops(c)' => Stops(c)
    BY <1>2, <1>11 DEF Stops
  <2>2. del' \in [Thread -> Task \cup {NULL}]
    BY <1>7 DEF Shape
  <2>3. QED
    BY <1>2, <1>11, <2>1, <2>2, StoppedFrame DEF TaskInv
<1>18. Drains'
  <2>1. tq_state = "DESTROYED" => \A c \in Client : pc'[c] \in {"idle", "destroy_wait"}
    BY <1>11 DEF TaskInv, Drains
  <2>2. QED
    BY <1>2, <1>11, <1>14, <2>1, DrainsFrame DEF TaskInv
<1>19. QED
  BY <1>7, <1>10, <1>13, <1>15, <1>16, <1>17, <1>18 DEF TaskInv

(* taskq_create_thread makes at most one worker in a step.                 *)
LEMMA CreatorFrame ==
    ASSUME TaskInv, NEW l \in CreatorPC, sleepq' \in Sleepers,
           UNCHANGED <<tq_threads, tq_worklist, onqueue, tq_barriers, tq_bgen, tq_bthreads,
                       gen, awaited, job, del>>,
           pc' \in [AllThreads -> PC], pc'[Creator] = l,
           \A c \in Client : pc'[c] = pc[c],
           \A w \in Worker : pc'[w] = pc[w] \/ (pc[w] = "none" /\ pc'[w] = "start"),
           tq_state' \in {"CREATED", "RUNNING", "DESTROYED"}, freed' \in BOOLEAN,
           tq_running' = Cardinality(Live') + (IF l \in {"creating", "failed"} THEN 1 ELSE 0),
           tq_running' <= tq_nthreads, Drains'
    PROVE  TaskInv'
<1>1. Shape'
  BY DEF TaskInv, Shape
<1>2. \A u \in Thread : pc'[u] = "bar_wait" <=> pc[u] = "bar_wait"
  BY Constants
<1>3. Places'
  <2>1. ASSUME NEW w \in Worker PROVE WorkerPlace(w)'
    <3>1. WorkerPlace(w)
      BY DEF TaskInv, Places
    <3>2. CASE pc'[w] = pc[w]
      BY <3>1, <3>2 DEF WorkerPlace
    <3>3. CASE pc[w] = "none" /\ pc'[w] = "start"
      BY <3>1, <3>3 DEF WorkerPlace, WorkerPC, FreePC, LeftPC, InTaskPC, BarrierPC
    <3>4. QED
      BY <3>2, <3>3
  <2>2. ASSUME NEW u \in Thread PROVE CallPlace(u)'
    <3>1. CallPlace(u)
      BY DEF TaskInv, Places
    <3>2. CASE pc'[u] = pc[u]
      BY <3>1, <3>2 DEF CallPlace
    <3>3. CASE u \in Worker /\ u \notin Client /\ pc[u] = "none" /\ pc'[u] = "start"
      BY <3>1, <3>3 DEF CallPlace, BarrierPC
    <3>4. QED
      BY <3>2, <3>3, Constants
  <2>3. QED
    BY <2>1, <2>2 DEF Places
<1>4. Queue'
  BY <1>2, QueueFrame DEF TaskInv
<1>5. Counts'
  <2>1. Waiting' = Waiting
    BY <1>2 DEF Waiting
  <2>2. \A w \in Worker : HeldBy(w)' <=> HeldBy(w)
    BY DEF HeldBy
  <2>3. Held' = Held
    BY <2>2 DEF Held
  <2>4. QED
    BY <2>1, <2>3 DEF TaskInv, Counts
<1>6. Awaits'
  <2>1. \A u \in Thread : awaited[u] \subseteq Worker
    BY DEF TaskInv, Shape
  <2>2. \A w \in Live : w \in Live' /\ pc'[w] = pc[w]
    BY DEF Live, LeftPC
  <2>3. QED
    BY <1>2, <2>1, <2>2, AwaitsFrame DEF TaskInv
<1>7. Stopped'
  <2>1. \A c \in Client : Stops(c)' => Stops(c)
    BY DEF Stops
  <2>2. del' \in [Thread -> Task \cup {NULL}]
    BY <1>1 DEF Shape
  <2>3. QED
    BY <2>1, <2>2, StoppedFrame DEF TaskInv
<1>8. QED
  BY <1>1, <1>3, <1>4, <1>5, <1>6, <1>7 DEF TaskInv

(* The creator alone moves.                                                *)
LEMMA CreatorGoto ==
    ASSUME TaskInv, NEW l \in CreatorPC, Goto(Creator, l)
    PROVE  /\ pc' \in [AllThreads -> PC] /\ pc'[Creator] = l
           /\ \A w \in Worker : pc'[w] = pc[w]
           /\ \A c \in Client : pc'[c] = pc[c]
           /\ Live' = Live /\ Working' = Working
<1>1. l \in PC /\ Creator \in AllThreads
  BY DEF CreatorPC, PC, AllThreads
<1>2. /\ pc' \in [AllThreads -> PC] /\ pc'[Creator] = l
      /\ \A u \in AllThreads \ {Creator} : pc'[u] = pc[u]
  BY <1>1, GotoEffect DEF TaskInv
<1>3. /\ \A w \in Worker : pc'[w] = pc[w]
      /\ \A c \in Client : pc'[c] = pc[c]
  BY <1>2, Constants DEF AllThreads
<1>4. QED
  BY <1>2, <1>3 DEF Live, Working

(* taskq_create_thread finds the queue created, or destroyed already.      *)
LEMMA CreateThreadPreserves ==
    ASSUME TaskInv, CreateThread
    PROVE  TaskInv'
<1>1. /\ pc[Creator] = "deferred" /\ sleepq' \in Sleepers
      /\ UNCHANGED <<tq_threads, tq_worklist, onqueue, tq_barriers, tq_bgen, tq_bthreads,
                     gen, awaited, job, del>>
  BY DEF CreateThread, queueVars, barrierVars, TaskInv, Shape
<1>2. Live = {} /\ tq_running = 0
  <2>1. Live = {}
    BY <1>1 DEF TaskInv, Drains
  <2>2. Cardinality(Live) = 0
    BY <2>1, FS_EmptySet
  <2>3. QED
    BY <1>1, <2>1, <2>2 DEF TaskInv, Counts
<1>3. CASE tq_state = "DESTROYED"
  <2>1. /\ freed' = TRUE /\ Goto(Creator, "none") /\ UNCHANGED <<tq_state, tq_running>>
    BY <1>3 DEF CreateThread
  <2>2. "none" \in CreatorPC
    BY DEF CreatorPC
  <2>3. /\ pc' \in [AllThreads -> PC] /\ pc'[Creator] = "none"
        /\ \A w \in Worker : pc'[w] = pc[w]
        /\ \A c \in Client : pc'[c] = pc[c]
        /\ Live' = Live /\ Working' = Working
    BY <2>1, <2>2, CreatorGoto
  <2>4. ~Made'
    BY <1>2, <2>3 DEF Made
  <2>5. Drains'
    BY <1>1, <1>2, <1>3, <2>1, <2>3, <2>4 DEF TaskInv, Drains
  <2>6. tq_running' = Cardinality(Live') + 0 /\ tq_running' <= tq_nthreads
    BY <1>1, <1>2, <2>1, <2>3, Finite, FS_EmptySet
  <2>7. tq_state' \in {"CREATED", "RUNNING", "DESTROYED"} /\ freed' \in BOOLEAN
    BY <1>3, <2>1
  <2>8. QED
    BY <1>1, <2>2, <2>3, <2>5, <2>6, <2>7, CreatorFrame
<1>4. CASE tq_state = "CREATED"
  <2>1. /\ Goto(Creator, "creating") /\ tq_state' = "RUNNING" /\ tq_running' = tq_running + 1
        /\ freed' = freed
    BY <1>4 DEF CreateThread
  <2>2. "creating" \in CreatorPC
    BY DEF CreatorPC
  <2>3. /\ pc' \in [AllThreads -> PC] /\ pc'[Creator] = "creating"
        /\ \A w \in Worker : pc'[w] = pc[w]
        /\ \A c \in Client : pc'[c] = pc[c]
        /\ Live' = Live /\ Working' = Working
    BY <2>1, <2>2, CreatorGoto
  <2>4. Drains'
    BY <1>1, <1>2, <1>4, <2>1, <2>3 DEF TaskInv, Drains
  <2>5. tq_running' = Cardinality(Live') + 1 /\ tq_running' <= tq_nthreads
    <3>1. Cardinality(Live') = 0
      BY <1>2, <2>3, FS_EmptySet
    <3>2. QED
      BY <1>2, <2>1, <3>1, Finite
  <2>6. tq_state' \in {"CREATED", "RUNNING", "DESTROYED"} /\ freed' \in BOOLEAN
    BY <2>1 DEF TaskInv, Shape
  <2>7. QED
    BY <1>1, <2>2, <2>3, <2>4, <2>5, <2>6, CreatorFrame
<1>5. QED
  BY <1>3, <1>4 DEF CreateThread

(* taskq_create_thread has made a thread and counts the next one, or is    *)
(* done.                                                                   *)
LEMMA CreatedPreserves ==
    ASSUME TaskInv, CreatedThread
    PROVE  TaskInv'
<1>1. /\ pc[Creator] = "created" /\ sleepq' \in Sleepers
      /\ UNCHANGED <<tq_state, freed, tq_threads, tq_worklist, onqueue, tq_barriers, tq_bgen,
                     tq_bthreads, gen, awaited, job, del>>
      /\ tq_state' \in {"CREATED", "RUNNING", "DESTROYED"} /\ freed' \in BOOLEAN
  BY DEF CreatedThread, queueVars, barrierVars, TaskInv, Shape
<1>2. tq_running = Cardinality(Live) /\ tq_running \in Nat /\ tq_running <= tq_nthreads
  BY <1>1, Finite DEF TaskInv, Counts
<1>3. PICK l \in {"creating", "done"} :
             /\ Goto(Creator, l)
             /\ tq_running' = tq_running + (IF l \in {"creating", "failed"} THEN 1 ELSE 0)
             /\ tq_running' <= tq_nthreads
  BY <1>2, Finite DEF CreatedThread
<1>4. l \in CreatorPC
  BY DEF CreatorPC
<1>5. /\ pc' \in [AllThreads -> PC] /\ pc'[Creator] = l
      /\ \A w \in Worker : pc'[w] = pc[w]
      /\ \A c \in Client : pc'[c] = pc[c]
      /\ Live' = Live /\ Working' = Working
  BY <1>3, <1>4, CreatorGoto
<1>6. Made' => Made
  BY <1>1, <1>5 DEF Made
<1>7. \A w \in Live : pc'[w] = pc[w]
  BY <1>5 DEF Live
<1>8. Drains'
  BY <1>1, <1>5, <1>6, <1>7 DEF TaskInv, Drains
<1>9. QED
  BY <1>1, <1>2, <1>3, <1>4, <1>5, <1>8, CreatorFrame

(* kthread_create has failed: the thread is not counted any more.          *)
LEMMA CreateFailedPreserves ==
    ASSUME TaskInv, CreateFailed
    PROVE  TaskInv'
<1>1. /\ pc[Creator] = "failed" /\ tq_running' = tq_running - 1
      /\ UNCHANGED <<tq_state, freed, tq_threads, tq_worklist, onqueue, tq_barriers, tq_bgen,
                     tq_bthreads, gen, awaited, job, del>>
      /\ tq_state' \in {"CREATED", "RUNNING", "DESTROYED"} /\ freed' \in BOOLEAN
  BY DEF CreateFailed, queueVars, barrierVars, TaskInv, Shape
<1>2. sleepq' \in Sleepers
  <2>1. PICK t : t \in Thread
    <3>1. Worker # {}
      BY Finite, FS_EmptySet
    <3>2. QED
      BY <3>1, Constants
  <2>2. sleepq \in Sleepers /\ WakeOne(sleepq, "tq_running") \in Sleepers
    BY <2>1, SleepTypes DEF TaskInv, Shape, Chan
  <2>3. QED
    BY <2>2 DEF CreateFailed
<1>3. tq_running = Cardinality(Live) + 1 /\ tq_running \in Nat /\ tq_running <= tq_nthreads
  <2>1. Cardinality(Live) \in Nat
    BY Finite
  <2>2. QED
    BY <1>1, <2>1 DEF TaskInv, Counts
<1>4. PICK l \in {"none", "done"} : Goto(Creator, l) /\ (l = "done" => tq_running # 1)
  BY DEF CreateFailed
<1>5. l \in CreatorPC
  BY DEF CreatorPC
<1>6. /\ pc' \in [AllThreads -> PC] /\ pc'[Creator] = l
      /\ \A w \in Worker : pc'[w] = pc[w]
      /\ \A c \in Client : pc'[c] = pc[c]
      /\ Live' = Live /\ Working' = Working
  BY <1>4, <1>5, CreatorGoto
<1>7. l = "done" => Live # {}
  <2>1. Live = {} => Cardinality(Live) = 0
    BY FS_EmptySet
  <2>2. QED
    BY <1>3, <1>4, <2>1
<1>8. Made' => Made
  BY <1>6, <1>7 DEF Made
<1>9. \A w \in Live : pc'[w] = pc[w]
  BY <1>6 DEF Live
<1>10. Drains'
  BY <1>1, <1>6, <1>7, <1>8, <1>9 DEF TaskInv, Drains
<1>11. tq_running' = Cardinality(Live') + 0 /\ tq_running' <= tq_nthreads
  BY <1>1, <1>3, <1>6, Finite
<1>12. QED
  BY <1>1, <1>2, <1>4, <1>5, <1>6, <1>10, <1>11, CreatorFrame

(* kthread_create makes a thread, which tq_running has counted before.     *)
LEMMA KthreadPreserves ==
    ASSUME TaskInv, KthreadCreate
    PROVE  TaskInv'
<1>1. /\ pc[Creator] = "creating" /\ sleepq' \in Sleepers
      /\ UNCHANGED <<tq_state, freed, tq_running, tq_threads, tq_worklist, onqueue, tq_barriers,
                     tq_bgen, tq_bthreads, gen, awaited, job, del>>
      /\ tq_state' \in {"CREATED", "RUNNING", "DESTROYED"} /\ freed' \in BOOLEAN
  BY DEF KthreadCreate, threadVars, queueVars, barrierVars, TaskInv, Shape
<1>2. tq_running = Cardinality(Live) + 1 /\ tq_running \in Nat /\ tq_running <= tq_nthreads
  BY <1>1, Finite DEF TaskInv, Counts
<1>3. CASE Goto(Creator, "failed")
  <2>1. "failed" \in CreatorPC
    BY DEF CreatorPC
  <2>2. /\ pc' \in [AllThreads -> PC] /\ pc'[Creator] = "failed"
        /\ \A w \in Worker : pc'[w] = pc[w]
        /\ \A c \in Client : pc'[c] = pc[c]
        /\ Live' = Live /\ Working' = Working
    BY <1>3, <2>1, CreatorGoto
  <2>3. Made' => Made
    BY <2>2 DEF Made
  <2>4. \A w \in Live : pc'[w] = pc[w]
    BY <2>2 DEF Live
  <2>5. Drains'
    BY <1>1, <2>2, <2>3, <2>4 DEF TaskInv, Drains
  <2>6. QED
    BY <1>1, <1>2, <2>1, <2>2, <2>5, CreatorFrame
<1>4. ASSUME NEW w \in Worker, pc[w] = "none",
             pc' = [pc EXCEPT ![w] = "start", ![Creator] = "created"]
      PROVE  TaskInv'
  <2>1. w \in AllThreads /\ w # Creator /\ Creator \in AllThreads /\ "start" \in PC /\ "created" \in PC
        /\ "created" \in CreatorPC
    BY Constants DEF AllThreads, PC, CreatorPC
  <2>2. /\ pc' \in [AllThreads -> PC] /\ pc'[Creator] = "created" /\ pc'[w] = "start"
        /\ \A u \in AllThreads \ {w, Creator} : pc'[u] = pc[u]
    BY <1>4, <2>1 DEF TaskInv, Shape
  <2>3. /\ \A v \in Worker \ {w} : pc'[v] = pc[v]
        /\ \A c \in Client : pc'[c] = pc[c]
    BY <2>2, Constants DEF AllThreads
  <2>4. Live' = Live \cup {w} /\ w \notin Live
    BY <1>4, <2>2, <2>3 DEF Live, LeftPC
  <2>5. Cardinality(Live') = Cardinality(Live) + 1
    BY <2>4, Finite, FS_AddElement
  <2>6. w \in Working'
    BY <2>2 DEF Working, LeftPC
  <2>7. \A v \in Live' : pc'[v] = "exit" => v \in Live /\ pc[v] = "exit"
    BY <2>2, <2>3, <2>4, Finite
  <2>8. Drains'
    BY <1>1, <2>2, <2>3, <2>4, <2>6, <2>7 DEF TaskInv, Drains
  <2>9. tq_running' = Cardinality(Live') + 0 /\ tq_running' <= tq_nthreads
    BY <1>1, <1>2, <2>5, Finite
  <2>10. \A v \in Worker : pc'[v] = pc[v] \/ (pc[v] = "none" /\ pc'[v] = "start")
    BY <1>4, <2>2, <2>3
  <2>11. QED
    BY <1>1, <2>1, <2>2, <2>3, <2>8, <2>9, <2>10, CreatorFrame
<1>5. QED
  BY <1>3, <1>4 DEF KthreadCreate

-----------------------------------------------------------------------------
(* taskq_destroy *)

(* What the destroyer leaves alone.                                        *)
LEMMA DestroyFrame ==
    ASSUME TaskInv, NEW t \in Client, NEW l \in {"idle", "destroy_wait"},
           pc[t] \in {"idle", "destroy_wait"}, Goto(t, l), sleepq' \in Sleepers,
           UNCHANGED <<tq_running, tq_threads, tq_worklist, onqueue, tq_barriers, tq_bgen,
                       tq_bthreads, gen, awaited, job, del>>,
           tq_state' \in {"CREATED", "RUNNING", "DESTROYED"}, freed' \in BOOLEAN
    PROVE  /\ \A w \in Worker : pc'[w] = pc[w]
           /\ \A c \in Client \ {t} : pc'[c] = pc[c]
           /\ pc'[t] = l /\ pc'[Creator] = pc[Creator] /\ Live' = Live /\ Working' = Working
           /\ Drains' => TaskInv'
<1>1. t \in Thread /\ t \notin Worker /\ t \in AllThreads /\ l \in PC
  BY Constants DEF AllThreads, PC
<1>2. /\ pc' \in [AllThreads -> PC] /\ pc'[t] = l
      /\ \A u \in AllThreads \ {t} : pc'[u] = pc[u]
  BY <1>1, GotoEffect DEF TaskInv
<1>3. /\ \A w \in Worker : pc'[w] = pc[w]
      /\ \A u \in Thread \ {t} : pc'[u] = pc[u]
      /\ \A c \in Client \ {t} : pc'[c] = pc[c]
      /\ pc'[Creator] = pc[Creator]
  BY <1>1, <1>2, Constants DEF AllThreads
<1>4. Shape'
  BY <1>2 DEF TaskInv, Shape
<1>5. Alone(t)
  BY <1>2 DEF Alone
<1>6. CallPlace(t)'
  <2>1. CallPlace(t)
    BY <1>1 DEF TaskInv, Places
  <2>2. QED
    BY <1>1, <1>2, <2>1 DEF CallPlace, ClientPC, BarrierPC
<1>7. Places'
  BY <1>1, <1>5, <1>6, PlacesStep DEF TaskInv
<1>8. \A u \in Thread : pc'[u] = "bar_wait" <=> pc[u] = "bar_wait"
  BY <1>2, <1>3
<1>9. Queue'
  BY <1>8, QueueFrame DEF TaskInv
<1>10. Counts' /\ Live' = Live
  <2>1. \A w \in Worker : HeldBy(w)' <=> HeldBy(w)
    BY <1>3 DEF HeldBy
  <2>2. QED
    BY <1>3, <1>8, <2>1, CountsFrame DEF TaskInv, Counts
<1>11. Awaits'
  <2>1. \A u \in Thread : awaited[u] \subseteq Worker
    BY DEF TaskInv, Shape
  <2>2. QED
    BY <1>3, <1>8, <1>10, <2>1, AwaitsFrame DEF TaskInv
<1>12. Stopped'
  <2>1. \A c \in Client : Stops(c)' => Stops(c) /\ pc'[c] = pc[c]
    <3> SUFFICES ASSUME NEW c \in Client, Stops(c)' PROVE Stops(c) /\ pc'[c] = pc[c]
      OBVIOUS
    <3>1. c # t
      BY <1>2 DEF Stops, BarrierPC
    <3>2. pc'[c] = pc[c]
      BY <1>3, <3>1
    <3>3. QED
      BY <3>2 DEF Stops
  <2>2. del' \in [Thread -> Task \cup {NULL}]
    BY <1>4 DEF Shape
  <2>3. QED
    BY <2>1, <2>2, StoppedFrame DEF TaskInv
<1>13. Working' = Working
  BY <1>3 DEF Working
<1>14. QED
  BY <1>2, <1>3, <1>4, <1>7, <1>9, <1>10, <1>11, <1>12, <1>13 DEF TaskInv

(* A queue without threads, once its creator is past the first one.        *)
LEMMA NoThreads ==
    ASSUME TaskInv, ~(tq_running > 0)
    PROVE  /\ Live = {} /\ Working = {} /\ pc[Creator] \notin {"creating", "failed"}
           /\ \A w \in Worker : job[w] = NULL
<1>1. Cardinality(Live) = 0 /\ pc[Creator] \notin {"creating", "failed"}
  BY Finite DEF TaskInv, Counts
<1>2. Live = {}
  BY <1>1, Finite, FS_EmptySet
<1>3. Working = {}
  BY <1>2 DEF Working, Live
<1>4. \A w \in Worker : pc[w] \in LeftPC
  BY <1>2 DEF Live
<1>5. \A w \in Worker : job[w] = NULL
  BY <1>4 DEF TaskInv, Places, WorkerPlace, FreePC
<1>6. QED
  BY <1>1, <1>2, <1>3, <1>5

(* taskq_destroy begins, with every client out of the queue.               *)
LEMMA DestroyPreserves ==
    ASSUME TaskInv, NEW t \in Client, Destroy(t)
    PROVE  TaskInv'
<1>1. /\ pc[t] = "idle" /\ tq_state # "DESTROYED" /\ tq_state' = "DESTROYED"
      /\ \A u \in Client : pc[u] = "idle"
      /\ UNCHANGED <<tq_running, tq_threads, tq_worklist, onqueue, tq_barriers, tq_bgen,
                     tq_bthreads, gen, awaited, job, del>>
  BY DEF Destroy, At, queueVars, barrierVars
<1>2. ~freed /\ t \in Thread /\ sleepq \in Sleepers
  BY <1>1, Constants DEF TaskInv, Drains, Shape
<1>3. CASE tq_state = "CREATED"
  <2>1. UNCHANGED <<freed, sleepq, pc>>
    BY <1>3 DEF Destroy
  <2>2. Goto(t, "idle")
    BY <1>1, <1>2, <2>1 DEF Goto, TaskInv, Shape
  <2>b. freed' \in BOOLEAN
    BY <2>1 DEF TaskInv, Shape
  <2>3. /\ Live' = Live /\ Working' = Working
        /\ Drains' => TaskInv'
    BY <1>1, <1>2, <2>1, <2>2, <2>b, DestroyFrame
  <2>4. pc[Creator] = "deferred" /\ Live = {}
    BY <1>3 DEF TaskInv, Drains
  <2>5. ~Made'
    BY <2>1, <2>3, <2>4 DEF Made
  <2>6. Drains'
    BY <1>1, <1>2, <2>1, <2>3, <2>4, <2>5 DEF Drains
  <2>7. QED
    BY <2>3, <2>6
<1>4. CASE tq_state = "RUNNING" /\ tq_running > 0
  <2>1. /\ sleepq' = SleepOn(WakeAll(sleepq, "tq"), "tq_running", t)
        /\ Goto(t, "destroy_wait") /\ freed' = freed
    BY <1>4 DEF Destroy, DestroyLoop
  <2>2. sleepq' \in Sleepers
    <3>1. PICK sq \in Sleepers : sq = WakeAll(sleepq, "tq")
      BY <1>2, SleepTypes DEF Chan
    <3>2. QED
      BY <1>2, <2>1, <3>1, SleepTypes DEF Chan
  <2>b. freed' \in BOOLEAN
    BY <2>1 DEF TaskInv, Shape
  <2>3. /\ \A w \in Worker : pc'[w] = pc[w]
        /\ \A c \in Client \ {t} : pc'[c] = pc[c]
        /\ pc'[t] = "destroy_wait" /\ pc'[Creator] = pc[Creator]
        /\ Live' = Live /\ Working' = Working
        /\ Drains' => TaskInv'
    BY <1>1, <1>2, <2>1, <2>2, <2>b, DestroyFrame
  <2>4. Made' => Working' # {}
    <3>1. Made' => Live # {}
      BY <1>4, <2>3 DEF Made, TaskInv, Drains
    <3>2. \A w \in Live : w \in Working
      BY <1>4 DEF TaskInv, Drains, Live, Working
    <3>3. QED
      BY <2>3, <3>1, <3>2
  <2>5. pc[Creator] # "deferred"
    BY <1>4 DEF TaskInv, Drains
  <2>6. Drains'
    BY <1>1, <1>2, <2>1, <2>3, <2>4, <2>5 DEF Drains
  <2>7. QED
    BY <2>3, <2>6
<1>5. CASE tq_state = "RUNNING" /\ ~(tq_running > 0)
  <2>1. sleepq' = sleepq /\ Goto(t, "idle") /\ freed' = TRUE
    BY <1>5 DEF Destroy, DestroyLoop
  <2>2. /\ \A w \in Worker : pc'[w] = pc[w]
        /\ \A c \in Client \ {t} : pc'[c] = pc[c]
        /\ pc'[t] = "idle" /\ pc'[Creator] = pc[Creator]
        /\ Live' = Live /\ Working' = Working
        /\ Drains' => TaskInv'
    BY <1>1, <1>2, <2>1, DestroyFrame
  <2>3. /\ Live = {} /\ pc[Creator] \notin {"creating", "failed"}
    BY <1>5, NoThreads
  <2>4. pc[Creator] \notin {"deferred", "created", "done"}
    BY <1>5, <2>3 DEF TaskInv, Drains
  <2>5. pc[Creator] = "none"
    BY <2>3, <2>4 DEF TaskInv, Places, CreatorPC
  <2>6. ~Made'
    BY <2>2, <2>3, <2>5 DEF Made
  <2>7. Drains'
    BY <1>1, <2>1, <2>2, <2>5, <2>6 DEF Drains
  <2>8. QED
    BY <2>2, <2>7
<1>6. QED
  BY <1>3, <1>4, <1>5 DEF Destroy

(* The destroyer is woken; without threads, the list has been drained.     *)
LEMMA DestroyWokenPreserves ==
    ASSUME TaskInv, NEW t \in Thread, DestroyWoken(t)
    PROVE  TaskInv'
<1>1. /\ pc[t] = "destroy_wait"
      /\ UNCHANGED <<tq_state, tq_running, tq_threads, tq_worklist, onqueue, tq_barriers, tq_bgen,
                     tq_bthreads, gen, awaited, job, del>>
  BY DEF DestroyWoken, At, queueVars, barrierVars
<1>2. t \in Client /\ sleepq \in Sleepers
  <2>1. t \notin Worker
    BY <1>1 DEF TaskInv, Places, WorkerPlace, WorkerPC, FreePC, LeftPC, InTaskPC, BarrierPC
  <2>2. QED
    BY <2>1, Constants DEF TaskInv, Shape
<1>3. tq_state = "DESTROYED" /\ pc[Creator] # "deferred"
  BY <1>1, <1>2 DEF TaskInv, Drains
<1>4. tq_state' \in {"CREATED", "RUNNING", "DESTROYED"}
  BY <1>1, <1>3
<1>5. CASE tq_running > 0
  <2>1. /\ sleepq' = SleepOn(WakeAll(sleepq, "tq"), "tq_running", t)
        /\ Goto(t, "destroy_wait") /\ freed' = freed
    BY <1>5 DEF DestroyWoken, DestroyLoop
  <2>2. sleepq' \in Sleepers
    <3>1. PICK sq \in Sleepers : sq = WakeAll(sleepq, "tq")
      BY <1>2, SleepTypes DEF Chan
    <3>2. QED
      BY <1>2, <2>1, <3>1, SleepTypes DEF Chan
  <2>3. freed' \in BOOLEAN
    BY <2>1 DEF TaskInv, Shape
  <2>4. /\ \A w \in Worker : pc'[w] = pc[w]
        /\ \A c \in Client \ {t} : pc'[c] = pc[c]
        /\ pc'[t] = "destroy_wait" /\ pc'[Creator] = pc[Creator]
        /\ Live' = Live /\ Working' = Working
        /\ Drains' => TaskInv'
    BY <1>1, <1>2, <1>4, <2>1, <2>2, <2>3, DestroyFrame
  <2>5. Made' <=> Made
    BY <2>4 DEF Made
  <2>6. Drains'
    BY <1>1, <1>3, <2>1, <2>4, <2>5 DEF TaskInv, Drains
  <2>7. QED
    BY <2>4, <2>6
<1>6. CASE ~(tq_running > 0)
  <2>1. sleepq' = sleepq /\ Goto(t, "idle") /\ freed' = TRUE
    BY <1>6 DEF DestroyWoken, DestroyLoop
  <2>2. /\ \A w \in Worker : pc'[w] = pc[w]
        /\ \A c \in Client \ {t} : pc'[c] = pc[c]
        /\ pc'[t] = "idle" /\ pc'[Creator] = pc[Creator]
        /\ Live' = Live /\ Working' = Working
        /\ Drains' => TaskInv'
    BY <1>1, <1>2, <1>4, <2>1, DestroyFrame
  <2>3. /\ Live = {} /\ Working = {} /\ pc[Creator] \notin {"creating", "failed"}
        /\ \A w \in Worker : job[w] = NULL
    BY <1>6, NoThreads
  <2>4. pc[Creator] # "none" => Made
    BY <1>3, <2>3 DEF TaskInv, Places, CreatorPC, Made
  <2>5. (Made' <=> Made) /\ (Made => tq_worklist = <<>>)
    BY <1>3, <2>2, <2>3 DEF TaskInv, Drains, Made
  <2>6. Drains'
    BY <1>1, <1>3, <2>1, <2>2, <2>3, <2>4, <2>5 DEF TaskInv, Drains
  <2>7. QED
    BY <2>2, <2>6
<1>7. QED
  BY <1>5, <1>6

-----------------------------------------------------------------------------
(* The barrier *)

(* A worker that begins or goes on with a barrier runs a task that may.    *)
LEMMA InBarrier ==
    ASSUME TaskInv, NEW t \in Thread, pc[t] \in {"bar_enter", "bar_wait"}
    PROVE  /\ t \in Worker => /\ job[t] \in InTask /\ job[t] \in Task /\ job[t] # NULL
                              /\ t \in Live /\ t \in tq_threads
           /\ tq_state = "DESTROYED" => t \in Worker
           /\ freed => pc[Creator] = "none"
<1>1. ASSUME t \in Worker
      PROVE  job[t] \in InTask /\ job[t] \in Task /\ job[t] # NULL /\ t \in Live /\ t \in tq_threads
  <2>1. WorkerPlace(t)
    BY <1>1 DEF TaskInv, Places
  <2>2. QED
    BY <1>1, <2>1, Constants DEF WorkerPlace, InTaskPC, BarrierPC, LeftPC, Live
<1>2. tq_state = "DESTROYED" => t \in Worker
  BY Constants DEF TaskInv, Drains
<1>3. freed => pc[Creator] = "none"
  BY <1>1, <1>2 DEF TaskInv, Drains
<1>4. QED
  BY <1>1, <1>2, <1>3

(* What an iteration of taskq_do_barrier's loop has to keep.               *)
LEMMA LoopFrame ==
    ASSUME TaskInv, NEW t \in Thread, NEW l \in {"bar_wait", "bar_gen", "bar_done"},
           pc[t] \in {"bar_enter", "bar_wait"}, Goto(t, l), sleepq' \in Sleepers,
           UNCHANGED <<tq_state, freed, tq_running, tq_threads, job, del>>,
           tq_worklist' \in Seq(Task \cup Thread), Distinct(tq_worklist'),
           onqueue' \subseteq Task \cup Thread,
           \A x \in (Task \cup Thread) \ {t} : x \in onqueue' <=> x \in onqueue,
           \A x \in (Task \cup Thread) \ {t} : Entry(tq_worklist', x) <=> Entry(tq_worklist, x),
           Entry(tq_worklist', t) <=> (l = "bar_wait" /\ t \in onqueue'),
           tq_bgen' \in Nat, gen' \in [Thread -> Nat],
           \A u \in Thread \ {t} : gen'[u] = gen[u],
           \A u \in Thread : gen'[u] <= tq_bgen',
           awaited' \in [Thread -> SUBSET Worker],
           \A u \in Thread \ {t} : awaited'[u] = awaited[u] \ {t},
           \A w \in awaited'[t] : /\ w \in Live /\ job[w] \in Task
                                  /\ pc[w] \notin BarrierPC \ {"bar_enter"} /\ w # t,
           t \in Client /\ Stops(t) => \A w \in Worker : job[w] = del[t] => w \in awaited'[t],
           l # "bar_wait" => \A u \in Thread : awaited'[u] = {},
           tq_barriers' = Cardinality(Waiting'), tq_bthreads' = Cardinality(Held')
    PROVE  TaskInv'
<1>1. t \in AllThreads /\ l \in PC /\ (t \in Worker <=> t \notin Client)
  BY Constants DEF AllThreads, PC, BarrierPC
<1>2. /\ pc' \in [AllThreads -> PC] /\ pc'[t] = l
      /\ \A u \in AllThreads \ {t} : pc'[u] = pc[u]
  BY <1>1, GotoEffect DEF TaskInv
<1>3. Shape'
  BY <1>2 DEF TaskInv, Shape
<1>4. Alone(t)
  BY <1>2 DEF Alone
<1>5. (t \in Worker => WorkerPlace(t)') /\ CallPlace(t)'
  <2>1. CallPlace(t) /\ (t \in Worker => WorkerPlace(t))
    BY DEF TaskInv, Places
  <2>2. CallPlace(t)'
    BY <1>1, <1>2, <2>1 DEF CallPlace, ClientPC, BarrierPC
  <2>3. ASSUME t \in Worker PROVE WorkerPlace(t)'
    BY <1>2, <2>1, <2>3 DEF WorkerPlace, WorkerPC, FreePC, LeftPC, InTaskPC, BarrierPC
  <2>4. QED
    BY <2>2, <2>3
<1>6. Places'
  BY <1>4, <1>5, PlacesStep DEF TaskInv
<1>7. /\ \A u \in Thread \ {t} : pc'[u] = pc[u]
      /\ \A w \in Worker \ {t} : pc'[w] = pc[w]
      /\ \A c \in Client \ {t} : pc'[c] = pc[c]
      /\ pc'[Creator] = pc[Creator]
  BY <1>2, Constants DEF AllThreads
<1>q. /\ \A y \in Task : /\ y \in onqueue' <=> y \in onqueue
                         /\ Entry(tq_worklist', y) <=> Entry(tq_worklist, y)
      /\ \A u \in Thread \ {t} : u \in onqueue' <=> u \in onqueue
      /\ \A u \in Thread \ {t} : Entry(tq_worklist', u) <=> Entry(tq_worklist, u)
  <2>1. \A y \in Task : y \in (Task \cup Thread) \ {t}
    BY Constants
  <2>2. \A u \in Thread \ {t} : u \in (Task \cup Thread) \ {t}
    OBVIOUS
  <2>3. QED
    BY <2>1, <2>2
<1>8. Queue'
  <2>1. /\ \A y \in Task : y \in onqueue <=> Entry(tq_worklist, y)
        /\ \A u \in Thread : Entry(tq_worklist, u) <=> (pc[u] = "bar_wait" /\ u \in onqueue)
    BY QueueEntries DEF TaskInv
  <2>2. \A y \in Task : y \in onqueue' <=> Entry(tq_worklist', y)
    BY <1>q, <2>1
  <2>3. \A u \in Thread : Entry(tq_worklist', u) <=> (pc'[u] = "bar_wait" /\ u \in onqueue')
    <3> SUFFICES ASSUME NEW u \in Thread
                 PROVE  Entry(tq_worklist', u) <=> (pc'[u] = "bar_wait" /\ u \in onqueue')
      OBVIOUS
    <3>1. CASE u = t
      BY <1>2, <3>1
    <3>2. CASE u # t
      BY <1>7, <1>q, <2>1, <3>2
    <3>3. QED
      BY <3>1, <3>2
  <2>4. QED
    BY <2>2, <2>3 DEF Queue, Queued, Distinct, Entry
<1>9. Live' = Live /\ \A w \in Worker : pc'[w] \in LeftPC \cup {"exit"} <=> pc[w] \in LeftPC \cup {"exit"}
  <2>1. l \notin LeftPC \cup {"exit"} /\ pc[t] \notin LeftPC \cup {"exit"}
    BY DEF LeftPC
  <2>2. \A w \in Worker : pc'[w] \in LeftPC \cup {"exit"} <=> pc[w] \in LeftPC \cup {"exit"}
    BY <1>2, <1>7, <2>1
  <2>3. \A w \in Worker : pc'[w] \in LeftPC <=> pc[w] \in LeftPC
    BY <1>2, <1>7, <2>1
  <2>4. QED
    BY <2>2, <2>3 DEF Live
<1>10. Counts'
  BY <1>7, <1>9 DEF TaskInv, Counts
<1>11. Awaits'
  <2> SUFFICES ASSUME NEW u \in Thread
               PROVE  /\ \A w \in awaited'[u] : /\ w \in Live' /\ job'[w] \in Task
                                                /\ pc'[w] \notin BarrierPC \ {"bar_enter"}
                      /\ awaited'[u] # {} => pc'[u] = "bar_wait"
    BY DEF Awaits
  <2>1. CASE u = t
    <3>1. \A w \in awaited'[t] : w \in Worker /\ w # t
      BY DEF Live
    <3>2. QED
      BY <1>2, <1>7, <1>9, <2>1, <3>1
  <2>2. CASE u # t
    <3>1. /\ \A w \in awaited[u] : /\ w \in Live /\ job[w] \in Task
                                   /\ pc[w] \notin BarrierPC \ {"bar_enter"}
          /\ awaited[u] # {} => pc[u] = "bar_wait"
      BY DEF TaskInv, Awaits
    <3>2. awaited'[u] \subseteq awaited[u] /\ awaited'[u] \subseteq Worker \ {t}
      BY <2>2
    <3>3. QED
      BY <1>7, <1>9, <2>2, <3>1, <3>2
  <2>3. QED
    BY <2>1, <2>2
<1>12. Stopped'
  <2> SUFFICES ASSUME NEW c \in Client, Stops(c)'
               PROVE  /\ del'[c] \notin onqueue'
                      /\ pc'[c] # "bar_enter" =>
                            \A w \in Worker : job'[w] = del'[c] => w \in awaited'[c]
    BY DEF Stopped
  <2>1. Stops(c)
    <3>1. CASE c = t
      BY <3>1 DEF Stops, BarrierPC
    <3>2. CASE c # t
      BY <1>7, <3>2 DEF Stops
    <3>3. QED
      BY <3>1, <3>2
  <2>2. /\ del[c] \notin onqueue /\ del[c] \notin InTask
        /\ pc[c] # "bar_enter" => \A w \in Worker : job[w] = del[c] => w \in awaited[c]
    BY <2>1 DEF TaskInv, Stopped, Stops
  <2>3. del[c] \in Task /\ c \in Thread
    BY <2>1, Constants DEF TaskInv, Shape, Stops
  <2>4. del[c] \notin onqueue'
    BY <1>q, <2>2, <2>3
  <2>5. CASE c = t
    BY <2>1, <2>4, <2>5
  <2>6. CASE c # t
    <3>1. pc'[c] = pc[c] /\ awaited'[c] = awaited[c] \ {t}
      BY <1>7, <2>3, <2>6
    <3>2. \A w \in Worker : job[w] = del[c] => w # t
      BY <2>2, InBarrier
    <3>3. QED
      BY <2>2, <2>4, <3>1, <3>2
  <2>7. QED
    BY <2>5, <2>6
<1>13. Drains'
  <2>1. t \in Worker => t \in Working'
    BY <1>2 DEF Working, LeftPC
  <2>2. /\ tq_state = "DESTROYED" => t \in Worker
        /\ freed => pc[Creator] = "none"
    BY InBarrier
  <2>3. \A c \in Client : pc'[c] = "destroy_wait" => pc[c] = "destroy_wait"
    BY <1>2, <1>7
  <2>4. tq_state = "DESTROYED" => \A c \in Client : pc'[c] \in {"idle", "destroy_wait"}
    BY <1>1, <1>7, <2>2 DEF TaskInv, Drains
  <2>5. \A w \in Live : pc[w] # "exit" => pc'[w] # "exit"
    BY <1>2, <1>7 DEF Live
  <2>6. QED
    BY <1>7, <1>9, <2>1, <2>2, <2>3, <2>4, <2>5 DEF TaskInv, Drains
<1>14. QED
  BY <1>3, <1>6, <1>8, <1>10, <1>11, <1>12, <1>13 DEF TaskInv

(* The workers that are held, with the thread of a barrier if it is one.   *)
HeldWith(t) == Held \cup ({t} \cap Worker)

(* When tq_nthreads workers are held, every worker there is is held: a     *)
(* worker is counted once, and none is counted that has left.              *)
LEMMA AllHeld ==
    ASSUME TaskInv, NEW t \in Thread, pc[t] \in {"bar_enter", "bar_wait"},
           Cardinality(HeldWith(t)) >= tq_nthreads
    PROVE  HeldWith(t) = Live
<1>1. PICK H, L : H = HeldWith(t) /\ L = Live
  OBVIOUS
<1>2. H \subseteq L
  <2>1. \A w \in Held : w \in Live
    BY DEF Held, HeldBy, Live, LeftPC
  <2>2. t \in Worker => t \in Live
    BY InBarrier
  <2>3. QED
    BY <1>1, <2>1, <2>2 DEF HeldWith
<1>3. L \subseteq Worker /\ IsFiniteSet(L) /\ Cardinality(L) \in Nat
  BY <1>1, Finite
<1>4. Cardinality(L) <= tq_nthreads
  BY <1>1, <1>3, Finite DEF TaskInv, Counts
<1>5. /\ Cardinality(H) <= Cardinality(L) /\ Cardinality(H) \in Nat
      /\ Cardinality(H) = Cardinality(L) => H = L
  BY <1>2, <1>3, FS_Subset, FS_CardinalityType
<1>6. Cardinality(H) >= tq_nthreads
  BY <1>1
<1>7. Cardinality(H) = Cardinality(L)
  BY <1>3, <1>4, <1>5, <1>6, Finite
<1>8. QED
  BY <1>1, <1>5, <1>7

(* A worker that a barrier still waits for is not held.                    *)
LEMMA AwaitedNotHeld ==
    ASSUME TaskInv, NEW w \in Worker, job[w] \in Task, pc[w] \notin BarrierPC \ {"bar_enter"}
    PROVE  w \notin Held
<1>1. WorkerPlace(w)
  BY DEF TaskInv, Places
<1>2. pc[w] # "bt_wait"
  BY <1>1, Constants DEF WorkerPlace
<1>3. QED
  BY <1>2 DEF Held, HeldBy, BarrierPC

(* An iteration of the loop: the barrier queues its task again, is the     *)
(* last one out of its generation, or waits for the last one.              *)
LEMMA LoopPreserves ==
    ASSUME TaskInv, NEW t \in Thread, pc[t] \in {"bar_enter", "bar_wait"},
           NEW wl \in Seq(Task \cup Thread), NEW nb, NEW nt, NEW sq \in Sleepers,
           BarrierLoop(t, wl, nb, nt, sq),
           UNCHANGED <<tq_state, freed, tq_running, tq_threads, job, del>>,
           Distinct(wl), ~Entry(wl, t),
           \A x \in (Task \cup Thread) \ {t} : Entry(wl, x) <=> Entry(tq_worklist, x),
           nb = Cardinality(Waiting \cup {t}), nt = Cardinality(HeldWith(t)),
           awaited' \in [Thread -> SUBSET Worker],
           \A u \in Thread \ {t} : awaited'[u] = awaited[u] \ {t},
           \A w \in awaited'[t] : /\ w \in Live /\ job[w] \in Task
                                  /\ pc[w] \notin BarrierPC \ {"bar_enter"} /\ w # t,
           t \in Client /\ Stops(t) => \A w \in Worker : job[w] = del[t] => w \in awaited'[t]
    PROVE  TaskInv'
<1>1. t \in AllThreads
  BY DEF AllThreads
<1>2. PICK W, H : W = Waiting \cup {t} /\ H = HeldWith(t)
  OBVIOUS
<1>3. W \subseteq Thread /\ IsFiniteSet(W) /\ nb = Cardinality(W) /\ nb \in Nat /\ t \in W
  BY <1>2, Finite
<1>4. H \subseteq Worker /\ nt = Cardinality(H) /\ nt \in Nat
  BY <1>2, Finite DEF HeldWith
<1>5. tq_nthreads \in Nat
  BY Finite
<1>6. tq_bgen \in Nat /\ gen \in [Thread -> Nat] /\ onqueue \subseteq Task \cup Thread
      /\ \A u \in Thread : gen[u] <= tq_bgen
  BY DEF TaskInv, Shape, Counts
<1>7. ASSUME NEW l \in {"bar_wait", "bar_gen", "bar_done"}, Goto(t, l)
      PROVE  /\ pc'[t] = l /\ \A u \in Thread \ {t} : pc'[u] = pc[u]
             /\ Waiting' = IF l = "bar_wait" THEN W ELSE W \ {t}
  <2>1. l \in PC
    BY <1>7 DEF PC, BarrierPC
  <2>2. pc'[t] = l /\ \A u \in Thread \ {t} : pc'[u] = pc[u]
    BY <1>1, <1>7, <2>1, GotoEffect DEF TaskInv, AllThreads
  <2>3. \A u \in Thread : u \in Waiting' <=> (u \in W /\ (u = t => l = "bar_wait"))
    BY <1>2, <2>2 DEF Waiting
  <2>4. Waiting' \subseteq Thread
    BY DEF Waiting
  <2>5. QED
    BY <1>3, <2>2, <2>3, <2>4
<1>8. ASSUME nt >= tq_nthreads PROVE \A u \in Thread : awaited'[u] = {}
  <2>1. H = Live
    BY <1>2, <1>4, <1>8, AllHeld
  <2>2. \A w \in H : w = t \/ w \in Held
    BY <1>2 DEF HeldWith
  <2>3. ASSUME NEW w \in Live, w # t, job[w] \in Task, pc[w] \notin BarrierPC \ {"bar_enter"}
        PROVE  FALSE
    <3>1. w \in Worker
      BY <2>3 DEF Live
    <3>2. w \notin Held
      BY <2>3, <3>1, AwaitedNotHeld
    <3>3. QED
      BY <2>1, <2>2, <2>3, <3>2
  <2>4. awaited'[t] = {}
    BY <2>3
  <2>5. ASSUME NEW u \in Thread \ {t} PROVE awaited'[u] = {}
    <3>1. \A w \in awaited[u] : /\ w \in Live /\ job[w] \in Task
                                /\ pc[w] \notin BarrierPC \ {"bar_enter"}
      BY DEF TaskInv, Awaits
    <3>2. awaited'[u] = awaited[u] \ {t}
      OBVIOUS
    <3>3. QED
      BY <2>3, <3>1, <3>2
  <2>6. QED
    BY <2>4, <2>5
<1>9. CASE nt < tq_nthreads
  <2>1. /\ onqueue' = onqueue \cup {t} /\ tq_worklist' = Append(wl, t)
        /\ sleepq' = SleepOn(WakeOne(sq, "tq"), "tq_bthreads", t)
        /\ tq_barriers' = nb /\ tq_bthreads' = nt /\ Goto(t, "bar_wait")
        /\ UNCHANGED <<tq_bgen, gen>>
    BY <1>4, <1>5, <1>9 DEF BarrierLoop
  <2>2. sleepq' \in Sleepers
    <3>1. PICK sp \in Sleepers : sp = WakeOne(sq, "tq")
      BY SleepTypes DEF Chan
    <3>2. QED
      BY <2>1, <3>1, SleepTypes DEF Chan
  <2>3. /\ tq_worklist' \in Seq(Task \cup Thread) /\ Distinct(tq_worklist')
        /\ \A y : Entry(tq_worklist', y) <=> Entry(wl, y) \/ y = t
    BY <2>1, AppendEntries
  <2>4. /\ pc'[t] = "bar_wait" /\ \A u \in Thread \ {t} : pc'[u] = pc[u] /\ Waiting' = W
    BY <2>1, <1>7
  <2>5. Held' = H
    <3>1. \A w \in Worker : HeldBy(w)' <=> HeldBy(w) \/ w = t
      BY <2>1, <2>4, Constants DEF HeldBy
    <3>2. \A w \in Worker : w \in Held' <=> w \in H
      BY <1>2, <3>1 DEF Held, HeldWith
    <3>3. QED
      BY <1>4, <3>2 DEF Held
  <2>6. \A x \in (Task \cup Thread) \ {t} : x \in onqueue' <=> x \in onqueue
    BY <2>1
  <2>7. \A x \in (Task \cup Thread) \ {t} : Entry(tq_worklist', x) <=> Entry(tq_worklist, x)
    BY <2>3
  <2>8. Waiting' = W
    BY <2>1, <1>7
  <2>9. QED
    BY <1>3, <1>4, <1>6, <2>1, <2>2, <2>3, <2>5, <2>6, <2>7, <2>8, LoopFrame
<1>10. CASE nt >= tq_nthreads /\ nb = 1
  <2>1. /\ tq_worklist' = wl /\ tq_barriers' = 0 /\ tq_bgen' = tq_bgen + 1 /\ tq_bthreads' = 0
        /\ sleepq' = WakeAll(sq, "tq_bgen") /\ Goto(t, "bar_done")
        /\ UNCHANGED <<onqueue, gen>>
    BY <1>3, <1>4, <1>5, <1>10 DEF BarrierLoop
  <2>2. sleepq' \in Sleepers
    BY <2>1, SleepTypes DEF Chan
  <2>3. /\ pc'[t] = "bar_done" /\ \A u \in Thread \ {t} : pc'[u] = pc[u]
        /\ Waiting' = W \ {t}
    BY <2>1, <1>7
  <2>4. Waiting' = {}
    <3>1. PICK z : W = {z}
      BY <1>3, <1>10, FS_Singleton
    <3>2. QED
      BY <1>3, <2>3, <3>1
  <2>5. \A u \in Thread : gen'[u] < tq_bgen'
    BY <1>6, <2>1
  <2>6. Held' = {}
    <3>1. \A w \in Worker : pc'[w] # "bar_wait" /\ gen'[w] # tq_bgen'
      BY <1>6, <2>1, <2>4, Constants DEF Waiting
    <3>2. \A w \in Worker : ~HeldBy(w)'
      BY <3>1 DEF HeldBy
    <3>3. QED
      BY <3>2 DEF Held
  <2>7. tq_barriers' = Cardinality(Waiting') /\ tq_bthreads' = Cardinality(Held')
    BY <2>1, <2>4, <2>6, FS_EmptySet
  <2>8. tq_bgen' \in Nat /\ \A u \in Thread : gen'[u] <= tq_bgen'
    BY <1>6, <2>1
  <2>9. \A u \in Thread : awaited'[u] = {}
    BY <1>8, <1>10
  <2>10. QED
    BY <1>6, <2>1, <2>2, <2>7, <2>8, <2>9, LoopFrame
<1>11. CASE nt >= tq_nthreads /\ nb > 1
  <2>1. /\ tq_worklist' = wl /\ tq_barriers' = nb - 1 /\ tq_bthreads' = nt
        /\ gen' = [gen EXCEPT ![t] = tq_bgen]
        /\ sleepq' = SleepOn(sq, "tq_bgen", t) /\ Goto(t, "bar_gen")
        /\ UNCHANGED <<onqueue, tq_bgen>>
    BY <1>3, <1>4, <1>5, <1>11 DEF BarrierLoop
  <2>2. sleepq' \in Sleepers
    BY <2>1, SleepTypes DEF Chan
  <2>3. /\ pc'[t] = "bar_gen" /\ \A u \in Thread \ {t} : pc'[u] = pc[u]
        /\ Waiting' = W \ {t}
    BY <2>1, <1>7
  <2>4. Cardinality(W \ {t}) = Cardinality(W) - 1
    BY <1>3, FS_RemoveElement
  <2>5. /\ gen' \in [Thread -> Nat] /\ gen'[t] = tq_bgen
        /\ \A u \in Thread \ {t} : gen'[u] = gen[u]
    BY <1>6, <2>1
  <2>6. Held' = H
    <3>1. \A w \in Worker : HeldBy(w)' <=> HeldBy(w) \/ w = t
      BY <2>1, <2>3, <2>5, Constants DEF HeldBy
    <3>2. \A w \in Worker : w \in Held' <=> w \in H
      BY <1>2, <3>1 DEF Held, HeldWith
    <3>3. QED
      BY <1>4, <3>2 DEF Held
  <2>7. tq_barriers' = Cardinality(Waiting') /\ tq_bthreads' = Cardinality(Held')
    BY <1>3, <1>4, <2>1, <2>3, <2>4, <2>6
  <2>8. tq_bgen' \in Nat /\ \A u \in Thread : gen'[u] <= tq_bgen'
    BY <1>6, <2>1, <2>5
  <2>9. \A u \in Thread : awaited'[u] = {}
    BY <1>8, <1>11
  <2>10. QED
    BY <1>6, <2>1, <2>2, <2>5, <2>7, <2>8, <2>9, LoopFrame
<1>12. QED
  BY <1>3, <1>4, <1>5, <1>9, <1>10, <1>11 DEF BarrierLoop

(* A barrier begins: it waits for those that run a task function.          *)
LEMMA EnterPreserves ==
    ASSUME TaskInv, NEW t \in Thread, BarrierEnter(t)
    PROVE  TaskInv'
<1>1. /\ pc[t] = "bar_enter"
      /\ awaited' = [u \in Thread |-> IF u = t THEN Busy ELSE awaited[u] \ {t}]
      /\ UNCHANGED <<tq_state, freed, tq_running, tq_threads, job, del>>
  BY DEF BarrierEnter, threadVars
<1>2. /\ t \in Worker => job[t] \in InTask /\ t \in tq_threads
      /\ t \in tq_threads => t \in Worker
  BY <1>1, InBarrier DEF TaskInv, Shape
<1>3. t \notin Waiting /\ t \notin Held
  BY <1>1 DEF Waiting, Held, HeldBy
<1>4. PICK nt \in Nat, sq \in Sleepers :
             /\ BarrierLoop(t, tq_worklist, tq_barriers + 1, nt, sq)
             /\ nt = Cardinality(HeldWith(t))
  <2>1. tq_bthreads = Cardinality(Held) /\ tq_bthreads \in Nat
    BY Finite DEF TaskInv, Counts
  <2>2. sleepq \in Sleepers /\ WakeAll(sleepq, "tq_bthreads") \in Sleepers
    BY SleepTypes DEF TaskInv, Shape, Chan
  <2>3. CASE t \in tq_threads
    <3>1. HeldWith(t) = Held \cup {t}
      BY <1>2, <2>3 DEF HeldWith
    <3>2. Cardinality(HeldWith(t)) = tq_bthreads + 1
      BY <1>3, <2>1, <3>1, Finite, FS_AddElement
    <3>3. BarrierLoop(t, tq_worklist, tq_barriers + 1, tq_bthreads + 1, WakeAll(sleepq, "tq_bthreads"))
      BY <2>3 DEF BarrierEnter
    <3>4. PICK n \in Nat : n = tq_bthreads + 1
      BY <2>1
    <3>5. PICK sp \in Sleepers : sp = WakeAll(sleepq, "tq_bthreads")
      BY <2>2
    <3>6. BarrierLoop(t, tq_worklist, tq_barriers + 1, n, sp) /\ n = Cardinality(HeldWith(t))
      BY <3>2, <3>3, <3>4, <3>5
    <3>7. QED
      BY <3>6
  <2>4. CASE t \notin tq_threads
    <3>1. HeldWith(t) = Held
      BY <1>2, <2>4 DEF HeldWith
    <3>2. BarrierLoop(t, tq_worklist, tq_barriers + 1, tq_bthreads, sleepq)
      BY <2>4 DEF BarrierEnter
    <3>3. QED
      BY <2>1, <2>2, <3>1, <3>2
  <2>5. QED
    BY <2>3, <2>4
<1>5. tq_barriers + 1 = Cardinality(Waiting \cup {t})
  <2>1. Cardinality(Waiting \cup {t}) = Cardinality(Waiting) + 1
    BY <1>3, Finite, FS_AddElement
  <2>2. QED
    BY <2>1 DEF TaskInv, Counts
<1>6. tq_worklist \in Seq(Task \cup Thread) /\ Distinct(tq_worklist) /\ ~Entry(tq_worklist, t)
  BY <1>1, QueueEntries DEF TaskInv, Shape
<1>7. /\ awaited' \in [Thread -> SUBSET Worker] /\ awaited'[t] = Busy
      /\ \A u \in Thread \ {t} : awaited'[u] = awaited[u] \ {t}
  BY <1>1 DEF TaskInv, Shape, Busy
<1>8. \A w \in Busy : /\ w \in Live /\ job[w] \in Task
                      /\ pc[w] \notin BarrierPC \ {"bar_enter"} /\ w # t
  <2> SUFFICES ASSUME NEW w \in Busy
               PROVE  /\ w \in Live /\ job[w] \in Task
                      /\ pc[w] \notin BarrierPC \ {"bar_enter"} /\ w # t
    OBVIOUS
  <2>1. w \in Worker /\ job[w] \in Task /\ pc[w] \notin BarrierPC
    BY DEF Busy
  <2>2. pc[w] \notin FreePC
    BY <2>1, Constants DEF TaskInv, Places, WorkerPlace
  <2>3. w # t
    BY <1>1, <2>1 DEF BarrierPC
  <2>4. QED
    BY <2>1, <2>2, <2>3 DEF Live, FreePC
<1>9. t \in Client /\ Stops(t) => \A w \in Worker : job[w] = del[t] => w \in awaited'[t]
  <2> SUFFICES ASSUME Stops(t), NEW w \in Worker, job[w] = del[t] PROVE w \in Busy
    BY <1>7
  <2>1. job[w] \in Task /\ job[w] \notin InTask
    BY DEF Stops, TaskInv, Shape
  <2>2. pc[w] \notin BarrierPC
    BY <2>1 DEF TaskInv, Places, WorkerPlace
  <2>3. QED
    BY <2>1, <2>2 DEF Busy
<1>10. QED
  BY <1>1, <1>4, <1>5, <1>6, <1>7, <1>8, <1>9, LoopPreserves

(* A barrier that waits for workers is woken, and takes its task back.     *)
LEMMA WokenPreserves ==
    ASSUME TaskInv, NEW t \in Thread, BarrierWoken(t)
    PROVE  TaskInv'
<1>1. /\ pc[t] = "bar_wait"
      /\ UNCHANGED <<tq_state, freed, tq_running, tq_threads, job, del, awaited>>
  BY DEF BarrierWoken, At, threadVars
<1>2. PICK wl : /\ wl = IF t \in onqueue THEN Unqueue(tq_worklist, t) ELSE tq_worklist
                /\ BarrierLoop(t, wl, tq_barriers, tq_bthreads, sleepq)
  BY DEF BarrierWoken
<1>3. /\ Distinct(tq_worklist) /\ tq_worklist \in Seq(Task \cup Thread) /\ sleepq \in Sleepers
      /\ Entry(tq_worklist, t) <=> t \in onqueue
  BY <1>1, QueueEntries DEF TaskInv, Shape
<1>4. /\ wl \in Seq(Task \cup Thread) /\ Distinct(wl)
      /\ \A y : Entry(wl, y) <=> Entry(tq_worklist, y) /\ y # t
  <2>1. CASE t \in onqueue
    BY <1>2, <1>3, <2>1, UnqueueEntries
  <2>2. CASE t \notin onqueue
    BY <1>2, <1>3, <2>2
  <2>3. QED
    BY <2>1, <2>2
<1>5. Waiting \cup {t} = Waiting /\ HeldWith(t) = Held
  BY <1>1 DEF Waiting, HeldWith, Held, HeldBy
<1>6. tq_barriers = Cardinality(Waiting \cup {t}) /\ tq_bthreads = Cardinality(HeldWith(t))
  BY <1>5 DEF TaskInv, Counts
<1>7. \A u \in Thread : t \notin awaited[u]
  BY <1>1, NotAwaited DEF BarrierPC
<1>8. /\ awaited' \in [Thread -> SUBSET Worker]
      /\ \A u \in Thread \ {t} : awaited'[u] = awaited[u] \ {t}
  BY <1>1, <1>7 DEF TaskInv, Shape
<1>9. \A w \in awaited'[t] : /\ w \in Live /\ job[w] \in Task
                             /\ pc[w] \notin BarrierPC \ {"bar_enter"} /\ w # t
  BY <1>1, <1>7 DEF TaskInv, Awaits
<1>10. t \in Client /\ Stops(t) => \A w \in Worker : job[w] = del[t] => w \in awaited'[t]
  BY <1>1 DEF TaskInv, Stopped
<1>11. QED
  BY <1>1, <1>2, <1>3, <1>4, <1>6, <1>8, <1>9, <1>10, LoopPreserves

-----------------------------------------------------------------------------
(* The specification *)

(* The queue as taskq_create leaves it.                                    *)
LEMMA InitInv ==
    ASSUME Init
    PROVE  TaskInv
<1>1. Shape
  <2>1. <<>> \in Seq(Task \cup Thread) /\ <<>> \in Seq(Thread)
    BY EmptySeq
  <2>2. sleepq \in Sleepers
    BY <2>1 DEF Init, Sleepers
  <2>3. pc \in [AllThreads -> PC]
    BY DEF Init, AllThreads, PC
  <2>4. QED
    BY <2>1, <2>2, <2>3 DEF Init, Shape
<1>2. /\ \A w \in Worker : pc[w] = "none"
      /\ \A c \in Client : pc[c] = "idle"
      /\ pc[Creator] = "deferred"
  BY Constants DEF Init, AllThreads
<1>3. /\ \A w \in Worker : job[w] = NULL
      /\ \A t \in Thread : gen[t] = 0 /\ del[t] = NULL /\ awaited[t] = {}
  BY DEF Init
<1>4. Places
  <2>1. \A w \in Worker : WorkerPlace(w)
    BY <1>2, <1>3 DEF Init, WorkerPlace, WorkerPC, FreePC, LeftPC, InTaskPC, BarrierPC
  <2>2. \A t \in Thread : CallPlace(t)
    BY <1>2, <1>3, Constants DEF CallPlace, ClientPC, BarrierPC
  <2>3. QED
    BY <1>2, <2>1, <2>2 DEF Places, CreatorPC
<1>5. Len(tq_worklist) = 0 /\ onqueue = {} /\ tq_worklist = <<>>
  BY EmptySeq DEF Init
<1>6. Queue
  BY <1>5 DEF Queue, Queued
<1>7. Live = {} /\ Waiting = {} /\ Held = {}
  BY <1>2, Constants DEF Live, LeftPC, Waiting, Held, HeldBy
<1>8. Counts
  <2>1. Cardinality(Live) = 0 /\ Cardinality(Waiting) = 0 /\ Cardinality(Held) = 0
    BY <1>7, FS_EmptySet
  <2>2. QED
    BY <1>2, <1>3, <2>1, Finite DEF Init, Counts
<1>9. Awaits
  BY <1>3 DEF Awaits
<1>10. Stopped
  BY <1>2 DEF Stopped, Stops, BarrierPC
<1>11. Drains
  BY <1>2, <1>5, <1>7 DEF Init, Drains
<1>12. QED
  BY <1>1, <1>4, <1>6, <1>8, <1>9, <1>10, <1>11 DEF TaskInv

(* One case per action of the specification.                               *)
LEMMA NextInv ==
    ASSUME TaskInv, [Next]_vars
    PROVE  TaskInv'
<1>1. CASE CreatorStep
  BY <1>1, CreateThreadPreserves, KthreadPreserves, CreatedPreserves, CreateFailedPreserves
     DEF CreatorStep
<1>2. ASSUME NEW w \in Worker, WorkerStep(w) PROVE TaskInv'
  BY <1>2, StartPreserves, NextWorkPreserves, WakeNextPreserves, JobDonePreserves,
     HoldPreserves, TaskWokenPreserves, ExitPreserves, LeftPreserves DEF WorkerStep
<1>3. ASSUME NEW t \in Thread, CallStep(t) PROVE TaskInv'
  BY <1>3, AddSkipPreserves, AddPreserves, CallsPreserve, DelPreserves, EnterPreserves,
     WokenPreserves, GenPreserves, ReturnPreserves, DestroyWokenPreserves DEF CallStep
<1>4. ASSUME NEW t \in Thread, Barrier(t) \/ \E x \in Task : Add(t, x) PROVE TaskInv'
  BY <1>4, CallsPreserve
<1>5. ASSUME NEW t \in Client, NEW x \in Task, NEW b \in BOOLEAN, Del(t, x, b) PROVE TaskInv'
  BY <1>5, CallsPreserve, Constants
<1>6. ASSUME NEW t \in Client, Destroy(t) PROVE TaskInv'
  BY <1>6, DestroyPreserves
<1>7. CASE UNCHANGED vars
  <2>1. /\ UNCHANGED <<tq_state, freed, tq_running, tq_worklist, onqueue, tq_threads, tq_barriers>>
        /\ UNCHANGED <<tq_bgen, tq_bthreads, sleepq, pc, job, gen, del, awaited>>
    BY <1>7 DEF vars
  <2>2. Shape' /\ Places' /\ Queue'
    BY <2>1 DEF TaskInv, Shape, Places, WorkerPlace, CallPlace, Queue, Queued
  <2>3. Live' = Live /\ Waiting' = Waiting /\ Held' = Held /\ Working' = Working
    BY <2>1 DEF Live, Waiting, Held, HeldBy, Working
  <2>4. Counts' /\ Awaits' /\ Stopped'
    BY <2>1, <2>3 DEF TaskInv, Counts, Awaits, Stopped, Stops
  <2>5. Drains'
    BY <2>1, <2>3 DEF TaskInv, Drains, Made
  <2>6. QED
    BY <2>2, <2>4, <2>5 DEF TaskInv
<1>8. QED
  BY <1>1, <1>2, <1>3, <1>4, <1>5, <1>6, <1>7 DEF Next

(* The inductive invariant, for any constants within the assumption.       *)
THEOREM TaskQInvariant == Spec => []TaskInv
<1>1. Init => TaskInv
  BY InitInv
<1>2. TaskInv /\ [Next]_vars => TaskInv'
  BY NextInv
<1>3. QED
  BY <1>1, <1>2, PTL DEF Spec

(* A barrier returns only when nobody it waits for still runs its task     *)
(* function: every worker is held by then, and none is held while it does. *)
THEOREM BarriersWait == Spec => []BarrierWaits
<1>1. TaskInv => BarrierWaits
  BY DEF TaskInv, Awaits, BarrierWaits
<1>2. QED
  BY <1>1, TaskQInvariant, PTL

(* taskq_del_barrier stops a task that only its caller adds, whatever the  *)
(* number of workers, tasks and barriers.                                  *)
THEOREM DelStops == Spec => []DelBarrierStops
<1>1. TaskInv => DelBarrierStops
  <2> SUFFICES ASSUME TaskInv, NEW t \in Client, pc[t] = "bar_done", del[t] # NULL,
                      Adders[del[t]] = {t}, del[t] \notin InTask
               PROVE  del[t] \notin onqueue /\ \A w \in Worker : job[w] # del[t]
    BY DEF DelBarrierStops
  <2>1. Stops(t)
    BY DEF Stops, BarrierPC
  <2>2. awaited[t] = {}
    BY Constants DEF TaskInv, Awaits
  <2>3. QED
    BY <2>1, <2>2 DEF TaskInv, Stopped
<1>2. QED
  BY <1>1, TaskQInvariant, PTL

(* taskq_destroy frees a queue with threads only when they have drained it *)
(* and run nothing, wherever the creator is when the destruction begins.   *)
THEOREM DestroyedDrained == Spec => []DestroyDrains
<1>1. TaskInv => DestroyDrains
  BY DEF TaskInv, Drains, DestroyDrains
<1>2. QED
  BY <1>1, TaskQInvariant, PTL

(* The counters stay within what they count.                               *)
LEMMA CounterBounds ==
    ASSUME TaskInv
    PROVE  /\ tq_running \in 0 .. Cardinality(Worker)
           /\ tq_barriers \in 0 .. Cardinality(Thread)
           /\ tq_bthreads \in 0 .. tq_nthreads
<1>1. PICK L, W, H : L = Live /\ W = Waiting /\ H = Held
  OBVIOUS
<1>2. L \subseteq Worker /\ W \subseteq Thread /\ H \subseteq L
  <2>1. \A w \in Held : w \in Live
    BY DEF Held, HeldBy, Live, LeftPC
  <2>2. QED
    BY <1>1, <2>1, Finite
<1>3. IsFiniteSet(L) /\ Cardinality(L) \in Nat /\ Cardinality(W) \in Nat
  BY <1>2, Finite
<1>4. Cardinality(W) <= Cardinality(Thread) /\ Cardinality(Thread) \in Nat
  BY <1>2, Finite, FS_Subset, FS_CardinalityType
<1>5. Cardinality(H) <= Cardinality(L) /\ Cardinality(H) \in Nat
  BY <1>2, <1>3, FS_Subset, FS_CardinalityType
<1>6. /\ tq_running = Cardinality(L) + (IF pc[Creator] \in {"creating", "failed"} THEN 1 ELSE 0)
      /\ tq_running <= tq_nthreads
      /\ tq_barriers = Cardinality(W) /\ tq_bthreads = Cardinality(H)
  BY <1>1 DEF TaskInv, Counts
<1>7. tq_nthreads \in Nat /\ tq_nthreads <= Cardinality(Worker) /\ Cardinality(Worker) \in Nat
  BY Finite, FS_CardinalityType
<1>8. PICK c \in {0, 1} : tq_running = Cardinality(L) + c
  BY <1>6
<1>9. QED
  BY <1>3, <1>4, <1>5, <1>6, <1>7, <1>8

(* TASK_ONQUEUE and the worklist agree, and no task is on the list twice,  *)
(* in every interleaving of add, delete, worker and barrier; the counters  *)
(* keep their bounds.                                                      *)
THEOREM QueuedOnce == Spec => []OnQueueOnce
<1>1. TaskInv => OnQueueOnce
  <2> SUFFICES ASSUME TaskInv PROVE OnQueueOnce
    OBVIOUS
  <2>1. TypeOK
    <3>1. Shape
      BY DEF TaskInv
    <3>2. QED
      BY <3>1, CounterBounds DEF Shape, TypeOK, AllThreads, Sleepers
  <2>2. ASSUME NEW x \in Task \cup Thread
        PROVE  LET n == Cardinality({i \in 1..Len(tq_worklist) : tq_worklist[i] = x})
               IN  /\ n <= 1
                   /\ n = 1 => x \in onqueue
                   /\ x \in Task /\ x \in onqueue => n = 1
    <3>1. PICK S : S = {i \in 1..Len(tq_worklist) : tq_worklist[i] = x}
      OBVIOUS
    <3>2. /\ Distinct(tq_worklist)
          /\ Entry(tq_worklist, x) => x \in onqueue
          /\ x \in Task /\ x \in onqueue => Entry(tq_worklist, x)
      BY QueueEntries DEF TaskInv
    <3>3. CASE Entry(tq_worklist, x)
      <4>1. PICK i \in 1..Len(tq_worklist) : tq_worklist[i] = x
        BY <3>3 DEF Entry
      <4>2. S = {i}
        BY <3>1, <3>2, <4>1 DEF Distinct
      <4>3. Cardinality(S) = 1
        BY <4>2, FS_Singleton
      <4>4. QED
        BY <3>1, <3>2, <3>3, <4>3
    <3>4. CASE ~Entry(tq_worklist, x)
      <4>1. S = {}
        BY <3>1, <3>4 DEF Entry
      <4>2. Cardinality(S) = 0
        BY <4>1, FS_EmptySet
      <4>3. QED
        BY <3>1, <3>2, <3>4, <4>2
    <3>5. QED
      BY <3>3, <3>4
  <2>3. QED
    BY <2>1, <2>2 DEF OnQueueOnce
<1>2. QED
  BY <1>1, TaskQInvariant, PTL
=============================================================================
