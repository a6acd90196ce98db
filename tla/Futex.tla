-------------------------------- MODULE Futex --------------------------------
(***************************************************************************)
(* futex(2), sys/kern/sys_futex.c: FUTEX_WAIT, FUTEX_WAKE, FUTEX_REQUEUE   *)
(* on hashed futex_slpques, over the sleep queues of SleepQueue.           *)
(*                                                                         *)
(* The struct futex of a waiting thread is on its stack, so it is named by *)
(* its thread, and so is the channel it sleeps on.  A futex is identified  *)
(* by its address alone: ft_ps, ft_obj and ft_amap are part of it.  The    *)
(* write locks fsq_lock are abstract (RwLock shows what they promise):     *)
(* taking one is a step of its own, what is done under it up to the exit   *)
(* is one step.  A user program stores a value and then calls FUTEX_WAKE;  *)
(* the store is the first step of that call.                               *)
(***************************************************************************)
EXTENDS SleepQueue

CONSTANTS
    Addr,       \* user addresses
    BadAddr,    \* those that copyin32 faults on
    Value,      \* what may be stored at an address
    Slpque,     \* futex_get_slpque: the slpque (by its fsq_id) of an address
    Calls,      \* the calls each thread may make
    Signals     \* the signals that may be sent to each thread

Call == [op : {"wait", "wake", "requeue"}, f : Addr, val : Value, n : Nat,
         g : Addr, m : Nat,
         timeout : {"INFSLP", "some", "zero", "invalid"}]
FsqId == {Slpque[a] : a \in Addr}

\* What stands for the locals of a thread that is in user mode.
NoFutex == LET a == CHOOSE a \in Addr : TRUE
           IN  [off |-> a, fsq |-> Slpque[a], proc |-> FALSE]

ASSUME ThreadAssumption == IsFiniteSet(Thread)
ASSUME AddrAssumption ==
    Addr # {} /\ BadAddr \subseteq Addr /\ Slpque \in [Addr -> Nat]
ASSUME CallsAssumption ==
    \A p \in Thread : \A c \in Calls[p] : c \in Call
ASSUME SignalsAssumption == Signals \in [Thread -> SUBSET Signal]
ASSUME ChanAssumption == Chan = Thread /\ NULL \notin Thread

VARIABLES
    uval,       \* user memory
    fsq_list,   \* per slpque, the waiting futexes, oldest first
    fsq_lock,   \* per slpque, who holds fsq_lock
    ft,         \* the struct futex of a thread: ft_off, ft_fsq, ft_proc # NULL
    pc,         \* where a thread is
    call,       \* the arguments of its call
    ofsq,       \* the slpque whose lock futex_unwait goes for
    ret,        \* the error its call returns
    count       \* the number of threads it woke

queueVars == <<fsq_list, fsq_lock, ft>>
callVars == <<call, ofsq, ret, count>>
vars == <<sleepVars, uval, queueVars, pc, callVars>>

PC == {"user", "w_lock", "w_insert", "w_copyin", "w_setup", "w_eval",
       "w_sleep", "w_check", "w_exit", "u_lock", "u_have", "k_lock", "k_scan",
       "q_lock", "q_lock2", "q_scan", "userret"}
Errno == Error \cup {"EAGAIN", "EFAULT", "EINVAL", "ECANCELED", "ETIMEDOUT"}

TypeOK ==
    /\ SleepTypeOK
    /\ uval \in [Addr -> Value]
    /\ fsq_list \in [FsqId -> Seq(Thread)]
    /\ fsq_lock \in [FsqId -> Thread \cup {NULL}]
    /\ ft \in [Thread -> [off : Addr, fsq : FsqId, proc : BOOLEAN]]
    /\ pc \in [Thread -> PC]
    /\ \A p \in Thread : pc[p] # "user" => call[p] \in Calls[p]
    /\ ofsq \in [Thread -> FsqId]
    /\ ret \in [Thread -> Errno]
    /\ \A p \in Thread :
           pc[p] = "userret" => ret[p] \notin {"ERESTART", "EWOULDBLOCK"}
    /\ count \in [Thread -> 0..Cardinality(Thread)]

Init ==
    /\ SleepInit
    /\ uval \in [Addr -> Value]
    /\ fsq_list = [q \in FsqId |-> <<>>]
    /\ fsq_lock = [q \in FsqId |-> NULL]
    /\ ft = [p \in Thread |-> NoFutex]
    /\ ofsq = [p \in Thread |-> NoFutex.fsq]
    /\ pc = [p \in Thread |-> "user"]
    /\ call = [p \in Thread |-> NULL]
    /\ ret = [p \in Thread |-> "0"]
    /\ count = [p \in Thread |-> 0]

Goto(p, l) == pc' = [pc EXCEPT ![p] = l]

-----------------------------------------------------------------------------
(* The locks.                                                              *)

Free(q) == fsq_lock[q] = NULL
Acquire(p, q) == Free(q) /\ fsq_lock' = [fsq_lock EXCEPT ![q] = p]
\* rw_exit_write of every fsq_lock p holds.
Release(p) ==
    fsq_lock' = [q \in FsqId |-> IF fsq_lock[q] = p THEN NULL ELSE fsq_lock[q]]

-----------------------------------------------------------------------------
(* futex_wait                                                              *)

\* sys_futex and the checks of futex_wait before the futex is set up.
Wait(p, c) ==
    /\ pc[p] = "user" /\ c.op = "wait"
    /\ call' = [call EXCEPT ![p] = c]
    /\ count' = [count EXCEPT ![p] = 0]
    /\ \/ /\ c.timeout \in {"INFSLP", "some"}
          /\ ft' = [ft EXCEPT ![p] =
                       [off |-> c.f, fsq |-> Slpque[c.f], proc |-> TRUE]]
          /\ ofsq' = [ofsq EXCEPT ![p] = Slpque[c.f]]
          /\ ret' = [ret EXCEPT ![p] = "0"]
          /\ Goto(p, "w_lock")
       \/ /\ c.timeout \in {"zero", "invalid"}
          /\ ret' = [ret EXCEPT ![p] = IF c.timeout = "zero" THEN "ETIMEDOUT"
                                                             ELSE "EINVAL"]
          /\ Goto(p, "userret")
          /\ UNCHANGED <<ft, ofsq>>
    /\ UNCHANGED <<sleepVars, uval, fsq_list, fsq_lock>>

WaitLock(p) ==
    /\ pc[p] = "w_lock"
    /\ Acquire(p, ft[p].fsq)
    /\ Goto(p, "w_insert")
    /\ UNCHANGED <<sleepVars, uval, fsq_list, ft, callVars>>

\* The futex becomes visible to wake and requeue.
WaitInsert(p) ==
    /\ pc[p] = "w_insert"
    /\ fsq_list' = [fsq_list EXCEPT ![ft[p].fsq] = Append(@, p)]
    /\ Release(p)
    /\ Goto(p, "w_copyin")
    /\ UNCHANGED <<sleepVars, uval, ft, callVars>>

\* Mutant: the value is not compared once the futex is on the list.
MutWaitCopyin(p) ==
    /\ pc[p] = "w_copyin"
    /\ Goto(p, "w_setup")
    /\ UNCHANGED <<sleepVars, uval, queueVars, callVars>>

\* The user value is read; a fault, or another value, is returned.
WaitCopyin(p) ==
    /\ pc[p] = "w_copyin"
    /\ LET error == CASE call[p].f \in BadAddr -> "EFAULT"
                      [] /\ call[p].f \notin BadAddr
                         /\ uval[call[p].f] # call[p].val -> "EAGAIN"
                      [] OTHER -> "0"
       IN  /\ ret' = [ret EXCEPT ![p] = error]
           /\ Goto(p, IF error = "0" THEN "w_setup" ELSE "w_exit")
    /\ UNCHANGED <<sleepVars, uval, queueVars, call, ofsq, count>>

WaitSetup(p) ==
    /\ pc[p] = "w_setup"
    /\ sleep_setup(p, p, TRUE)
    /\ Goto(p, "w_eval")
    /\ UNCHANGED <<uval, queueVars, callVars>>

\* Mutant: ft_proc is not looked at again before the thread sleeps.
MutWaitEval(p) ==
    /\ pc[p] = "w_eval"
    /\ sleep_finish(p, call[p].timeout = "some", TRUE)
    /\ Goto(p, "w_sleep")
    /\ UNCHANGED <<uval, queueVars, callVars>>

\* ft_proc is read without the lock for sleep_finish's second argument.
WaitEval(p) ==
    /\ pc[p] = "w_eval"
    /\ sleep_finish(p, call[p].timeout = "some", ft[p].proc)
    /\ Goto(p, "w_sleep")
    /\ UNCHANGED <<uval, queueVars, callVars>>

WaitWoken(p) ==
    /\ pc[p] = "w_sleep"
    /\ SleepReturned(p)
    /\ ret' = [ret EXCEPT ![p] = sf[p].error]
    /\ Goto(p, "w_check")
    /\ UNCHANGED <<uval, queueVars, call, ofsq, count>>

\* After the sleep: a thread woken without error is off the list already.
WaitCheck(p) ==
    /\ pc[p] = "w_check"
    /\ Goto(p, IF ret[p] # "0" \/ ft[p].proc THEN "u_lock" ELSE "userret")
    /\ UNCHANGED <<sleepVars, uval, queueVars, callVars>>

\* The label exit: the error stands, whether the thread was woken or not.
WaitExit(p) ==
    /\ pc[p] = "w_exit"
    /\ Goto(p, IF ft[p].proc THEN "u_lock" ELSE "userret")
    /\ UNCHANGED <<sleepVars, uval, queueVars, callVars>>

-----------------------------------------------------------------------------
(* futex_unwait                                                            *)

UnwaitLock(p) ==
    /\ pc[p] = "u_lock"
    /\ Acquire(p, ofsq[p])
    /\ Goto(p, "u_have")
    /\ UNCHANGED <<sleepVars, uval, fsq_list, ft, callVars>>

\* Mutant: a wake that won the race against the timeout is not reported.
MutSleepError(e, waiting) ==
    CASE e = "ERESTART" -> "ECANCELED"
      [] e = "EWOULDBLOCK" -> "ETIMEDOUT"
      [] OTHER -> e

\* What futex_wait makes of the error of its sleep, after futex_unwait.
SleepError(e, waiting) ==
    CASE e \in {"EAGAIN", "EFAULT"} -> e
      [] e \notin {"EAGAIN", "EFAULT"} /\ ~waiting -> "0"
      [] e = "ERESTART" /\ waiting -> "ECANCELED"
      [] e = "EWOULDBLOCK" /\ waiting -> "ETIMEDOUT"
      [] OTHER -> e

\* Mutant: the futex is taken off the list it was first put on.
MutUnwait(p) ==
    /\ pc[p] = "u_have"
    /\ fsq_list' = IF ft[p].proc
                   THEN [fsq_list EXCEPT ![ofsq[p]] = Without(@, p)]
                   ELSE fsq_list
    /\ ret' = [ret EXCEPT ![p] = SleepError(@, ft[p].proc)]
    /\ Release(p)
    /\ Goto(p, "userret")
    /\ UNCHANGED <<sleepVars, uval, ft, call, ofsq, count>>

\* The lock is held: follow a requeued futex to its slpque, or take it off.
Unwait(p) ==
    /\ pc[p] = "u_have"
    /\ Release(p)
    /\ \/ /\ ofsq[p] # ft[p].fsq
          /\ ofsq' = [ofsq EXCEPT ![p] = ft[p].fsq]
          /\ Goto(p, "u_lock")
          /\ UNCHANGED <<fsq_list, ret>>
       \/ /\ ofsq[p] = ft[p].fsq
          /\ fsq_list' = IF ft[p].proc
                         THEN [fsq_list EXCEPT ![ofsq[p]] = Without(@, p)]
                         ELSE fsq_list
          /\ ret' = [ret EXCEPT ![p] = SleepError(@, ft[p].proc)]
          /\ Goto(p, "userret")
          /\ UNCHANGED ofsq
    /\ UNCHANGED <<sleepVars, uval, ft, call, count>>

-----------------------------------------------------------------------------
(* futex_wake and futex_requeue                                            *)

\* The indices of list q whose futexes wait at key.
Matching(q, key) == {i \in 1..Len(q) : ft[q[i]].off = key}

\* futex_list_wakeup: wakeup_proc for each thread of S, under SCHED_LOCK.
FutexListWakeup(S) ==
    /\ slpque' = [c \in Chan |-> IF c \in S THEN Without(slpque[c], c)
                                            ELSE slpque[c]]
    /\ p_wchan' = [p \in Thread |-> IF p \in S THEN NULL ELSE p_wchan[p]]
    /\ p_stat' = [p \in Thread |->
                     IF p \in S /\ p_wchan[p] # NULL /\ p_stat[p] # "SSTOP"
                     THEN Setrunnable(p, NULL) ELSE p_stat[p]]
    /\ UNCHANGED <<p_flag, p_siglist, ps_siglist, sleep_to, sf>>

\* The user's store and the call of FUTEX_WAKE, or of FUTEX_REQUEUE with
\* m = 0, which is the same.
Wake(p, c) ==
    /\ pc[p] = "user"
    /\ c.op = "wake" \/ (c.op = "requeue" /\ c.m = 0)
    /\ uval' = [uval EXCEPT ![c.f] = c.val]
    /\ call' = [call EXCEPT ![p] = c]
    /\ count' = [count EXCEPT ![p] = 0]
    /\ ret' = [ret EXCEPT ![p] = "0"]
    /\ Goto(p, IF c.n = 0 THEN "userret" ELSE "k_lock")
    /\ UNCHANGED <<sleepVars, queueVars, ofsq>>

WakeLock(p) ==
    /\ pc[p] = "k_lock"
    /\ Acquire(p, Slpque[call[p].f])
    /\ Goto(p, "k_scan")
    /\ UNCHANGED <<sleepVars, uval, fsq_list, ft, callVars>>

WakeScan(p) ==
    /\ pc[p] = "k_scan"
    /\ LET f == call[p].f
           q == fsq_list[Slpque[f]]
           at == Matching(q, f)
           woken == {i \in at : Rank(at, i) <= call[p].n}
           fl == {q[i] : i \in woken}
       IN  /\ fsq_list' = [fsq_list EXCEPT ![Slpque[f]] =
                               Part(q, (1..Len(q)) \ woken)]
           /\ ft' = [u \in Thread |->
                        IF u \in fl THEN [ft[u] EXCEPT !.proc = FALSE] ELSE ft[u]]
           /\ FutexListWakeup(fl)
           /\ count' = [count EXCEPT ![p] = Cardinality(fl)]
    /\ Release(p)
    /\ Goto(p, "userret")
    /\ UNCHANGED <<uval, call, ofsq, ret>>

Requeue(p, c) ==
    /\ pc[p] = "user" /\ c.op = "requeue" /\ c.m > 0
    /\ call' = [call EXCEPT ![p] = c]
    /\ count' = [count EXCEPT ![p] = 0]
    /\ ret' = [ret EXCEPT ![p] = "0"]
    /\ Goto(p, "q_lock")
    /\ UNCHANGED <<sleepVars, uval, queueVars, ofsq>>

\* Mutant: always the lock of the old slpque first.
MutFirstLock(p) == Slpque[call[p].f]

\* The locks are taken in the order of fsq_id.
FirstLock(p) ==
    LET o == Slpque[call[p].f]
        n == Slpque[call[p].g]
    IN  IF o <= n THEN o ELSE n

RequeueLock(p) ==
    /\ pc[p] = "q_lock"
    /\ Acquire(p, FirstLock(p))
    /\ Goto(p, IF Slpque[call[p].f] = Slpque[call[p].g] THEN "q_scan"
                                                        ELSE "q_lock2")
    /\ UNCHANGED <<sleepVars, uval, fsq_list, ft, callVars>>

RequeueLock2(p) ==
    /\ pc[p] = "q_lock2"
    /\ \E q \in {Slpque[call[p].f], Slpque[call[p].g]} \ {FirstLock(p)} :
          Acquire(p, q)
    /\ Goto(p, "q_scan")
    /\ UNCHANGED <<sleepVars, uval, fsq_list, ft, callVars>>

\* `++count == n` ends the scan, so n = 0 never ends it early; the rest of
\* the matching futexes, at most m, goes to the end of the new list.
RequeueScan(p) ==
    /\ pc[p] = "q_scan"
    /\ LET c == call[p]
           o == Slpque[c.f]
           n == Slpque[c.g]
           q == fsq_list[o]
           at == Matching(q, c.f)
           woken == {i \in at : c.n = 0 \/ Rank(at, i) <= c.n}
           moved == {i \in at \ woken : Rank(at, i) <= c.n + c.m}
           fl == {q[i] : i \in woken}
           left == [fsq_list EXCEPT ![o] =
                       Part(q, (1..Len(q)) \ (woken \cup moved))]
       IN  /\ fsq_list' = [left EXCEPT ![n] = @ \o Part(q, moved)]
           /\ ft' = [u \in Thread |->
                 IF u \in fl THEN [ft[u] EXCEPT !.proc = FALSE]
                 ELSE IF \E i \in moved : u = q[i]
                      THEN [ft[u] EXCEPT !.off = c.g, !.fsq = n]
                      ELSE ft[u]]
           /\ FutexListWakeup(fl)
           /\ count' = [count EXCEPT ![p] = Cardinality(fl)]
    /\ Release(p)
    /\ Goto(p, "userret")
    /\ UNCHANGED <<uval, call, ofsq, ret>>

-----------------------------------------------------------------------------
\* userret delivers what is pending, then the thread is in user mode.
Userret(p) ==
    /\ pc[p] = "userret"
    /\ \/ UserretStep(p) /\ UNCHANGED <<pc, ft, callVars>>
       \/ /\ sf[p].pc = "run" /\ Pending(p) = {}
          /\ Goto(p, "user")
          /\ ft' = [ft EXCEPT ![p] = NoFutex]
          /\ call' = [call EXCEPT ![p] = NULL]
          /\ ofsq' = [ofsq EXCEPT ![p] = NoFutex.fsq]
          /\ ret' = [ret EXCEPT ![p] = "0"]
          /\ count' = [count EXCEPT ![p] = 0]
          /\ UNCHANGED sleepVars
    /\ UNCHANGED <<uval, fsq_list, fsq_lock>>

Kill(p, s) ==
    /\ pc[p] # "user"
    /\ ptsignal(p, s)
    /\ UNCHANGED <<uval, queueVars, pc, callVars>>

\* The code a thread runs once it has called futex.
ThreadStep(p) ==
    \/ WaitLock(p) \/ WaitInsert(p) \/ WaitCopyin(p) \/ WaitSetup(p)
    \/ WaitEval(p) \/ WaitWoken(p) \/ WaitCheck(p) \/ WaitExit(p)
    \/ UnwaitLock(p) \/ Unwait(p)
    \/ WakeLock(p) \/ WakeScan(p)
    \/ RequeueLock(p) \/ RequeueLock2(p) \/ RequeueScan(p)
    \/ Userret(p)
    \/ SleepStep(p) /\ UNCHANGED <<uval, queueVars, pc, callVars>>

ClockStep(p) ==
    TimeoutStep(p) /\ UNCHANGED <<uval, queueVars, pc, callVars>>

Next ==
    \E p \in Thread :
        \/ \E c \in Calls[p] : Wait(p, c) \/ Wake(p, c) \/ Requeue(p, c)
        \/ ThreadStep(p)
        \/ ClockStep(p)
        \/ \E s \in Signals[p] : Kill(p, s)

Spec == Init /\ [][Next]_vars

(* A thread that can run does run, and the timeout of one that cannot      *)
(* fires.  Nobody is obliged to call futex.                                *)
Fairness == \A p \in Thread : WF_vars(ThreadStep(p) \/ ClockStep(p))
FairSpec == Spec /\ Fairness

-----------------------------------------------------------------------------
(* Properties                                                              *)

\* p is in futex_wait, past the insertion and before it is known to be off.
Listed(p) ==
    pc[p] \in {"w_copyin", "w_setup", "w_eval", "w_sleep", "w_check",
               "w_exit", "u_lock", "u_have"}

\* A slpque holds exactly the futexes of the threads that are inside
\* futex_wait and not woken, each once and on the slpque its address hashes
\* to: no list points into the stack of a thread that returned, although a
\* wake, a requeue, a signal and a timeout race to move or remove the futex.
FutexesListed ==
    /\ TypeOK
    /\ \A p \in Thread, q \in FsqId :
          /\ Cardinality({i \in 1..Len(fsq_list[q]) : fsq_list[q][i] = p})
               = IF Listed(p) /\ ft[p].proc /\ ft[p].fsq = q THEN 1 ELSE 0
          /\ Listed(p) => ft[p].fsq = Slpque[ft[p].off]

\* p has switched away inside sleep_finish and is still on a sleep queue.
Asleep(p) == sf[p].pc = "switched" /\ p_wchan[p] # NULL

\* No wake is lost: a thread asleep at the address it asked for, whose value
\* is not the one it compared with, has a FUTEX_WAKE ahead of it.  (For
\* wakes of at least as many threads as there are.)
NoLostWake ==
    \A p \in Thread :
        Asleep(p) /\ ft[p].off = call[p].f /\ uval[call[p].f] # call[p].val =>
            \E k \in Thread : /\ pc[k] \in {"k_lock", "k_scan"}
                              /\ call[k].f = call[p].f

\* A wake that reached a thread is not turned into an error by the signal or
\* the timeout that ended the sleep at the same time.
WakeOutranksError ==
    \A p \in Thread :
        (/\ pc[p] = "userret" /\ call[p].op = "wait" /\ ~ft[p].proc
         /\ call[p].timeout \in {"INFSLP", "some"})
            => ret[p] \in {"0", "EAGAIN", "EFAULT"}

\* The locks of a requeue, an unwait and a wake cannot block each other in a
\* circle: somebody who holds a lock waits for none.
Holder(p) == \E q \in FsqId : fsq_lock[q] = p
NoLockCycle ==
    (\E p \in Thread : Holder(p)) =>
        \E p \in Thread : /\ Holder(p)
                          /\ pc[p] = "q_lock2" =>
                               \E q \in {Slpque[call[p].f], Slpque[call[p].g]} :
                                   Free(q)

\* A thread that was woken, or that has a timeout, leaves its sleep, also
\* when the wake comes between the insertion and sleep_finish.
WaitEnds ==
    \A p \in Thread :
        (/\ pc[p] \in {"w_setup", "w_eval", "w_sleep"}
         /\ ~ft[p].proc \/ call[p].timeout = "some")
            ~> (pc[p] \notin {"w_setup", "w_eval", "w_sleep"})

=============================================================================
