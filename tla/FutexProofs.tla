----------------------------- MODULE FutexProofs -----------------------------
(***************************************************************************)
(* The safety of futex_wait, futex_wake and futex_requeue for any number   *)
(* of threads, addresses and slpques and for any calls and signals.  The   *)
(* invariant relates, for every thread, the place in the call, the lists   *)
(* of waiting futexes and the locks (Own, Lists, Locks); what the sleep    *)
(* does to a thread is taken from SleepQueueProofs.                        *)
(***************************************************************************)
EXTENDS Futex, SleepQueueProofs, WellFoundedInduction

-----------------------------------------------------------------------------
(* The invariant.                                                          *)

\* Where a thread that called futex is in the code of kern_synch.c.
Located(p) ==
    /\ pc[p] = "w_eval" => sf[p].pc = "setup"
    /\ pc[p] = "w_sleep" => sf[p].pc \in InFinish
    /\ pc[p] = "userret" => sf[p].pc \in InUser
    /\ pc[p] \notin {"w_eval", "w_sleep", "userret"} => sf[p].pc = "run"

\* What a call knows where it is: its operation and its error.
Calling(p) ==
    /\ pc[p] \in {"w_lock", "w_insert"} => ft[p].proc
    /\ pc[p] = "w_exit" => ret[p] \in {"EAGAIN", "EFAULT"}
    /\ pc[p] \in {"k_lock", "k_scan", "q_lock", "q_lock2", "q_scan"} =>
          call[p].op # "wait" /\ ret[p] = "0"
    /\ pc[p] = "q_lock2" => Slpque[call[p].f] # Slpque[call[p].g]
    /\ (/\ pc[p] = "userret" /\ call[p].op = "wait" /\ ~ft[p].proc
        /\ call[p].timeout \in {"INFSLP", "some"})
          => ret[p] \in {"0", "EAGAIN", "EFAULT"}

\* A thread sleeps only as long as nobody has woken its futex.
Waiting(p) == (Willing(p) => ft[p].proc) /\ ft[p].fsq = Slpque[ft[p].off]

Own(p) == SleepGood(p) /\ Located(p) /\ Calling(p) /\ Waiting(p)

\* The lists hold the futexes of the threads that wait, each once.
Lists ==
    \A q \in FsqId :
        /\ NoDup(fsq_list[q])
        /\ \A p \in Thread : p \in Elements(fsq_list[q]) <=>
                                Listed(p) /\ ft[p].proc /\ ft[p].fsq = q

\* The thread is where it has the lock of slpque q.
Holds(p, q) ==
    \/ pc[p] = "w_insert" /\ q = ft[p].fsq
    \/ pc[p] = "u_have" /\ q = ofsq[p]
    \/ pc[p] = "k_scan" /\ q = Slpque[call[p].f]
    \/ pc[p] = "q_lock2" /\ q = FirstLock(p)
    \/ pc[p] = "q_scan" /\ q \in {Slpque[call[p].f], Slpque[call[p].g]}

Locks == \A p \in Thread, q \in FsqId : fsq_lock[q] = p <=> Holds(p, q)

FutexInv ==
    /\ TypeOK
    /\ DOMAIN call = Thread
    /\ \A p \in Thread : Own(p)
    /\ Lists /\ Locks

\* The other threads, their futexes and their calls stay as they are.
Frame(p) ==
    /\ Others(p)
    /\ \A u \in Thread \ {p} : /\ pc'[u] = pc[u] /\ ft'[u] = ft[u] /\ call'[u] = call[u]
                               /\ ofsq'[u] = ofsq[u] /\ ret'[u] = ret[u]

\* A step takes a lock, gives all locks back or leaves them alone.
LockStep(p) ==
    \/ fsq_lock' = fsq_lock /\ \A q \in FsqId : Holds(p, q)' <=> Holds(p, q)
    \/ \E l \in FsqId : /\ Acquire(p, l)
                        /\ \A q \in FsqId : Holds(p, q)' <=> Holds(p, q) \/ q = l
    \/ Release(p) /\ \A q \in FsqId : ~Holds(p, q)'

\* The types, variable by variable.
LEMMA TypesStep ==
    ASSUME FutexInv, NEW p \in Thread, SleepTypeOK', uval' \in [Addr -> Value],
           fsq_list' \in [FsqId -> Seq(Thread)],
           fsq_lock' \in [FsqId -> Thread \cup {NULL}],
           ft' \in [Thread -> [off : Addr, fsq : FsqId, proc : BOOLEAN]],
           pc' \in [Thread -> PC], ofsq' \in [Thread -> FsqId], ret' \in [Thread -> Errno],
           count' \in [Thread -> 0..Cardinality(Thread)],
           \A u \in Thread \ {p} : pc'[u] = pc[u] /\ call'[u] = call[u] /\ ret'[u] = ret[u],
           pc'[p] # "user" => call'[p] \in Calls[p],
           pc'[p] = "userret" => ret'[p] \notin {"ERESTART", "EWOULDBLOCK"}
    PROVE  TypeOK'
BY DEF FutexInv, TypeOK

\* What is said of the other threads still holds.
LEMMA OwnFrame ==
    ASSUME FutexInv, NEW p \in Thread, Frame(p), NEW u \in Thread \ {p}
    PROVE  Own(u)'
<1>1. SleepGood(u)' /\ (Willing(u)' <=> Willing(u)) /\ sf'[u] = sf[u]
  BY OthersGood DEF Frame, FutexInv, Own
<1>2. pc'[u] = pc[u] /\ ft'[u] = ft[u] /\ call'[u] = call[u] /\ ret'[u] = ret[u]
  BY DEF Frame
<1>3. Located(u) /\ Calling(u) /\ Waiting(u)
  BY DEF FutexInv, Own
<1>4. Located(u)'
  BY <1>1, <1>2, <1>3 DEF Located
<1>5. Calling(u)'
  BY <1>2, <1>3 DEF Calling
<1>6. Waiting(u)'
  BY <1>1, <1>2, <1>3 DEF Waiting
<1>7. QED
  BY <1>1, <1>4, <1>5, <1>6 DEF Own

\* The lists are not touched and the thread stays on the one it is on.
LEMMA ListsFrame ==
    ASSUME FutexInv, NEW p \in Thread, Frame(p), fsq_list' = fsq_list,
           Listed(p)' /\ ft'[p].proc <=> Listed(p) /\ ft[p].proc,
           Listed(p) /\ ft[p].proc => ft'[p].fsq = ft[p].fsq
    PROVE  Lists'
<1>1. \A u \in Thread \ {p} : ft'[u] = ft[u] /\ (Listed(u)' <=> Listed(u))
  BY DEF Frame, Listed
<1>2. ASSUME NEW q \in FsqId, NEW u \in Thread
      PROVE  u \in Elements(fsq_list[q]) <=> Listed(u)' /\ ft'[u].proc /\ ft'[u].fsq = q
  <2>1. u \in Elements(fsq_list[q]) <=> Listed(u) /\ ft[u].proc /\ ft[u].fsq = q
    BY DEF FutexInv, Lists
  <2>2. QED
    BY <1>1, <2>1
<1>3. \A q \in FsqId : NoDup(fsq_list[q])
  BY DEF FutexInv, Lists
<1>4. QED
  BY <1>2, <1>3 DEF Lists

\* The locks go with the places of the threads.
LEMMA LocksStep ==
    ASSUME FutexInv, NEW p \in Thread, LockStep(p),
           \A u \in Thread \ {p} :
              /\ pc'[u] = pc[u] /\ call'[u] = call[u] /\ ofsq'[u] = ofsq[u]
              /\ pc[u] = "w_insert" => ft'[u] = ft[u]
    PROVE  Locks'
<1>1. ASSUME NEW u \in Thread \ {p}, NEW q \in FsqId
      PROVE  Holds(u, q)' <=> Holds(u, q)
  BY DEF Holds, FirstLock
<1>2. Locks /\ fsq_lock \in [FsqId -> Thread \cup {NULL}]
  BY DEF FutexInv, TypeOK
<1>3. CASE fsq_lock' = fsq_lock /\ \A q \in FsqId : Holds(p, q)' <=> Holds(p, q)
  BY <1>1, <1>2, <1>3 DEF Locks
<1>4. ASSUME NEW l \in FsqId, Acquire(p, l),
             \A q \in FsqId : Holds(p, q)' <=> Holds(p, q) \/ q = l
      PROVE  Locks'
  <2>1. fsq_lock[l] = NULL /\ fsq_lock' = [fsq_lock EXCEPT ![l] = p] /\ NULL \notin Thread
    BY <1>4, ChanAssumption DEF Acquire, Free
  <2>2. \A q \in FsqId : fsq_lock'[q] = IF q = l THEN p ELSE fsq_lock[q]
    BY <1>2, <2>1
  <2>3. ASSUME NEW u \in Thread, NEW q \in FsqId
        PROVE  fsq_lock'[q] = u <=> Holds(u, q)'
    <3>1. fsq_lock[q] = u <=> Holds(u, q)
      BY <1>2 DEF Locks
    <3>2. CASE u = p
      BY <1>4, <2>2, <3>1, <3>2
    <3>3. CASE u # p
      <4>1. Holds(u, q)' <=> Holds(u, q)
        BY <1>1, <3>3
      <4>2. QED
        BY <2>1, <2>2, <3>1, <3>3, <4>1
    <3>4. QED
      BY <3>2, <3>3
  <2>4. QED
    BY <2>3 DEF Locks
<1>5. CASE Release(p) /\ \A q \in FsqId : ~Holds(p, q)'
  <2>1. \A q \in FsqId : fsq_lock'[q] = IF fsq_lock[q] = p THEN NULL ELSE fsq_lock[q]
    BY <1>5 DEF Release
  <2>2. ASSUME NEW u \in Thread, NEW q \in FsqId
        PROVE  fsq_lock'[q] = u <=> Holds(u, q)'
    <3>1. fsq_lock[q] = u <=> Holds(u, q)
      BY <1>2 DEF Locks
    <3>2. CASE u = p
      BY <1>5, <2>1, <3>2, ChanAssumption
    <3>3. CASE u # p
      <4>1. Holds(u, q)' <=> Holds(u, q)
        BY <1>1, <3>3
      <4>2. QED
        BY <2>1, <3>1, <3>3, <4>1, ChanAssumption
    <3>4. QED
      BY <3>2, <3>3
  <2>3. QED
    BY <2>2 DEF Locks
<1>6. QED
  BY <1>3, <1>4, <1>5 DEF LockStep

\* A step of one thread.
LEMMA StepKeeps ==
    ASSUME FutexInv, NEW p \in Thread, Frame(p), TypeOK', DOMAIN call' = Thread, Own(p)',
           LockStep(p), Lists'
    PROVE  FutexInv'
<1>1. \A u \in Thread : Own(u)'
  BY OwnFrame
<1>2. Locks'
  BY LocksStep DEF Frame
<1>3. QED
  BY <1>1, <1>2 DEF FutexInv

-----------------------------------------------------------------------------
(* Steps that move a thread on in its call and leave its futex alone.      *)

\* Such a step, inside of a call and outside of the sleep.
LEMMA MoveKeeps ==
    ASSUME FutexInv, NEW p \in Thread, NEW l \in PC \ {"user", "w_eval", "w_sleep"},
           pc[p] \notin {"user", "w_eval", "w_sleep", "userret"},
           UNCHANGED <<sleepVars, uval, fsq_list, ft, call, ofsq, count>>,
           pc' = [pc EXCEPT ![p] = l], fsq_lock' \in [FsqId -> Thread \cup {NULL}],
           ret' \in [Thread -> Errno], \A u \in Thread \ {p} : ret'[u] = ret[u],
           l = "userret" => ret'[p] \notin {"ERESTART", "EWOULDBLOCK"},
           Calling(p)', LockStep(p),
           Listed(p)' /\ ft[p].proc <=> Listed(p) /\ ft[p].proc
    PROVE  FutexInv'
<1>1. SleepTypeOK' /\ Others(p) /\ SleepGood(p)' /\ (Willing(p)' <=> Willing(p)) /\ sf' = sf
  BY NoSleepStep DEF sleepVars, FutexInv, TypeOK, Own
<1>2. pc' \in [Thread -> PC] /\ pc'[p] = l /\ \A u \in Thread \ {p} : pc'[u] = pc[u]
  BY DEF FutexInv, TypeOK
<1>3. Frame(p)
  BY <1>1, <1>2 DEF Frame
<1>4. TypeOK'
  <2>1. call'[p] \in Calls[p]
    BY DEF FutexInv, TypeOK
  <2>2. QED
    BY <1>1, <1>2, <2>1, TypesStep DEF FutexInv, TypeOK
<1>5. Own(p)'
  <2>1. Located(p)'
    BY <1>1, <1>2 DEF FutexInv, Own, Located, InUser
  <2>2. Waiting(p)'
    BY <1>1 DEF FutexInv, Own, Waiting
  <2>3. QED
    BY <1>1, <2>1, <2>2 DEF Own
<1>6. Lists'
  BY <1>3, ListsFrame
<1>7. QED
  BY <1>3, <1>4, <1>5, <1>6, StepKeeps DEF FutexInv

\* Taking a lock keeps the type of the locks.
LEMMA AcquireType ==
    ASSUME FutexInv, NEW p \in Thread, NEW l \in FsqId, Acquire(p, l)
    PROVE  fsq_lock' \in [FsqId -> Thread \cup {NULL}]
BY DEF FutexInv, TypeOK, Acquire

\* ... and so does giving them back.
LEMMA ReleaseType ==
    ASSUME FutexInv, NEW p \in Thread, Release(p)
    PROVE  fsq_lock' \in [FsqId -> Thread \cup {NULL}]
BY DEF FutexInv, TypeOK, Release

\* The addresses of a call have slpques.
LEMMA CallTypes ==
    ASSUME FutexInv, NEW p \in Thread, pc[p] # "user"
    PROVE  /\ call[p] \in Call /\ call[p].f \in Addr /\ call[p].g \in Addr
           /\ call[p].n \in Nat /\ call[p].m \in Nat
           /\ Slpque[call[p].f] \in FsqId /\ Slpque[call[p].g] \in FsqId
           /\ Slpque[call[p].f] \in Nat /\ Slpque[call[p].g] \in Nat
<1>1. call[p] \in Call
  BY CallsAssumption DEF FutexInv, TypeOK
<1>2. /\ call[p].f \in Addr /\ call[p].g \in Addr /\ call[p].n \in Nat /\ call[p].m \in Nat
  BY <1>1 DEF Call
<1>3. QED
  BY <1>1, <1>2, AddrAssumption DEF FsqId

\* futex_wait() takes the lock of its slpque.
LEMMA WaitLockKeeps ==
    ASSUME FutexInv, NEW p \in Thread, WaitLock(p)
    PROVE  FutexInv'
<1>1. /\ pc[p] = "w_lock" /\ Acquire(p, ft[p].fsq) /\ pc' = [pc EXCEPT ![p] = "w_insert"]
      /\ UNCHANGED <<sleepVars, uval, fsq_list, ft, call, ofsq, ret, count>>
  BY DEF WaitLock, Goto, callVars
<1>2. ft[p].fsq \in FsqId /\ pc'[p] = "w_insert" /\ ret \in [Thread -> Errno]
  BY <1>1 DEF FutexInv, TypeOK
<1>3. Calling(p)'
  BY <1>1, <1>2 DEF FutexInv, Own, Calling
<1>4. LockStep(p)
  BY <1>1, <1>2 DEF LockStep, Holds
<1>5. QED
  BY <1>1, <1>2, <1>3, <1>4, AcquireType, MoveKeeps DEF PC, Listed

\* futex_wait() reads the user value.
LEMMA WaitCopyinKeeps ==
    ASSUME FutexInv, NEW p \in Thread, WaitCopyin(p)
    PROVE  FutexInv'
<1>1. PICK e \in {"EFAULT", "EAGAIN", "0"} :
         /\ ret' = [ret EXCEPT ![p] = e]
         /\ pc' = [pc EXCEPT ![p] = IF e = "0" THEN "w_setup" ELSE "w_exit"]
  BY DEF WaitCopyin, Goto
<1>2. PICK l \in {"w_setup", "w_exit"} : l = IF e = "0" THEN "w_setup" ELSE "w_exit"
  OBVIOUS
<1>3. /\ pc[p] = "w_copyin" /\ fsq_lock' = fsq_lock
      /\ UNCHANGED <<sleepVars, uval, fsq_list, ft, call, ofsq, count>>
  BY DEF WaitCopyin, queueVars
<1>4. /\ ret' \in [Thread -> Errno] /\ ret'[p] = e /\ \A u \in Thread \ {p} : ret'[u] = ret[u]
      /\ pc'[p] = l /\ fsq_lock' \in [FsqId -> Thread \cup {NULL}]
  BY <1>1, <1>2, <1>3 DEF FutexInv, TypeOK, Errno, Error
<1>5. Calling(p)'
  BY <1>2, <1>4 DEF Calling
<1>6. LockStep(p)
  BY <1>3, <1>4 DEF LockStep, Holds
<1>7. QED
  BY <1>1, <1>2, <1>3, <1>4, <1>5, <1>6, MoveKeeps DEF PC, Listed

\* futex_wait() looks at what its sleep returned: without an error the waker
\* has taken the futex off.
LEMMA WaitCheckKeeps ==
    ASSUME FutexInv, NEW p \in Thread, WaitCheck(p)
    PROVE  FutexInv'
<1>1. PICK l \in {"u_lock", "userret"} : l = IF ret[p] # "0" \/ ft[p].proc THEN "u_lock" ELSE "userret"
  OBVIOUS
<1>2. /\ pc[p] = "w_check" /\ fsq_lock' = fsq_lock /\ pc' = [pc EXCEPT ![p] = l]
      /\ UNCHANGED <<sleepVars, uval, fsq_list, ft, call, ofsq, ret, count>>
  BY <1>1 DEF WaitCheck, Goto, queueVars, callVars
<1>3. pc'[p] = l /\ ret \in [Thread -> Errno] /\ fsq_lock' \in [FsqId -> Thread \cup {NULL}]
  BY <1>2 DEF FutexInv, TypeOK
<1>4. Calling(p)'
  BY <1>1, <1>2, <1>3 DEF Calling
<1>5. LockStep(p)
  BY <1>1, <1>2, <1>3 DEF LockStep, Holds
<1>6. QED
  BY <1>1, <1>2, <1>3, <1>4, <1>5, MoveKeeps DEF PC, Listed

\* futex_wait() leaves with the error of the copyin.
LEMMA WaitExitKeeps ==
    ASSUME FutexInv, NEW p \in Thread, WaitExit(p)
    PROVE  FutexInv'
<1>1. PICK l \in {"u_lock", "userret"} : l = IF ft[p].proc THEN "u_lock" ELSE "userret"
  OBVIOUS
<1>2. /\ pc[p] = "w_exit" /\ fsq_lock' = fsq_lock /\ pc' = [pc EXCEPT ![p] = l]
      /\ UNCHANGED <<sleepVars, uval, fsq_list, ft, call, ofsq, ret, count>>
  BY <1>1 DEF WaitExit, Goto, queueVars, callVars
<1>3. /\ pc'[p] = l /\ ret \in [Thread -> Errno] /\ fsq_lock' \in [FsqId -> Thread \cup {NULL}]
      /\ ret[p] \in {"EAGAIN", "EFAULT"}
  BY <1>2 DEF FutexInv, TypeOK, Own, Calling
<1>4. Calling(p)'
  BY <1>1, <1>2, <1>3 DEF Calling
<1>5. LockStep(p)
  BY <1>1, <1>2, <1>3 DEF LockStep, Holds
<1>6. QED
  BY <1>1, <1>2, <1>3, <1>4, <1>5, MoveKeeps DEF PC, Listed

\* futex_unwait() takes the lock of the slpque it believes its futex on.
LEMMA UnwaitLockKeeps ==
    ASSUME FutexInv, NEW p \in Thread, UnwaitLock(p)
    PROVE  FutexInv'
<1>1. /\ pc[p] = "u_lock" /\ Acquire(p, ofsq[p]) /\ pc' = [pc EXCEPT ![p] = "u_have"]
      /\ UNCHANGED <<sleepVars, uval, fsq_list, ft, call, ofsq, ret, count>>
  BY DEF UnwaitLock, Goto, callVars
<1>2. ofsq[p] \in FsqId /\ pc'[p] = "u_have" /\ ret \in [Thread -> Errno]
  BY <1>1 DEF FutexInv, TypeOK
<1>3. Calling(p)'
  BY <1>1, <1>2 DEF Calling
<1>4. LockStep(p)
  BY <1>1, <1>2 DEF LockStep, Holds
<1>5. QED
  BY <1>1, <1>2, <1>3, <1>4, AcquireType, MoveKeeps DEF PC, Listed

\* futex_wake() takes the lock of its slpque.
LEMMA WakeLockKeeps ==
    ASSUME FutexInv, NEW p \in Thread, WakeLock(p)
    PROVE  FutexInv'
<1>1. /\ pc[p] = "k_lock" /\ Acquire(p, Slpque[call[p].f]) /\ pc' = [pc EXCEPT ![p] = "k_scan"]
      /\ UNCHANGED <<sleepVars, uval, fsq_list, ft, call, ofsq, ret, count>>
  BY DEF WakeLock, Goto, callVars
<1>2. Slpque[call[p].f] \in FsqId /\ pc'[p] = "k_scan" /\ ret \in [Thread -> Errno]
  BY <1>1, CallTypes DEF FutexInv, TypeOK
<1>3. Calling(p)'
  BY <1>1, <1>2 DEF FutexInv, Own, Calling
<1>4. LockStep(p)
  BY <1>1, <1>2 DEF LockStep, Holds
<1>5. QED
  BY <1>1, <1>2, <1>3, <1>4, AcquireType, MoveKeeps DEF PC, Listed

\* futex_requeue() takes the first of its locks.
LEMMA RequeueLockKeeps ==
    ASSUME FutexInv, NEW p \in Thread, RequeueLock(p)
    PROVE  FutexInv'
<1>1. PICK l \in {"q_scan", "q_lock2"} :
         l = IF Slpque[call[p].f] = Slpque[call[p].g] THEN "q_scan" ELSE "q_lock2"
  OBVIOUS
<1>2. /\ pc[p] = "q_lock" /\ Acquire(p, FirstLock(p)) /\ pc' = [pc EXCEPT ![p] = l]
      /\ UNCHANGED <<sleepVars, uval, fsq_list, ft, call, ofsq, ret, count>>
  BY <1>1 DEF RequeueLock, Goto, callVars
<1>3. FirstLock(p) \in FsqId /\ pc'[p] = l /\ ret \in [Thread -> Errno]
  BY <1>2, CallTypes DEF FutexInv, TypeOK, FirstLock
<1>4. Calling(p)'
  BY <1>1, <1>2, <1>3 DEF FutexInv, Own, Calling
<1>5. LockStep(p)
  <2>1. FirstLock(p)' = FirstLock(p)
    BY <1>2 DEF FirstLock
  <2>2. l = "q_scan" => FirstLock(p) = Slpque[call[p].f] /\ Slpque[call[p].f] = Slpque[call[p].g]
    BY <1>1 DEF FirstLock
  <2>3. \A q \in FsqId : Holds(p, q)' <=> Holds(p, q) \/ q = FirstLock(p)
    BY <1>1, <1>2, <1>3, <2>1, <2>2 DEF Holds
  <2>4. QED
    BY <1>2, <1>3, <2>3 DEF LockStep
<1>6. QED
  BY <1>1, <1>2, <1>3, <1>4, <1>5, AcquireType, MoveKeeps DEF PC, Listed

\* futex_requeue() takes the second of its locks.
LEMMA RequeueLock2Keeps ==
    ASSUME FutexInv, NEW p \in Thread, RequeueLock2(p)
    PROVE  FutexInv'
<1>1. PICK k \in {Slpque[call[p].f], Slpque[call[p].g]} \ {FirstLock(p)} : Acquire(p, k)
  BY DEF RequeueLock2
<1>2. /\ pc[p] = "q_lock2" /\ pc' = [pc EXCEPT ![p] = "q_scan"]
      /\ UNCHANGED <<sleepVars, uval, fsq_list, ft, call, ofsq, ret, count>>
  BY DEF RequeueLock2, Goto, callVars
<1>3. k \in FsqId /\ pc'[p] = "q_scan" /\ ret \in [Thread -> Errno]
  BY <1>1, <1>2, CallTypes DEF FutexInv, TypeOK
<1>4. Calling(p)'
  BY <1>2, <1>3 DEF FutexInv, Own, Calling
<1>5. LockStep(p)
  <2>1. {k, FirstLock(p)} = {Slpque[call[p].f], Slpque[call[p].g]}
    BY <1>1 DEF FirstLock
  <2>2. \A q \in FsqId : Holds(p, q)' <=> Holds(p, q) \/ q = k
    BY <1>2, <1>3, <2>1 DEF Holds
  <2>3. QED
    BY <1>1, <1>3, <2>2 DEF LockStep
<1>6. QED
  BY <1>1, <1>2, <1>3, <1>4, <1>5, AcquireType, MoveKeeps DEF PC, Listed

-----------------------------------------------------------------------------
(* The beginning and the end of a call.                                    *)

\* A thread enters a call: it has no futex on a list and no lock.
LEMMA EnterKeeps ==
    ASSUME FutexInv, NEW p \in Thread, NEW c \in Calls[p],
           NEW l \in {"w_lock", "k_lock", "q_lock", "userret"},
           NEW e \in {"0", "ETIMEDOUT", "EINVAL"},
           pc[p] = "user", pc' = [pc EXCEPT ![p] = l], UNCHANGED <<sleepVars, fsq_list, fsq_lock>>,
           call' = [call EXCEPT ![p] = c], ret' = [ret EXCEPT ![p] = e],
           count' = [count EXCEPT ![p] = 0], uval' \in [Addr -> Value],
           ofsq' \in [Thread -> FsqId],
           ft' \in [Thread -> [off : Addr, fsq : FsqId, proc : BOOLEAN]],
           \A u \in Thread \ {p} : ft'[u] = ft[u] /\ ofsq'[u] = ofsq[u],
           ft'[p].fsq = Slpque[ft'[p].off],
           l = "w_lock" => ft'[p].proc,
           l \in {"k_lock", "q_lock"} => c.op # "wait" /\ e = "0",
           l = "userret" /\ c.op = "wait" => c.timeout \notin {"INFSLP", "some"}
    PROVE  FutexInv'
<1>1. SleepTypeOK' /\ Others(p) /\ SleepGood(p)' /\ (Willing(p)' <=> Willing(p)) /\ sf' = sf
  BY NoSleepStep DEF sleepVars, FutexInv, TypeOK, Own
<1>2. /\ pc' \in [Thread -> PC] /\ pc'[p] = l /\ \A u \in Thread \ {p} : pc'[u] = pc[u]
      /\ ret' \in [Thread -> Errno] /\ ret'[p] = e /\ \A u \in Thread \ {p} : ret'[u] = ret[u]
  BY DEF FutexInv, TypeOK, PC, Errno, Error
<1>3. DOMAIN call' = Thread /\ call'[p] = c /\ \A u \in Thread \ {p} : call'[u] = call[u]
  BY DEF FutexInv
<1>4. Frame(p)
  BY <1>1, <1>2, <1>3 DEF Frame
<1>5. count' \in [Thread -> 0..Cardinality(Thread)]
  <2>1. Cardinality(Thread) \in Nat
    BY ThreadAssumption, FS_CardinalityType
  <2>2. QED
    BY <2>1 DEF FutexInv, TypeOK
<1>6. TypeOK'
  BY <1>1, <1>2, <1>3, <1>5, TypesStep DEF FutexInv, TypeOK
<1>7. Own(p)'
  <2>1. sf[p].pc = "run" /\ ~Willing(p)
    BY DEF FutexInv, Own, Located, Willing
  <2>2. Located(p)'
    BY <1>1, <1>2, <2>1 DEF Located, InUser
  <2>3. Calling(p)'
    BY <1>2, <1>3 DEF Calling
  <2>4. Waiting(p)'
    BY <1>1, <2>1 DEF Waiting
  <2>5. QED
    BY <1>1, <2>2, <2>3, <2>4 DEF Own
<1>8. LockStep(p)
  BY <1>2 DEF LockStep, Holds
<1>9. Lists'
  BY <1>2, <1>4, ListsFrame DEF Listed
<1>10. QED
  BY <1>3, <1>4, <1>6, <1>7, <1>8, <1>9, StepKeeps

\* sys_futex() with FUTEX_WAIT.
LEMMA WaitKeeps ==
    ASSUME FutexInv, NEW p \in Thread, NEW c \in Calls[p], Wait(p, c)
    PROVE  FutexInv'
<1>1. /\ pc[p] = "user" /\ c.op = "wait" /\ UNCHANGED <<sleepVars, uval, fsq_list, fsq_lock>>
      /\ call' = [call EXCEPT ![p] = c] /\ count' = [count EXCEPT ![p] = 0]
  BY DEF Wait
<1>2. c.f \in Addr /\ Slpque[c.f] \in FsqId
  BY CallsAssumption DEF Call, FsqId
<1>3. /\ uval' \in [Addr -> Value] /\ ofsq \in [Thread -> FsqId]
      /\ ft \in [Thread -> [off : Addr, fsq : FsqId, proc : BOOLEAN]]
      /\ ft[p].fsq = Slpque[ft[p].off]
  BY <1>1 DEF FutexInv, TypeOK, Own, Waiting
<1>4. CASE /\ ft' = [ft EXCEPT ![p] = [off |-> c.f, fsq |-> Slpque[c.f], proc |-> TRUE]]
           /\ ofsq' = [ofsq EXCEPT ![p] = Slpque[c.f]] /\ ret' = [ret EXCEPT ![p] = "0"]
           /\ pc' = [pc EXCEPT ![p] = "w_lock"]
  <2>1. /\ ft' \in [Thread -> [off : Addr, fsq : FsqId, proc : BOOLEAN]]
        /\ ft'[p].fsq = Slpque[ft'[p].off] /\ ft'[p].proc /\ ofsq' \in [Thread -> FsqId]
        /\ \A u \in Thread \ {p} : ft'[u] = ft[u] /\ ofsq'[u] = ofsq[u]
    BY <1>2, <1>3, <1>4
  <2>2. QED
    BY <1>1, <1>3, <1>4, <2>1, EnterKeeps
<1>5. ASSUME NEW e \in {"ETIMEDOUT", "EINVAL"}, c.timeout \in {"zero", "invalid"},
             ret' = [ret EXCEPT ![p] = e], pc' = [pc EXCEPT ![p] = "userret"],
             UNCHANGED <<ft, ofsq>>
      PROVE  FutexInv'
  BY <1>1, <1>3, <1>5, EnterKeeps
<1>6. QED
  BY <1>4, <1>5 DEF Wait, Goto

\* The user's store and sys_futex() with FUTEX_WAKE.
LEMMA WakeKeeps ==
    ASSUME FutexInv, NEW p \in Thread, NEW c \in Calls[p], Wake(p, c)
    PROVE  FutexInv'
<1>1. /\ pc[p] = "user" /\ c.op # "wait" /\ UNCHANGED <<sleepVars, fsq_list, fsq_lock, ft, ofsq>>
      /\ call' = [call EXCEPT ![p] = c] /\ count' = [count EXCEPT ![p] = 0]
      /\ ret' = [ret EXCEPT ![p] = "0"] /\ uval' = [uval EXCEPT ![c.f] = c.val]
  BY DEF Wake, queueVars
<1>2. PICK l \in {"userret", "k_lock"} : pc' = [pc EXCEPT ![p] = l]
  BY DEF Wake, Goto
<1>3. c.f \in Addr /\ c.val \in Value
  BY CallsAssumption DEF Call
<1>4. /\ uval' \in [Addr -> Value] /\ ofsq \in [Thread -> FsqId]
      /\ ft \in [Thread -> [off : Addr, fsq : FsqId, proc : BOOLEAN]]
      /\ ft[p].fsq = Slpque[ft[p].off]
  BY <1>1, <1>3 DEF FutexInv, TypeOK, Own, Waiting
<1>5. QED
  BY <1>1, <1>2, <1>4, EnterKeeps

\* sys_futex() with FUTEX_REQUEUE.
LEMMA RequeueKeeps ==
    ASSUME FutexInv, NEW p \in Thread, NEW c \in Calls[p], Requeue(p, c)
    PROVE  FutexInv'
<1>1. /\ pc[p] = "user" /\ c.op = "requeue" /\ UNCHANGED <<sleepVars, uval, fsq_list, fsq_lock, ft, ofsq>>
      /\ call' = [call EXCEPT ![p] = c] /\ count' = [count EXCEPT ![p] = 0]
      /\ ret' = [ret EXCEPT ![p] = "0"] /\ pc' = [pc EXCEPT ![p] = "q_lock"]
  BY DEF Requeue, queueVars, Goto
<1>2. /\ uval' \in [Addr -> Value] /\ ofsq \in [Thread -> FsqId]
      /\ ft \in [Thread -> [off : Addr, fsq : FsqId, proc : BOOLEAN]]
      /\ ft[p].fsq = Slpque[ft[p].off]
  BY <1>1 DEF FutexInv, TypeOK, Own, Waiting
<1>3. QED
  BY <1>1, <1>2, EnterKeeps

\* What stands for a futex in user mode has the type of one.
LEMMA NoFutexType ==
    NoFutex \in [off : Addr, fsq : FsqId, proc : BOOLEAN] /\ NoFutex.fsq = Slpque[NoFutex.off]
<1>1. PICK a \in Addr : a = CHOOSE b \in Addr : TRUE
  BY AddrAssumption
<1>2. NoFutex = [off |-> a, fsq |-> Slpque[a], proc |-> FALSE]
  BY <1>1 DEF NoFutex
<1>3. QED
  BY <1>2 DEF FsqId

\* The return to user mode.
LEMMA UserretKeeps ==
    ASSUME FutexInv, NEW p \in Thread, Userret(p)
    PROVE  FutexInv'
<1>1. pc[p] = "userret" /\ UNCHANGED <<uval, fsq_list, fsq_lock>>
  BY DEF Userret
<1>2. CASE UserretStep(p) /\ UNCHANGED <<pc, ft, callVars>>
  <2>1. UNCHANGED <<pc, ft, call, ofsq, ret, count>>
    BY <1>2 DEF callVars
  <2>2. Kept(p) /\ sf'[p].pc \in InUser
    BY <1>2, ChanAssumption, UserretStepGood DEF FutexInv, TypeOK, Own
  <2>3. Frame(p)
    BY <2>1, <2>2 DEF Frame, Kept
  <2>4. TypeOK'
    BY <1>1, <2>1, <2>2 DEF FutexInv, TypeOK, Kept
  <2>5. Own(p)'
    <3>1. Located(p)'
      BY <1>1, <2>1, <2>2 DEF Located
    <3>2. Calling(p)'
      BY <2>1 DEF FutexInv, Own, Calling
    <3>3. Waiting(p)'
      BY <2>1, <2>2 DEF FutexInv, Own, Waiting, Kept
    <3>4. QED
      BY <2>2, <3>1, <3>2, <3>3 DEF Own, Kept
  <2>6. LockStep(p)
    BY <1>1, <2>1 DEF LockStep, Holds
  <2>7. Lists'
    BY <1>1, <2>1, <2>3, ListsFrame DEF Listed
  <2>8. QED
    BY <2>1, <2>3, <2>4, <2>5, <2>6, <2>7, StepKeeps DEF FutexInv
<1>3. CASE /\ sf[p].pc = "run" /\ pc' = [pc EXCEPT ![p] = "user"]
           /\ ft' = [ft EXCEPT ![p] = NoFutex] /\ call' = [call EXCEPT ![p] = NULL]
           /\ ofsq' = [ofsq EXCEPT ![p] = NoFutex.fsq] /\ ret' = [ret EXCEPT ![p] = "0"]
           /\ count' = [count EXCEPT ![p] = 0] /\ UNCHANGED sleepVars
  <2>1. SleepTypeOK' /\ Others(p) /\ SleepGood(p)' /\ (Willing(p)' <=> Willing(p)) /\ sf' = sf
    BY <1>3, NoSleepStep DEF sleepVars, FutexInv, TypeOK, Own
  <2>2. /\ pc' \in [Thread -> PC] /\ pc'[p] = "user" /\ \A u \in Thread \ {p} : pc'[u] = pc[u]
        /\ ret' \in [Thread -> Errno] /\ \A u \in Thread \ {p} : ret'[u] = ret[u]
    BY <1>3 DEF FutexInv, TypeOK, PC, Errno, Error
  <2>3. PICK F \in [off : Addr, fsq : FsqId, proc : BOOLEAN] :
           F = NoFutex /\ F.fsq = Slpque[F.off]
    BY NoFutexType
  <2>4. /\ ft' \in [Thread -> [off : Addr, fsq : FsqId, proc : BOOLEAN]] /\ ft'[p] = F
        /\ ofsq' \in [Thread -> FsqId]
        /\ \A u \in Thread \ {p} : ft'[u] = ft[u] /\ ofsq'[u] = ofsq[u]
    BY <1>3, <2>3 DEF FutexInv, TypeOK
  <2>5. DOMAIN call' = Thread /\ \A u \in Thread \ {p} : call'[u] = call[u]
    BY <1>3 DEF FutexInv
  <2>6. Frame(p)
    BY <2>1, <2>2, <2>4, <2>5 DEF Frame
  <2>7. count' \in [Thread -> 0..Cardinality(Thread)]
    <3>1. Cardinality(Thread) \in Nat
      BY ThreadAssumption, FS_CardinalityType
    <3>2. QED
      BY <1>3, <3>1 DEF FutexInv, TypeOK
  <2>8. TypeOK'
    <3>1. uval' \in [Addr -> Value] /\ fsq_list' \in [FsqId -> Seq(Thread)]
          /\ fsq_lock' \in [FsqId -> Thread \cup {NULL}]
      BY <1>1 DEF FutexInv, TypeOK
    <3>2. QED
      BY <2>1, <2>2, <2>4, <2>5, <2>7, <3>1, TypesStep
  <2>9. Own(p)'
    <3>1. Located(p)'
      BY <1>3, <2>1, <2>2 DEF Located
    <3>2. Calling(p)'
      BY <2>2 DEF Calling
    <3>3. Waiting(p)'
      BY <1>3, <2>1, <2>3, <2>4 DEF Waiting, Willing
    <3>4. QED
      BY <2>1, <3>1, <3>2, <3>3 DEF Own
  <2>10. LockStep(p)
    BY <1>1, <2>2 DEF LockStep, Holds
  <2>11. Lists'
    BY <1>1, <2>2, <2>6, ListsFrame DEF Listed
  <2>12. QED
    BY <2>5, <2>6, <2>8, <2>9, <2>10, <2>11, StepKeeps
<1>4. QED
  BY <1>2, <1>3 DEF Userret, Goto

-----------------------------------------------------------------------------
(* The sleep of futex_wait.                                                *)

\* A step of the sleep code on behalf of the thread, which is on its futex
\* list before and after it.
LEMMA SleepingKeeps ==
    ASSUME FutexInv, NEW p \in Thread, SleepTypeOK', Others(p), SleepGood(p)',
           UNCHANGED <<uval, fsq_list, fsq_lock, ft, call, ofsq, count>>,
           pc' \in [Thread -> PC], \A u \in Thread \ {p} : pc'[u] = pc[u] /\ ret'[u] = ret[u],
           ret' \in [Thread -> Errno],
           \/ pc'[p] = pc[p] /\ ret'[p] = ret[p]
           \/ /\ pc[p] \in {"w_setup", "w_eval", "w_sleep"}
              /\ pc'[p] \in {"w_eval", "w_sleep", "w_check"},
           Located(p)', Willing(p)' => ft[p].proc
    PROVE  FutexInv'
<1>1. Frame(p)
  BY DEF Frame
<1>2. TypeOK'
  <2>1. pc'[p] # "user" => call'[p] \in Calls[p]
    BY DEF FutexInv, TypeOK
  <2>2. pc'[p] = "userret" => ret'[p] \notin {"ERESTART", "EWOULDBLOCK"}
    BY DEF FutexInv, TypeOK
  <2>3. QED
    BY <2>1, <2>2, TypesStep DEF FutexInv, TypeOK
<1>3. Own(p)'
  <2>1. Calling(p)'
    BY DEF FutexInv, Own, Calling
  <2>2. Waiting(p)'
    BY DEF FutexInv, Own, Waiting
  <2>3. QED
    BY <2>1, <2>2 DEF Own
<1>4. LockStep(p)
  <2>1. \A q \in FsqId : Holds(p, q)' <=> Holds(p, q)
    BY DEF Holds, FirstLock
  <2>2. QED
    BY <2>1 DEF LockStep
<1>5. Lists'
  BY <1>1, ListsFrame DEF Listed
<1>6. QED
  BY <1>1, <1>2, <1>3, <1>4, <1>5, StepKeeps DEF FutexInv

\* sleep_setup().
LEMMA WaitSetupKeeps ==
    ASSUME FutexInv, NEW p \in Thread, WaitSetup(p)
    PROVE  FutexInv'
<1>1. /\ pc[p] = "w_setup" /\ sleep_setup(p, p, TRUE) /\ pc' = [pc EXCEPT ![p] = "w_eval"]
      /\ UNCHANGED <<uval, fsq_list, fsq_lock, ft, call, ofsq, ret, count>>
  BY DEF WaitSetup, Goto, queueVars, callVars
<1>2. Kept(p) /\ sf'[p].pc = "setup"
  BY <1>1, ChanAssumption, sleep_setupGood DEF FutexInv, TypeOK, Own
<1>3. /\ pc' \in [Thread -> PC] /\ pc'[p] = "w_eval" /\ \A u \in Thread \ {p} : pc'[u] = pc[u]
      /\ ret' \in [Thread -> Errno]
  BY <1>1 DEF FutexInv, TypeOK, PC
<1>4. Located(p)' /\ ~Willing(p)'
  BY <1>2, <1>3 DEF Located, Willing
<1>5. QED
  BY <1>1, <1>2, <1>3, <1>4, SleepingKeeps DEF Kept

\* sleep_finish() is called with ft_proc as it is now.
LEMMA WaitEvalKeeps ==
    ASSUME FutexInv, NEW p \in Thread, WaitEval(p)
    PROVE  FutexInv'
<1>1. PICK t \in BOOLEAN : t = (call[p].timeout = "some")
  OBVIOUS
<1>2. /\ pc[p] = "w_eval" /\ sleep_finish(p, t, ft[p].proc) /\ pc' = [pc EXCEPT ![p] = "w_sleep"]
      /\ UNCHANGED <<uval, fsq_list, fsq_lock, ft, call, ofsq, ret, count>>
  BY <1>1 DEF WaitEval, Goto, queueVars, callVars
<1>3. ft[p].proc \in BOOLEAN /\ SleepTypeOK /\ SleepGood(p)
  BY DEF FutexInv, TypeOK, Own
<1>4. /\ SleepTypeOK' /\ Others(p) /\ SleepGood(p)' /\ sf'[p].pc \in InFinish
      /\ Willing(p)' => ft[p].proc
  BY <1>2, <1>3, ChanAssumption, sleep_finishGood
<1>5. /\ pc' \in [Thread -> PC] /\ pc'[p] = "w_sleep" /\ \A u \in Thread \ {p} : pc'[u] = pc[u]
      /\ ret' \in [Thread -> Errno]
  BY <1>2 DEF FutexInv, TypeOK, PC
<1>6. Located(p)'
  BY <1>4, <1>5 DEF Located
<1>7. QED
  BY <1>2, <1>4, <1>5, <1>6, SleepingKeeps

\* sleep_finish() returns.
LEMMA WaitWokenKeeps ==
    ASSUME FutexInv, NEW p \in Thread, WaitWoken(p)
    PROVE  FutexInv'
<1>1. /\ pc[p] = "w_sleep" /\ SleepReturned(p) /\ pc' = [pc EXCEPT ![p] = "w_check"]
      /\ ret' = [ret EXCEPT ![p] = sf[p].error]
      /\ UNCHANGED <<uval, fsq_list, fsq_lock, ft, call, ofsq, count>>
  BY DEF WaitWoken, Goto, queueVars
<1>2. Kept(p) /\ sf'[p].pc = "run"
  BY <1>1, ChanAssumption, SleepReturnedGood DEF FutexInv, TypeOK, Own
<1>3. sf[p].error \in Errno
  BY DEF FutexInv, TypeOK, SleepTypeOK, Errno
<1>4. /\ pc' \in [Thread -> PC] /\ pc'[p] = "w_check" /\ ret' \in [Thread -> Errno]
      /\ \A u \in Thread \ {p} : pc'[u] = pc[u] /\ ret'[u] = ret[u]
  BY <1>1, <1>3 DEF FutexInv, TypeOK, PC
<1>5. Located(p)' /\ ~Willing(p)'
  BY <1>2, <1>4 DEF Located, Willing
<1>6. QED
  BY <1>1, <1>2, <1>4, <1>5, SleepingKeeps DEF Kept

\* A step inside sleep_finish(), of its timeout, or a signal.
LEMMA SleepStepKeeps ==
    ASSUME FutexInv, NEW p \in Thread, UNCHANGED <<uval, queueVars, pc, callVars>>,
           SleepStep(p) \/ TimeoutStep(p) \/ \E s \in Signals[p] : ptsignal(p, s)
    PROVE  FutexInv'
<1>1. UNCHANGED <<uval, fsq_list, fsq_lock, ft, pc, call, ofsq, ret, count>>
  BY DEF queueVars, callVars
<1>2. SleepTypeOK /\ SleepGood(p) /\ Located(p) /\ Waiting(p)
  BY DEF FutexInv, TypeOK, Own
<1>3. /\ SleepTypeOK' /\ Others(p) /\ SleepGood(p)' /\ (Willing(p)' => Willing(p))
      /\ \/ sf[p].pc \in InFinish /\ sf'[p].pc \in InFinish
         \/ sf[p].pc = "userswtch" /\ sf'[p].pc = "run"
         \/ sf' = sf
  <2>1. CASE SleepStep(p)
    BY <1>2, <2>1, ChanAssumption, SleepStepGood
  <2>2. CASE TimeoutStep(p)
    BY <1>2, <2>2, ChanAssumption, TimeoutStepGood DEF Kept
  <2>3. ASSUME NEW s \in Signals[p], ptsignal(p, s)
        PROVE  Kept(p) /\ sf' = sf
    <3>1. s \in Signal
      BY SignalsAssumption
    <3>2. QED
      BY <1>2, <2>3, <3>1, ChanAssumption, SignalGood
  <2>4. QED
    BY <2>1, <2>2, <2>3 DEF Kept
<1>4. Located(p)'
  BY <1>1, <1>2, <1>3 DEF Located, InFinish, InUser
<1>5. /\ pc' \in [Thread -> PC] /\ ret' \in [Thread -> Errno]
      /\ pc'[p] = pc[p] /\ ret'[p] = ret[p]
      /\ \A u \in Thread \ {p} : pc'[u] = pc[u] /\ ret'[u] = ret[u]
  BY <1>1 DEF FutexInv, TypeOK
<1>6. QED
  BY <1>1, <1>2, <1>3, <1>4, <1>5, SleepingKeeps DEF Waiting

-----------------------------------------------------------------------------
(* The futex is put on a list, and taken off again.                        *)

\* futex_wait() puts its futex on the list of its slpque.
LEMMA WaitInsertKeeps ==
    ASSUME FutexInv, NEW p \in Thread, WaitInsert(p)
    PROVE  FutexInv'
<1>1. PICK l \in FsqId : l = ft[p].fsq
  BY DEF FutexInv, TypeOK
<1>2. /\ pc[p] = "w_insert" /\ Release(p) /\ pc' = [pc EXCEPT ![p] = "w_copyin"]
      /\ fsq_list' = [fsq_list EXCEPT ![l] = Append(fsq_list[l], p)]
      /\ UNCHANGED <<sleepVars, uval, ft, call, ofsq, ret, count>>
  BY <1>1 DEF WaitInsert, Goto, callVars
<1>3. fsq_list \in [FsqId -> Seq(Thread)] /\ ft[p].proc /\ Lists /\ sf[p].pc = "run"
  BY <1>2 DEF FutexInv, TypeOK, Own, Calling, Located
<1>4. p \notin Elements(fsq_list[l]) /\ NoDup(fsq_list[l]) /\ fsq_list[l] \in Seq(Thread)
  BY <1>2, <1>3 DEF Lists, Listed
<1>5. /\ Append(fsq_list[l], p) \in Seq(Thread) /\ NoDup(Append(fsq_list[l], p))
      /\ Elements(Append(fsq_list[l], p)) = Elements(fsq_list[l]) \cup {p}
  BY <1>4, AppendFacts
<1>6. /\ fsq_list' \in [FsqId -> Seq(Thread)] /\ fsq_list'[l] = Append(fsq_list[l], p)
      /\ \A q \in FsqId \ {l} : fsq_list'[q] = fsq_list[q]
  BY <1>2, <1>3, <1>5
<1>7. SleepTypeOK' /\ Others(p) /\ SleepGood(p)' /\ (Willing(p)' <=> Willing(p)) /\ sf' = sf
  BY <1>2, NoSleepStep DEF sleepVars, FutexInv, TypeOK, Own
<1>8. pc' \in [Thread -> PC] /\ pc'[p] = "w_copyin" /\ \A u \in Thread \ {p} : pc'[u] = pc[u]
  BY <1>2 DEF FutexInv, TypeOK, PC
<1>9. Frame(p)
  BY <1>2, <1>7, <1>8 DEF Frame
<1>10. TypeOK'
  <2>1. fsq_lock' \in [FsqId -> Thread \cup {NULL}]
    BY <1>2, ReleaseType
  <2>2. call'[p] \in Calls[p]
    BY <1>2 DEF FutexInv, TypeOK
  <2>3. QED
    BY <1>2, <1>6, <1>7, <1>8, <2>1, <2>2, TypesStep DEF FutexInv, TypeOK
<1>11. Own(p)'
  <2>1. Located(p)' /\ Calling(p)'
    BY <1>3, <1>7, <1>8 DEF Located, Calling
  <2>2. Waiting(p)'
    BY <1>2, <1>7 DEF FutexInv, Own, Waiting
  <2>3. QED
    BY <1>7, <2>1, <2>2 DEF Own
<1>12. LockStep(p)
  BY <1>2, <1>8 DEF LockStep, Holds
<1>13. Lists'
  <2>1. \A q \in FsqId : NoDup(fsq_list'[q])
    BY <1>3, <1>5, <1>6 DEF Lists
  <2>2. Listed(p)' /\ ~Listed(p) /\ \A u \in Thread \ {p} : Listed(u)' <=> Listed(u)
    BY <1>2, <1>8 DEF Listed
  <2>3. \A q \in FsqId : \A u \in Thread :
           u \in Elements(fsq_list[q]) <=> Listed(u) /\ ft[u].proc /\ ft[u].fsq = q
    BY <1>3 DEF Lists
  <2>4. ASSUME NEW q \in FsqId, NEW u \in Thread
        PROVE  u \in Elements(fsq_list'[q]) <=> Listed(u)' /\ ft'[u].proc /\ ft'[u].fsq = q
    <3>1. u \in Elements(fsq_list'[q]) <=> u \in Elements(fsq_list[q]) \/ (q = l /\ u = p)
      BY <1>5, <1>6
    <3>2. QED
      BY <1>1, <1>2, <1>3, <2>2, <2>3, <3>1
  <2>5. QED
    BY <2>1, <2>4 DEF Lists
<1>14. QED
  BY <1>2, <1>9, <1>10, <1>11, <1>12, <1>13, StepKeeps DEF FutexInv

\* futex_unwait() follows its futex, or takes it off if it is still there.
LEMMA UnwaitKeeps ==
    ASSUME FutexInv, NEW p \in Thread, Unwait(p)
    PROVE  FutexInv'
<1>1. /\ pc[p] = "u_have" /\ Release(p)
      /\ UNCHANGED <<sleepVars, uval, ft, call, count>>
  BY DEF Unwait
<1>2. SleepTypeOK' /\ Others(p) /\ SleepGood(p)' /\ (Willing(p)' <=> Willing(p)) /\ sf' = sf
  BY <1>1, NoSleepStep DEF sleepVars, FutexInv, TypeOK, Own
<1>3. /\ fsq_lock' \in [FsqId -> Thread \cup {NULL}] /\ call'[p] \in Calls[p]
      /\ sf[p].pc = "run" /\ ft[p].fsq \in FsqId /\ ofsq \in [Thread -> FsqId]
      /\ fsq_list \in [FsqId -> Seq(Thread)] /\ ret \in [Thread -> Errno]
      /\ pc \in [Thread -> PC]
  BY <1>1, ReleaseType DEF FutexInv, TypeOK, Own, Located
<1>4. Waiting(p)'
  BY <1>1, <1>2 DEF FutexInv, Own, Waiting
<1>5. CASE /\ ofsq' = [ofsq EXCEPT ![p] = ft[p].fsq] /\ pc' = [pc EXCEPT ![p] = "u_lock"]
           /\ UNCHANGED <<fsq_list, ret>>
  <2>1. /\ pc' \in [Thread -> PC] /\ pc'[p] = "u_lock" /\ \A u \in Thread \ {p} : pc'[u] = pc[u]
        /\ ofsq' \in [Thread -> FsqId] /\ \A u \in Thread \ {p} : ofsq'[u] = ofsq[u]
    BY <1>3, <1>5 DEF PC
  <2>2. Frame(p)
    BY <1>1, <1>2, <1>5, <2>1 DEF Frame
  <2>3. TypeOK'
    BY <1>1, <1>2, <1>3, <1>5, <2>1, TypesStep DEF FutexInv, TypeOK
  <2>4. Own(p)'
    BY <1>2, <1>3, <1>4, <2>1 DEF Own, Located, Calling
  <2>5. LockStep(p)
    BY <1>1, <2>1 DEF LockStep, Holds
  <2>6. Lists'
    BY <1>1, <1>5, <2>1, <2>2, ListsFrame DEF Listed
  <2>7. QED
    BY <1>1, <2>2, <2>3, <2>4, <2>5, <2>6, StepKeeps DEF FutexInv
<1>6. CASE /\ ofsq[p] = ft[p].fsq /\ UNCHANGED ofsq /\ pc' = [pc EXCEPT ![p] = "userret"]
           /\ fsq_list' = IF ft[p].proc
                          THEN [fsq_list EXCEPT ![ofsq[p]] = Without(@, p)] ELSE fsq_list
           /\ ret' = [ret EXCEPT ![p] = SleepError(@, ft[p].proc)]
  <2>1. PICK l \in FsqId : l = ft[p].fsq
    BY <1>3
  <2>2. /\ SleepError(ret[p], ft[p].proc) \in Errno \ {"ERESTART", "EWOULDBLOCK"}
        /\ ~ft[p].proc => SleepError(ret[p], ft[p].proc) \in {"0", "EAGAIN", "EFAULT"}
    <3>1. ret[p] \in Errno /\ ft[p].proc \in BOOLEAN
      BY <1>3 DEF FutexInv, TypeOK
    <3>2. QED
      BY <3>1 DEF SleepError, Errno, Error
  <2>3. PICK e \in Errno \ {"ERESTART", "EWOULDBLOCK"} : e = SleepError(ret[p], ft[p].proc)
    BY <2>2
  <2>4. ret' = [ret EXCEPT ![p] = e]
    BY <1>6, <2>3
  <2>5. /\ pc' \in [Thread -> PC] /\ pc'[p] = "userret" /\ \A u \in Thread \ {p} : pc'[u] = pc[u]
        /\ ret' \in [Thread -> Errno] /\ ret'[p] = e /\ \A u \in Thread \ {p} : ret'[u] = ret[u]
    BY <1>3, <1>6, <2>4 DEF PC
  <2>6. Frame(p)
    BY <1>1, <1>2, <1>6, <2>5 DEF Frame
  <2>7. Lists
    BY DEF FutexInv
  <2>8. /\ Without(fsq_list[l], p) \in Seq(Thread) /\ NoDup(Without(fsq_list[l], p))
        /\ Elements(Without(fsq_list[l], p)) = Elements(fsq_list[l]) \ {p}
    BY <1>3, <2>7, WithoutFacts DEF Lists
  <2>9. fsq_list' = IF ft[p].proc THEN [fsq_list EXCEPT ![l] = Without(fsq_list[l], p)]
                                  ELSE fsq_list
    BY <1>6, <2>1
  <2>10. fsq_list' \in [FsqId -> Seq(Thread)]
    BY <1>3, <2>8, <2>9
  <2>11. TypeOK'
    BY <1>1, <1>2, <1>3, <1>6, <2>3, <2>5, <2>10, TypesStep DEF FutexInv, TypeOK
  <2>12. Own(p)'
    <3>1. Located(p)'
      BY <1>2, <1>3, <2>5 DEF Located, InUser
    <3>2. Calling(p)'
      BY <1>1, <2>2, <2>3, <2>5 DEF Calling
    <3>3. QED
      BY <1>2, <1>4, <3>1, <3>2 DEF Own
  <2>13. LockStep(p)
    BY <1>1, <2>5 DEF LockStep, Holds
  <2>14. Lists'
    <3>1. Listed(p) /\ ~Listed(p)' /\ \A u \in Thread \ {p} : Listed(u)' <=> Listed(u)
      BY <1>1, <2>5 DEF Listed
    <3>2. \A q \in FsqId : NoDup(fsq_list'[q])
      BY <1>3, <2>7, <2>8, <2>9 DEF Lists
    <3>3. ASSUME NEW q \in FsqId, NEW u \in Thread
          PROVE  u \in Elements(fsq_list'[q]) <=> Listed(u)' /\ ft'[u].proc /\ ft'[u].fsq = q
      <4>1. u \in Elements(fsq_list[q]) <=> Listed(u) /\ ft[u].proc /\ ft[u].fsq = q
        BY <2>7 DEF Lists
      <4>2. CASE q = l /\ ft[p].proc
        <5>1. Elements(fsq_list'[q]) = Elements(fsq_list[q]) \ {p}
          BY <1>3, <2>8, <2>9, <4>2
        <5>2. QED
          BY <1>1, <3>1, <4>1, <5>1
      <4>3. CASE ~(q = l /\ ft[p].proc)
        <5>1. fsq_list'[q] = fsq_list[q]
          BY <1>3, <2>9, <4>3
        <5>2. QED
          BY <1>1, <2>1, <3>1, <4>1, <4>3, <5>1
      <4>4. QED
        BY <4>2, <4>3
    <3>4. QED
      BY <3>2, <3>3 DEF Lists
  <2>15. QED
    BY <1>1, <2>6, <2>11, <2>12, <2>13, <2>14, StepKeeps DEF FutexInv
<1>7. QED
  BY <1>5, <1>6 DEF Unwait, Goto

-----------------------------------------------------------------------------
(* futex_wake and futex_requeue.                                           *)

\* futex_list_wakeup() takes the threads of a list off their sleep queues
\* and leaves the others alone.
LEMMA FutexListWakeupGood ==
    ASSUME FutexInv, NEW S \in SUBSET Thread, FutexListWakeup(S), NEW v \in Thread
    PROVE  /\ SleepTypeOK' /\ sf' = sf /\ SleepGood(v)'
           /\ Willing(v)' => Willing(v) /\ v \notin S
<1> USE NULLAssumption
<1>1. /\ slpque' = [c \in Thread |-> IF c \in S THEN Without(slpque[c], c) ELSE slpque[c]]
      /\ p_wchan' = [u \in Thread |-> IF u \in S THEN NULL ELSE p_wchan[u]]
      /\ p_stat' = [u \in Thread |->
                       IF u \in S /\ p_wchan[u] # NULL /\ p_stat[u] # "SSTOP"
                       THEN Setrunnable(u, NULL) ELSE p_stat[u]]
      /\ UNCHANGED <<p_flag, p_siglist, ps_siglist, sleep_to, sf>>
  BY ChanAssumption DEF FutexListWakeup
<1>2. /\ slpque \in [Thread -> Seq(Thread)] /\ p_wchan \in [Thread -> Thread \cup {NULL}]
      /\ p_stat \in [Thread -> Stat] /\ SleepTypeOK
  BY ChanAssumption DEF FutexInv, TypeOK, SleepTypeOK
<1>3. \A u \in Thread : SleepGood(u)
  BY DEF FutexInv, Own
<1>4. \A u \in Thread : Without(slpque[u], u) = <<>>
  <2>1. \A u \in Thread : slpque[u] = <<>> \/ slpque[u] = <<u>>
    BY <1>3 DEF SleepGood, Placed
  <2>2. QED
    BY <2>1, WithoutOnly
<1>5. slpque' = [u \in Thread |-> IF u \in S THEN <<>> ELSE slpque[u]]
  BY <1>1, <1>4
<1>6. SleepTypeOK'
  <2>1. slpque' \in [Thread -> Seq(Thread)]
    <3>1. \A u \in Thread : (IF u \in S THEN <<>> ELSE slpque[u]) \in Seq(Thread)
      BY <1>2
    <3>2. QED
      BY <1>5, <3>1
  <2>2. p_wchan' \in [Thread -> Thread \cup {NULL}]
    BY <1>1, <1>2
  <2>3. p_stat' \in [Thread -> Stat]
    <3>1. \A u \in Thread : Setrunnable(u, NULL) \in Stat
      BY DEF Setrunnable, Stat
    <3>2. QED
      BY <1>1, <1>2, <3>1
  <2>4. QED
    BY <1>1, <1>2, <2>1, <2>2, <2>3, ChanAssumption, TypesPrimed DEF SleepTypeOK
<1>7. ASSUME NEW u \in Thread, u \in S
      PROVE  SleepGood(u)' /\ ~Willing(u)'
  <2>1. /\ slpque'[u] = <<>> /\ p_wchan'[u] = NULL
        /\ p_stat'[u] = IF p_wchan[u] # NULL /\ p_stat[u] # "SSTOP" THEN Setrunnable(u, NULL)
                                                                    ELSE p_stat[u]
    BY <1>1, <1>5, <1>7
  <2>2. Placed(u)' /\ ~Willing(u)'
    BY <2>1 DEF Placed, Willing
  <2>3. Scheduled(u)'
    BY <1>1, <1>3, <2>1 DEF SleepGood, Scheduled, Placed, Setrunnable
  <2>4. Interruptible(u)'
    BY <1>1, <1>3, <2>1 DEF SleepGood, Interruptible
  <2>5. Timed(u)'
    BY <1>1, <1>3, <2>1 DEF SleepGood, Timed
  <2>6. QED
    BY <2>2, <2>3, <2>4, <2>5 DEF SleepGood
<1>8. ASSUME NEW u \in Thread, u \notin S
      PROVE  SleepGood(u)' /\ (Willing(u)' => Willing(u))
  <2>1. slpque'[u] = slpque[u] /\ p_wchan'[u] = p_wchan[u] /\ p_stat'[u] = p_stat[u]
    BY <1>1, <1>5, <1>8
  <2>2. Placed(u)' /\ (Willing(u)' => Willing(u))
    BY <1>1, <1>3, <2>1 DEF SleepGood, Placed, Willing
  <2>3. Scheduled(u)' /\ Timed(u)'
    BY <1>1, <1>3, <2>1 DEF SleepGood, Scheduled, Timed
  <2>4. Interruptible(u)'
    BY <1>1, <1>3, <2>1 DEF SleepGood, Interruptible, Pending
  <2>5. QED
    BY <2>2, <2>3, <2>4 DEF SleepGood
<1>9. QED
  BY <1>1, <1>6, <1>7, <1>8

\* The futexes of the threads in W are woken and those in M moved to g.
Scanned(W, M, g) ==
    /\ \A u \in W : ft'[u].off = ft[u].off /\ ft'[u].fsq = ft[u].fsq /\ ~ft'[u].proc
    /\ \A u \in M : ft'[u].off = g /\ ft'[u].fsq = Slpque[g] /\ ft'[u].proc = ft[u].proc
    /\ \A u \in Thread \ (W \cup M) : ft'[u] = ft[u]

\* ... and their places on the lists go with that.
ListsScanned(W, M, g) ==
    \A q \in FsqId :
        /\ NoDup(fsq_list'[q])
        /\ \A u \in Thread : u \in Elements(fsq_list'[q]) <=>
              \/ u \in Elements(fsq_list[q]) /\ u \notin W \cup M
              \/ u \in M /\ q = Slpque[g]

\* The futexes as they are written.
Written(W, M, g, l) ==
    [u \in Thread |-> IF u \in W THEN [ft[u] EXCEPT !.proc = FALSE]
                      ELSE IF u \in M THEN [ft[u] EXCEPT !.off = g, !.fsq = l]
                           ELSE ft[u]]

\* What futex_wake() and futex_requeue() write to the futexes.
LEMMA ScanWrites ==
    ASSUME ft \in [Thread -> [off : Addr, fsq : FsqId, proc : BOOLEAN]],
           NEW W \in SUBSET Thread, NEW M \in SUBSET Thread, W \cap M = {},
           NEW g \in Addr, NEW l \in FsqId, l = Slpque[g],
           ft' = Written(W, M, g, l)
    PROVE  /\ ft' \in [Thread -> [off : Addr, fsq : FsqId, proc : BOOLEAN]]
           /\ Scanned(W, M, g)
<1>1. \A u \in Thread : /\ [ft[u] EXCEPT !.proc = FALSE]
                               \in [off : Addr, fsq : FsqId, proc : BOOLEAN]
                         /\ [ft[u] EXCEPT !.off = g, !.fsq = l]
                               \in [off : Addr, fsq : FsqId, proc : BOOLEAN]
  OBVIOUS
<1> USE DEF Written
<1>2. ft' \in [Thread -> [off : Addr, fsq : FsqId, proc : BOOLEAN]]
  BY <1>1
<1>3. \A u \in W : ft'[u].off = ft[u].off /\ ft'[u].fsq = ft[u].fsq /\ ~ft'[u].proc
  OBVIOUS
<1>4. \A u \in M : ft'[u].off = g /\ ft'[u].fsq = Slpque[g] /\ ft'[u].proc = ft[u].proc
  OBVIOUS
<1>5. \A u \in Thread \ (W \cup M) : ft'[u] = ft[u]
  OBVIOUS
<1>6. QED
  BY <1>2, <1>3, <1>4, <1>5 DEF Scanned

\* The futexes of a set of threads are woken and those of another set are
\* moved to address g.
LEMMA ScanKeeps ==
    ASSUME FutexInv, NEW p \in Thread, pc[p] \in {"k_scan", "q_scan"},
           NEW W \in SUBSET Thread, NEW M \in SUBSET Thread, W \cap M = {},
           NEW g \in Addr,
           \A u \in W \cup M : Listed(u) /\ ft[u].proc,
           ft' \in [Thread -> [off : Addr, fsq : FsqId, proc : BOOLEAN]],
           Scanned(W, M, g),
           fsq_list' \in [FsqId -> Seq(Thread)],
           ListsScanned(W, M, g),
           FutexListWakeup(W), count' = [count EXCEPT ![p] = Cardinality(W)],
           Release(p), pc' = [pc EXCEPT ![p] = "userret"],
           UNCHANGED <<uval, call, ofsq, ret>>
    PROVE  FutexInv'
<1>1. /\ SleepTypeOK' /\ sf' = sf
      /\ \A u \in Thread : SleepGood(u)' /\ (Willing(u)' => Willing(u) /\ u \notin W)
  <2>1. ASSUME NEW u \in Thread
        PROVE  /\ SleepTypeOK' /\ sf' = sf /\ SleepGood(u)'
               /\ Willing(u)' => Willing(u) /\ u \notin W
    BY FutexListWakeupGood
  <2>2. QED
    BY <2>1
<1>2. pc' \in [Thread -> PC] /\ pc'[p] = "userret" /\ \A u \in Thread \ {p} : pc'[u] = pc[u]
  BY DEF FutexInv, TypeOK, PC
<1>3. /\ ft \in [Thread -> [off : Addr, fsq : FsqId, proc : BOOLEAN]]
      /\ Slpque[g] \in FsqId /\ p \notin W /\ p \notin M
  BY DEF FutexInv, TypeOK, FsqId, Listed
<1>4. /\ \A u \in W : ft'[u].off = ft[u].off /\ ft'[u].fsq = ft[u].fsq /\ ~ft'[u].proc
      /\ \A u \in M : ft'[u].off = g /\ ft'[u].fsq = Slpque[g] /\ ft'[u].proc = ft[u].proc
      /\ \A u \in Thread \ (W \cup M) : ft'[u] = ft[u]
  BY DEF Scanned
<1>5. TypeOK'
  <2>1. IsFiniteSet(W) /\ Cardinality(W) <= Cardinality(Thread) /\ Cardinality(W) \in Nat
        /\ Cardinality(Thread) \in Nat
    BY ThreadAssumption, FS_Subset, FS_CardinalityType
  <2>2. count' \in [Thread -> 0..Cardinality(Thread)]
    BY <2>1 DEF FutexInv, TypeOK
  <2>3. fsq_lock' \in [FsqId -> Thread \cup {NULL}]
    BY ReleaseType
  <2>4. call'[p] \in Calls[p] /\ ret'[p] = "0"
    BY DEF FutexInv, TypeOK, Own, Calling
  <2>5. QED
    BY <1>1, <1>2, <1>4, <2>2, <2>3, <2>4, TypesStep DEF FutexInv, TypeOK
<1>6. ASSUME NEW u \in Thread
      PROVE  Own(u)'
  <2>1. SleepGood(u)' /\ sf'[u] = sf[u] /\ (Willing(u)' => Willing(u) /\ u \notin W)
    BY <1>1
  <2>2. Located(u) /\ Calling(u) /\ Waiting(u)
    BY DEF FutexInv, Own
  <2>3. Located(u)'
    <3>1. CASE u = p
      BY <1>2, <2>1, <2>2, <3>1 DEF Located, InUser
    <3>2. CASE u # p
      BY <1>2, <2>1, <2>2, <3>2 DEF Located
    <3>3. QED
      BY <3>1, <3>2
  <2>4. Calling(u)'
    <3>1. CASE u = p
      BY <1>2, <2>2, <3>1 DEF Calling
    <3>2. CASE u \in W \cup M
      BY <1>2, <1>3, <2>2, <3>2 DEF Calling, Listed
    <3>3. CASE u # p /\ u \notin W \cup M
      BY <1>2, <1>4, <2>2, <3>3 DEF Calling
    <3>4. QED
      BY <3>1, <3>2, <3>3
  <2>5. Waiting(u)'
    BY <1>4, <2>1, <2>2 DEF Waiting
  <2>6. QED
    BY <2>1, <2>3, <2>4, <2>5 DEF Own
<1>7. Lists'
  <2>1. \A u \in Thread \ {p} : Listed(u)' <=> Listed(u)
    BY <1>2 DEF Listed
  <2>2. ~Listed(p) /\ ~Listed(p)'
    BY <1>2 DEF Listed
  <2>3. ASSUME NEW q \in FsqId, NEW u \in Thread
        PROVE  u \in Elements(fsq_list'[q]) <=> Listed(u)' /\ ft'[u].proc /\ ft'[u].fsq = q
    <3>1. u \in Elements(fsq_list[q]) <=> Listed(u) /\ ft[u].proc /\ ft[u].fsq = q
      BY DEF FutexInv, Lists
    <3>2. CASE u \in W
      BY <1>4, <3>2 DEF ListsScanned
    <3>3. CASE u \in M
      BY <1>4, <2>1, <2>2, <3>3 DEF ListsScanned
    <3>4. CASE u \notin W \cup M
      BY <1>4, <2>1, <2>2, <3>1, <3>4 DEF ListsScanned
    <3>5. QED
      BY <3>2, <3>3, <3>4
  <2>4. QED
    BY <2>3 DEF Lists, ListsScanned
<1>8. Locks'
  <2>1. LockStep(p)
    BY <1>2 DEF LockStep, Holds
  <2>2. \A u \in Thread : pc[u] = "w_insert" => ft'[u] = ft[u]
    BY <1>4 DEF Listed
  <2>3. QED
    BY <1>2, <2>1, <2>2, LocksStep
<1>9. QED
  BY <1>5, <1>6, <1>7, <1>8 DEF FutexInv

\* The futexes at some indices of a list are on it: their threads wait.
LEMMA PickedListed ==
    ASSUME FutexInv, NEW o \in FsqId, NEW K \in SUBSET (1..Len(fsq_list[o]))
    PROVE  /\ {fsq_list[o][i] : i \in K} \in SUBSET Thread
           /\ \A u \in {fsq_list[o][i] : i \in K} : Listed(u) /\ ft[u].proc /\ ft[u].fsq = o
<1>1. fsq_list[o] \in Seq(Thread)
  BY DEF FutexInv, TypeOK
<1>2. \A i \in K : i \in 1..Len(fsq_list[o]) /\ fsq_list[o][i] \in Thread
  BY <1>1
<1>3. \A i \in K : fsq_list[o][i] \in Elements(fsq_list[o])
  BY <1>2 DEF Elements
<1>4. \A u \in Thread : u \in Elements(fsq_list[o]) => Listed(u) /\ ft[u].proc /\ ft[u].fsq = o
  BY DEF FutexInv, Lists
<1>5. QED
  BY <1>2, <1>3, <1>4

\* Two sets of indices of a list that have nothing in common.
LEMMA PartsApart ==
    ASSUME NEW T, NEW q \in Seq(T), NoDup(q),
           NEW J \in SUBSET (1..Len(q)), NEW K \in SUBSET (1..Len(q)), J \cap K = {}
    PROVE  {q[i] : i \in J} \cap {q[i] : i \in K} = {}
<1>1. ASSUME NEW i \in J, NEW j \in K, q[i] = q[j]
      PROVE  FALSE
  <2>1. i \in 1..Len(q) /\ j \in 1..Len(q)
    OBVIOUS
  <2>2. i = j
    BY <1>1, <2>1 DEF NoDup
  <2>3. QED
    BY <2>2
<1>2. QED
  BY <1>1

\* What is left at the indices J of a list when those at K are taken off.
LEMMA PartLeft ==
    ASSUME NEW T, NEW q \in Seq(T), NoDup(q), NEW J \in SUBSET (1..Len(q)),
           NEW K \in SUBSET (1..Len(q)), J \cap K = {}, J \cup K = 1..Len(q)
    PROVE  /\ Part(q, J) \in Seq(T) /\ NoDup(Part(q, J))
           /\ Elements(Part(q, J)) = Elements(q) \ {q[i] : i \in K}
<1>1. /\ Part(q, J) \in Seq(T) /\ NoDup(Part(q, J))
      /\ Elements(Part(q, J)) = {q[i] : i \in J}
  BY PartFacts
<1>2. {q[i] : i \in J} \cap {q[i] : i \in K} = {}
  BY PartsApart
<1>3. Elements(q) = {q[i] : i \in J} \cup {q[i] : i \in K}
  BY DEF Elements
<1>4. QED
  BY <1>1, <1>2, <1>3

\* futex_wake() under the lock.
LEMMA WakeScanKeeps ==
    ASSUME FutexInv, NEW p \in Thread, WakeScan(p)
    PROVE  FutexInv'
<1>1. pc[p] = "k_scan"
  BY DEF WakeScan
<1>2. PICK g \in Addr, o \in FsqId, n \in Nat :
         g = call[p].f /\ o = Slpque[g] /\ n = call[p].n
  BY <1>1, CallTypes
<1>3. PICK q \in Seq(Thread) : q = fsq_list[o]
  BY DEF FutexInv, TypeOK
<1>4. PICK K \in SUBSET (1..Len(q)) :
         K = {i \in Matching(q, g) : Rank(Matching(q, g), i) <= n}
  BY DEF Matching
<1>5. PICK W : W = {q[i] : i \in K}
  OBVIOUS
<1>6. /\ fsq_list' = [fsq_list EXCEPT ![o] = Part(q, (1..Len(q)) \ K)]
      /\ ft' = [u \in Thread |-> IF u \in W THEN [ft[u] EXCEPT !.proc = FALSE] ELSE ft[u]]
      /\ FutexListWakeup(W) /\ count' = [count EXCEPT ![p] = Cardinality(W)]
      /\ Release(p) /\ pc' = [pc EXCEPT ![p] = "userret"]
      /\ UNCHANGED <<uval, call, ofsq, ret>>
  BY <1>2, <1>3, <1>4, <1>5 DEF WakeScan, Goto
<1>7. W \in SUBSET Thread /\ \A u \in W : Listed(u) /\ ft[u].proc /\ ft[u].fsq = o
  <2>1. W = {fsq_list[o][i] : i \in K} /\ K \in SUBSET (1..Len(fsq_list[o]))
    BY <1>3, <1>5
  <2>2. QED
    BY <2>1, PickedListed
<1>8. PICK M \in SUBSET Thread : M = {}
  OBVIOUS
<1>9. /\ ft' \in [Thread -> [off : Addr, fsq : FsqId, proc : BOOLEAN]]
      /\ Scanned(W, M, g)
  <2>1. ft \in [Thread -> [off : Addr, fsq : FsqId, proc : BOOLEAN]]
    BY DEF FutexInv, TypeOK
  <2>2. ft' = Written(W, M, g, o)
    BY <1>6, <1>8, <2>1 DEF Written
  <2>3. W \cap M = {}
    BY <1>8
  <2>4. QED
    BY <1>2, <1>7, <2>1, <2>2, <2>3, ScanWrites
<1>10. PICK r : r = Part(q, (1..Len(q)) \ K)
  OBVIOUS
<1>11. r \in Seq(Thread) /\ NoDup(r) /\ Elements(r) = Elements(q) \ W
  <2>1. NoDup(q)
    BY <1>3 DEF FutexInv, Lists
  <2>2. PICK J \in SUBSET (1..Len(q)) : J = (1..Len(q)) \ K
    OBVIOUS
  <2>3. J \cap K = {} /\ J \cup K = 1..Len(q)
    BY <2>2
  <2>4. /\ Part(q, J) \in Seq(Thread) /\ NoDup(Part(q, J))
        /\ Elements(Part(q, J)) = Elements(q) \ {q[i] : i \in K}
    BY <2>1, <2>3, PartLeft
  <2>5. QED
    BY <1>5, <1>10, <2>2, <2>4
<1>12. /\ fsq_list' \in [FsqId -> Seq(Thread)] /\ fsq_list'[o] = r
       /\ \A l \in FsqId \ {o} : fsq_list'[l] = fsq_list[l]
  BY <1>6, <1>10, <1>11 DEF FutexInv, TypeOK
<1>13. ASSUME NEW l \in FsqId
       PROVE  /\ NoDup(fsq_list'[l])
              /\ \A u \in Thread : u \in Elements(fsq_list'[l]) <=>
                    \/ u \in Elements(fsq_list[l]) /\ u \notin W \cup M
                    \/ u \in M /\ l = Slpque[g]
  <2>1. CASE l = o
    BY <1>3, <1>8, <1>11, <1>12, <2>1
  <2>2. CASE l # o
    <3>1. \A u \in Thread : u \in Elements(fsq_list[l]) => ft[u].fsq = l
      BY DEF FutexInv, Lists
    <3>2. NoDup(fsq_list[l])
      BY DEF FutexInv, Lists
    <3>3. QED
      BY <1>7, <1>8, <1>12, <2>2, <3>1, <3>2
  <2>3. QED
    BY <2>1, <2>2
<1>14. /\ \A u \in W \cup M : Listed(u) /\ ft[u].proc
       /\ W \cap M = {}
  BY <1>7, <1>8
<1>15. ListsScanned(W, M, g)
  BY <1>13 DEF ListsScanned
<1>16. QED
  BY <1>1, <1>6, <1>7, <1>9, <1>12, <1>14, <1>15, ScanKeeps

\* futex_requeue() under both locks.
LEMMA RequeueScanKeeps ==
    ASSUME FutexInv, NEW p \in Thread, RequeueScan(p)
    PROVE  FutexInv'
<1>1. pc[p] = "q_scan"
  BY DEF RequeueScan
<1>2. PICK f \in Addr, g \in Addr, o \in FsqId, n \in FsqId, cn \in Nat, cm \in Nat :
         /\ f = call[p].f /\ g = call[p].g /\ o = Slpque[f] /\ n = Slpque[g]
         /\ cn = call[p].n /\ cm = call[p].m
  BY <1>1, CallTypes
<1>3. PICK q \in Seq(Thread) : q = fsq_list[o]
  BY DEF FutexInv, TypeOK
<1>4. PICK J \in SUBSET (1..Len(q)) :
         J = {i \in Matching(q, f) : cn = 0 \/ Rank(Matching(q, f), i) <= cn}
  BY DEF Matching
<1>5. PICK K \in SUBSET (1..Len(q)) :
         K = {i \in Matching(q, f) \ J : Rank(Matching(q, f), i) <= cn + cm}
  BY DEF Matching
<1>6. PICK W, M : W = {q[i] : i \in J} /\ M = {q[i] : i \in K}
  OBVIOUS
<1>7. PICK r : r = Part(q, (1..Len(q)) \ (J \cup K))
  OBVIOUS
<1>8. /\ fsq_list' = [[fsq_list EXCEPT ![o] = r] EXCEPT ![n] = @ \o Part(q, K)]
      /\ ft' = [u \in Thread |->
                   IF u \in W THEN [ft[u] EXCEPT !.proc = FALSE]
                   ELSE IF \E i \in K : u = q[i] THEN [ft[u] EXCEPT !.off = g, !.fsq = n]
                        ELSE ft[u]]
      /\ FutexListWakeup(W) /\ count' = [count EXCEPT ![p] = Cardinality(W)]
      /\ Release(p) /\ pc' = [pc EXCEPT ![p] = "userret"]
      /\ UNCHANGED <<uval, call, ofsq, ret>>
  <2>1. /\ Release(p) /\ pc' = [pc EXCEPT ![p] = "userret"]
        /\ UNCHANGED <<uval, call, ofsq, ret>>
    BY DEF RequeueScan, Goto
  <2>2. fsq_list' = [[fsq_list EXCEPT ![o] = r] EXCEPT ![n] = @ \o Part(q, K)]
    BY <1>2, <1>3, <1>4, <1>5, <1>7 DEF RequeueScan
  <2>3. FutexListWakeup(W) /\ count' = [count EXCEPT ![p] = Cardinality(W)]
    BY <1>2, <1>3, <1>4, <1>6 DEF RequeueScan
  <2>4. ft' = [u \in Thread |->
                  IF u \in W THEN [ft[u] EXCEPT !.proc = FALSE]
                  ELSE IF \E i \in K : u = q[i] THEN [ft[u] EXCEPT !.off = g, !.fsq = n]
                       ELSE ft[u]]
    BY <1>2, <1>3, <1>4, <1>5, <1>6 DEF RequeueScan
  <2>5. QED
    BY <2>1, <2>2, <2>3, <2>4
<1>9. /\ W \in SUBSET Thread /\ M \in SUBSET Thread
      /\ \A u \in W \cup M : Listed(u) /\ ft[u].proc /\ ft[u].fsq = o
  <2>1. W \in SUBSET Thread /\ \A u \in W : Listed(u) /\ ft[u].proc /\ ft[u].fsq = o
    <3>1. W = {fsq_list[o][i] : i \in J} /\ J \in SUBSET (1..Len(fsq_list[o]))
      BY <1>3, <1>6
    <3>2. QED
      BY <3>1, PickedListed
  <2>2. M \in SUBSET Thread /\ \A u \in M : Listed(u) /\ ft[u].proc /\ ft[u].fsq = o
    <3>1. M = {fsq_list[o][i] : i \in K} /\ K \in SUBSET (1..Len(fsq_list[o]))
      BY <1>3, <1>6
    <3>2. QED
      BY <3>1, PickedListed
  <2>3. QED
    BY <2>1, <2>2
<1>10. NoDup(q) /\ fsq_list \in [FsqId -> Seq(Thread)]
  BY <1>3 DEF FutexInv, TypeOK, Lists
<1>11. J \cap K = {} /\ J \cup K \in SUBSET (1..Len(q))
  BY <1>5
<1>12. W \cap M = {} /\ {q[i] : i \in J \cup K} = W \cup M
  <2>1. W \cap M = {}
    BY <1>6, <1>10, <1>11, PartsApart
  <2>2. {q[i] : i \in J \cup K} = W \cup M
    BY <1>6
  <2>3. QED
    BY <2>1, <2>2
<1>13. /\ ft' \in [Thread -> [off : Addr, fsq : FsqId, proc : BOOLEAN]]
       /\ Scanned(W, M, g)
  <2>1. ft \in [Thread -> [off : Addr, fsq : FsqId, proc : BOOLEAN]]
    BY DEF FutexInv, TypeOK
  <2>2. \A u : u \in M <=> \E i \in K : u = q[i]
    BY <1>6
  <2>3. ft' = Written(W, M, g, n)
    BY <1>8, <2>1, <2>2 DEF Written
  <2>4. QED
    BY <1>2, <1>9, <1>12, <2>1, <2>3, ScanWrites
<1>14. r \in Seq(Thread) /\ NoDup(r) /\ Elements(r) = Elements(q) \ (W \cup M)
  <2>1. PICK H \in SUBSET (1..Len(q)) : H = J \cup K
    BY <1>11
  <2>2. PICK I \in SUBSET (1..Len(q)) : I = (1..Len(q)) \ H
    OBVIOUS
  <2>3. I \cap H = {} /\ I \cup H = 1..Len(q)
    BY <2>2
  <2>4. /\ Part(q, I) \in Seq(Thread) /\ NoDup(Part(q, I))
        /\ Elements(Part(q, I)) = Elements(q) \ {q[i] : i \in H}
    BY <1>10, <2>3, PartLeft
  <2>5. QED
    BY <1>7, <1>12, <2>1, <2>2, <2>4
<1>15. PICK t \in Seq(Thread) : t = Part(q, K) /\ NoDup(t) /\ Elements(t) = M
  BY <1>6, <1>10, PartFacts
<1>16. PICK s \in Seq(Thread) :
          /\ s = [fsq_list EXCEPT ![o] = r][n]
          /\ NoDup(s)
          /\ \A u \in Thread : u \in Elements(s) <=>
                u \in Elements(fsq_list[n]) /\ u \notin W \cup M
  <2>1. CASE n = o
    BY <1>3, <1>10, <1>14, <2>1
  <2>2. CASE n # o
    <3>1. [fsq_list EXCEPT ![o] = r][n] = fsq_list[n] /\ fsq_list[n] \in Seq(Thread)
      BY <1>10, <2>2
    <3>2. NoDup(fsq_list[n])
      BY DEF FutexInv, Lists
    <3>3. \A u \in Thread : u \in Elements(fsq_list[n]) => ft[u].fsq = n
      BY DEF FutexInv, Lists
    <3>4. \A u \in Thread : u \in Elements(fsq_list[n]) => u \notin W \cup M
      BY <1>9, <2>2, <3>3
    <3>5. QED
      BY <3>1, <3>2, <3>4
  <2>3. QED
    BY <2>1, <2>2
<1>17. s \o t \in Seq(Thread) /\ NoDup(s \o t) /\ Elements(s \o t) = Elements(s) \cup M
  <2>1. Elements(s) \cap Elements(t) = {}
    BY <1>9, <1>15, <1>16
  <2>2. s \o t \in Seq(Thread) /\ NoDup(s \o t) /\ Elements(s \o t) = Elements(s) \cup Elements(t)
    BY <1>15, <1>16, <2>1, ConcatFacts
  <2>3. QED
    BY <1>15, <2>2
<1>18. /\ fsq_list' \in [FsqId -> Seq(Thread)] /\ fsq_list'[n] = s \o t
       /\ o # n => fsq_list'[o] = r
       /\ \A l \in FsqId \ {n, o} : fsq_list'[l] = fsq_list[l]
  <2>1. PICK left \in [FsqId -> Seq(Thread)] : left = [fsq_list EXCEPT ![o] = r]
    BY <1>10, <1>14
  <2>2. fsq_list' = [left EXCEPT ![n] = s \o t]
    BY <1>8, <1>15, <1>16, <2>1
  <2>3. fsq_list' \in [FsqId -> Seq(Thread)] /\ fsq_list'[n] = s \o t
    BY <1>17, <2>2
  <2>4. QED
    BY <1>10, <2>1, <2>2, <2>3
<1>19. ASSUME NEW l \in FsqId
       PROVE  /\ NoDup(fsq_list'[l])
              /\ \A u \in Thread : u \in Elements(fsq_list'[l]) <=>
                    \/ u \in Elements(fsq_list[l]) /\ u \notin W \cup M
                    \/ u \in M /\ l = Slpque[g]
  <2>1. CASE l = n
    BY <1>2, <1>16, <1>17, <1>18, <2>1
  <2>2. CASE l = o /\ l # n
    BY <1>2, <1>3, <1>14, <1>18, <2>2
  <2>3. CASE l # o /\ l # n
    <3>1. \A u \in Thread : u \in Elements(fsq_list[l]) => ft[u].fsq = l
      BY DEF FutexInv, Lists
    <3>2. NoDup(fsq_list[l])
      BY DEF FutexInv, Lists
    <3>3. \A u \in Thread : u \in Elements(fsq_list[l]) => u \notin W \cup M
      BY <1>9, <2>3, <3>1
    <3>4. QED
      BY <1>2, <1>18, <2>3, <3>2, <3>3
  <2>4. QED
    BY <2>1, <2>2, <2>3
<1>20. ListsScanned(W, M, g)
  BY <1>19 DEF ListsScanned
<1>21. QED
  BY <1>1, <1>8, <1>9, <1>12, <1>13, <1>18, <1>20, ScanKeeps

-----------------------------------------------------------------------------
(* The theorems.                                                           *)

\* The lists are empty and the locks free when nobody has called futex yet.
LEMMA FutexInit ==
    ASSUME Init
    PROVE  FutexInv
<1> USE NULLAssumption, ChanAssumption
<1>1. /\ SleepInit /\ uval \in [Addr -> Value]
      /\ fsq_list = [q \in FsqId |-> <<>>] /\ fsq_lock = [q \in FsqId |-> NULL]
      /\ ft = [p \in Thread |-> NoFutex] /\ ofsq = [p \in Thread |-> NoFutex.fsq]
      /\ pc = [p \in Thread |-> "user"] /\ call = [p \in Thread |-> NULL]
      /\ ret = [p \in Thread |-> "0"] /\ count = [p \in Thread |-> 0]
  BY DEF Init
<1>2. PICK F \in [off : Addr, fsq : FsqId, proc : BOOLEAN] :
         F = NoFutex /\ F.fsq = Slpque[F.off]
  BY NoFutexType
<1>3. TypeOK
  <2>1. SleepTypeOK
    BY <1>1 DEF SleepInit, SleepTypeOK, Stat, Timeout, SleepPC, Error
  <2>2. fsq_list \in [FsqId -> Seq(Thread)] /\ fsq_lock \in [FsqId -> Thread \cup {NULL}]
    BY <1>1
  <2>3. /\ ft \in [Thread -> [off : Addr, fsq : FsqId, proc : BOOLEAN]]
        /\ ofsq \in [Thread -> FsqId]
    BY <1>1, <1>2
  <2>4. pc \in [Thread -> PC] /\ ret \in [Thread -> Errno]
    BY <1>1 DEF PC, Errno, Error
  <2>5. count \in [Thread -> 0..Cardinality(Thread)]
    <3>1. Cardinality(Thread) \in Nat
      BY ThreadAssumption, FS_CardinalityType
    <3>2. QED
      BY <1>1, <3>1
  <2>6. \A p \in Thread : pc[p] = "user"
    BY <1>1
  <2>7. QED
    BY <1>1, <2>1, <2>2, <2>3, <2>4, <2>5, <2>6 DEF TypeOK
<1>4. ASSUME NEW p \in Thread
      PROVE  Own(p)
  <2>1. SleepGood(p) /\ sf[p].pc = "run" /\ ~Willing(p)
    BY <1>1 DEF SleepInit, SleepGood, Placed, Scheduled, Interruptible, Timed, Willing
  <2>2. pc[p] = "user" /\ ft[p] = NoFutex
    BY <1>1
  <2>3. Located(p) /\ Calling(p)
    BY <2>1, <2>2 DEF Located, Calling
  <2>4. Waiting(p)
    BY <1>2, <2>1, <2>2 DEF Waiting
  <2>5. QED
    BY <2>1, <2>3, <2>4 DEF Own
<1>5. Lists
  <2>1. Len(<<>>) = 0
    OBVIOUS
  <2>2. \A q \in FsqId : NoDup(fsq_list[q]) /\ Elements(fsq_list[q]) = {}
    BY <1>1, <2>1 DEF NoDup, Elements
  <2>3. \A p \in Thread : ~Listed(p)
    BY <1>1 DEF Listed
  <2>4. QED
    BY <2>2, <2>3 DEF Lists
<1>6. Locks
  BY <1>1 DEF Locks, Holds
<1>7. DOMAIN call = Thread
  BY <1>1
<1>8. QED
  BY <1>3, <1>4, <1>5, <1>6, <1>7 DEF FutexInv

\* Every step of futex(2), of its sleep and of a signal keeps the invariant.
LEMMA FutexStep ==
    ASSUME FutexInv, [Next]_vars
    PROVE  FutexInv'
<1>1. ASSUME NEW p \in Thread, NEW c \in Calls[p], Wait(p, c) \/ Wake(p, c) \/ Requeue(p, c)
      PROVE  FutexInv'
  BY <1>1, WaitKeeps, WakeKeeps, RequeueKeeps
<1>2. ASSUME NEW p \in Thread, ThreadStep(p)
      PROVE  FutexInv'
  <2>1. CASE WaitLock(p) \/ WaitInsert(p) \/ WaitCopyin(p) \/ WaitSetup(p) \/ WaitEval(p)
    BY <2>1, WaitLockKeeps, WaitInsertKeeps, WaitCopyinKeeps, WaitSetupKeeps, WaitEvalKeeps
  <2>2. CASE WaitWoken(p) \/ WaitCheck(p) \/ WaitExit(p) \/ UnwaitLock(p) \/ Unwait(p)
    BY <2>2, WaitWokenKeeps, WaitCheckKeeps, WaitExitKeeps, UnwaitLockKeeps, UnwaitKeeps
  <2>3. CASE WakeLock(p) \/ WakeScan(p) \/ RequeueLock(p) \/ RequeueLock2(p) \/ RequeueScan(p)
    BY <2>3, WakeLockKeeps, WakeScanKeeps, RequeueLockKeeps, RequeueLock2Keeps, RequeueScanKeeps
  <2>4. CASE Userret(p)
    BY <2>4, UserretKeeps
  <2>5. CASE SleepStep(p) /\ UNCHANGED <<uval, queueVars, pc, callVars>>
    BY <2>5, SleepStepKeeps
  <2>6. QED
    BY <1>2, <2>1, <2>2, <2>3, <2>4, <2>5 DEF ThreadStep
<1>3. ASSUME NEW p \in Thread, ClockStep(p)
      PROVE  FutexInv'
  BY <1>3, SleepStepKeeps DEF ClockStep
<1>4. ASSUME NEW p \in Thread, NEW s \in Signals[p], Kill(p, s)
      PROVE  FutexInv'
  BY <1>4, SleepStepKeeps DEF Kill
<1>5. CASE UNCHANGED vars
  <2>1. /\ UNCHANGED sleepVars
        /\ UNCHANGED <<uval, fsq_list, fsq_lock, ft, pc, call, ofsq, ret, count>>
    BY <1>5 DEF vars, queueVars, callVars
  <2>2. ASSUME NEW p \in Thread
        PROVE  Own(p)'
    <3>1. SleepGood(p)' /\ (Willing(p)' <=> Willing(p)) /\ sf' = sf
      BY <2>1, NoSleepStep DEF sleepVars, FutexInv, TypeOK, Own
    <3>2. Located(p)' /\ Calling(p)' /\ Waiting(p)'
      BY <2>1, <3>1 DEF FutexInv, Own, Located, Calling, Waiting
    <3>3. QED
      BY <3>1, <3>2 DEF Own
  <2>3. TypeOK'
    BY <1>5 DEF FutexInv, TypeOK, SleepTypeOK, vars, sleepVars, queueVars, callVars
  <2>4. Lists' /\ Locks' /\ DOMAIN call' = Thread
    BY <2>1 DEF FutexInv, Lists, Locks, Listed, Holds, FirstLock
  <2>5. QED
    BY <2>2, <2>3, <2>4 DEF FutexInv
<1>6. QED
  BY <1>1, <1>2, <1>3, <1>4, <1>5 DEF Next

\* Wherever the threads are in futex(2), in their sleeps and in their signals,
\* the slpques, the locks, the sleep queues and the calls go together.
THEOREM FutexInvariant == Spec => []FutexInv
<1>1. Init => FutexInv
  BY FutexInit
<1>2. FutexInv /\ [Next]_vars => FutexInv'
  BY FutexStep
<1>3. QED
  BY <1>1, <1>2, PTL DEF Spec

\* An element of a list without repetitions is at one place of it.
LEMMA OnePlace ==
    ASSUME NEW T, NEW q \in Seq(T), NoDup(q), NEW x
    PROVE  Cardinality({i \in 1..Len(q) : q[i] = x}) = IF x \in Elements(q) THEN 1 ELSE 0
<1>1. CASE x \in Elements(q)
  <2>1. PICK i \in 1..Len(q) : q[i] = x
    BY <1>1 DEF Elements
  <2>2. {j \in 1..Len(q) : q[j] = x} = {i}
    BY <2>1 DEF NoDup
  <2>3. Cardinality({i}) = 1
    BY FS_Singleton
  <2>4. QED
    BY <1>1, <2>2, <2>3
<1>2. CASE x \notin Elements(q)
  <2>1. {j \in 1..Len(q) : q[j] = x} = {}
    BY <1>2 DEF Elements
  <2>2. Cardinality({}) = 0
    BY FS_EmptySet
  <2>3. QED
    BY <1>2, <2>1, <2>2
<1>3. QED
  BY <1>1, <1>2

\* The lists of the slpques hold exactly the futexes of the threads that wait
\* and are not woken, each once and where its address hashes to.
THEOREM FutexesOnLists == Spec => []FutexesListed
<1>1. ASSUME FutexInv
      PROVE  FutexesListed
  <2>1. ASSUME NEW p \in Thread, NEW q \in FsqId
        PROVE  /\ Cardinality({i \in 1..Len(fsq_list[q]) : fsq_list[q][i] = p})
                    = IF Listed(p) /\ ft[p].proc /\ ft[p].fsq = q THEN 1 ELSE 0
               /\ Listed(p) => ft[p].fsq = Slpque[ft[p].off]
    <3>1. /\ fsq_list[q] \in Seq(Thread) /\ NoDup(fsq_list[q])
          /\ p \in Elements(fsq_list[q]) <=> Listed(p) /\ ft[p].proc /\ ft[p].fsq = q
      BY <1>1 DEF FutexInv, TypeOK, Lists
    <3>2. Cardinality({i \in 1..Len(fsq_list[q]) : fsq_list[q][i] = p})
             = IF p \in Elements(fsq_list[q]) THEN 1 ELSE 0
      BY <3>1, OnePlace
    <3>3. ft[p].fsq = Slpque[ft[p].off]
      BY <1>1 DEF FutexInv, Own, Waiting
    <3>4. QED
      BY <3>1, <3>2, <3>3
  <2>2. QED
    BY <1>1, <2>1 DEF FutexInv, FutexesListed
<1>2. QED
  BY <1>1, FutexInvariant, PTL

\* A thread that FUTEX_WAKE reached reports success whatever signal or timeout
\* ended its sleep, unless it never slept.
THEOREM WakeBeatsError == Spec => []WakeOutranksError
<1>1. FutexInv => WakeOutranksError
  BY DEF FutexInv, Own, Calling, WakeOutranksError
<1>2. QED
  BY <1>1, FutexInvariant, PTL

\* A set of natural numbers has a smallest element.
LEMMA Smallest ==
    ASSUME NEW T, T \subseteq Nat, T # {}
    PROVE  \E x \in T : \A y \in T : ~(y < x)
<1>1. PICK R : R = OpToRel(<, Nat)
  OBVIOUS
<1>2. IsWellFoundedOn(R, Nat)
  BY <1>1, NatLessThanWellFounded
<1>3. \E x \in T : \A y \in T : ~(<<y, x>> \in R)
  BY <1>2, WFMin
<1>4. \A x, y \in Nat : y < x => <<y, x>> \in R
  BY <1>1 DEF OpToRel
<1>5. QED
  BY <1>3, <1>4

\* In a set of threads there is one whose first lock is above no other's.
LEMMA HighestLock ==
    ASSUME NEW H \in SUBSET Thread, H # {}, NEW f, \A p \in H : f[p] \in Nat
    PROVE  \E p \in H : \A u \in H : ~(f[u] > f[p])
<1> DEFINE above(p) == {u \in H : f[u] > f[p]}
<1>1. \A p \in H : /\ above(p) \in SUBSET H
                   /\ IsFiniteSet(above(p)) /\ Cardinality(above(p)) \in Nat
  <2>1. \A p \in H : above(p) \in SUBSET Thread
    OBVIOUS
  <2>2. QED
    BY <2>1, ThreadAssumption, FS_Subset, FS_CardinalityType
<1>2. PICK T : T = {Cardinality(above(p)) : p \in H}
  OBVIOUS
<1>3. T \subseteq Nat /\ T # {}
  BY <1>1, <1>2
<1>4. PICK x \in T : \A y \in T : ~(y < x)
  BY <1>3, Smallest
<1>5. PICK p \in H : x = Cardinality(above(p))
  BY <1>2
<1>6. ASSUME NEW u \in H, f[u] > f[p]
      PROVE  FALSE
  <2>1. above(u) \subseteq above(p) /\ u \in above(p) /\ u \notin above(u)
    <3>1. \A v \in H : f[v] > f[u] => f[v] > f[p]
      BY <1>6
    <3>2. ~(f[u] > f[u])
      OBVIOUS
    <3>3. QED
      BY <1>6, <3>1, <3>2
  <2>2. above(u) # above(p)
    BY <2>1
  <2>3. Cardinality(above(u)) < Cardinality(above(p))
    <3>1. IsFiniteSet(above(p)) /\ above(u) \in SUBSET above(p)
      BY <1>1, <2>1
    <3>2. /\ Cardinality(above(u)) <= Cardinality(above(p))
          /\ Cardinality(above(u)) = Cardinality(above(p)) => above(u) = above(p)
      BY <3>1, FS_Subset
    <3>3. Cardinality(above(u)) \in Nat /\ Cardinality(above(p)) \in Nat
      BY <1>1
    <3>4. QED
      BY <2>2, <3>2, <3>3
  <2>4. Cardinality(above(u)) \in T
    BY <1>2
  <2>5. QED
    BY <1>4, <1>5, <2>3, <2>4
<1>7. QED
  BY <1>6

\* The locks never block each other in a circle: of the threads that hold an
\* fsq_lock, the requeue whose first lock is the highest finds its second one
\* free, or somebody else needs no more locks.
THEOREM LocksDoNotCycle == Spec => []NoLockCycle
<1>1. ASSUME FutexInv, NEW h \in Thread, Holder(h),
             \A p \in Thread : Holder(p) =>
                /\ pc[p] = "q_lock2"
                /\ \A q \in {Slpque[call[p].f], Slpque[call[p].g]} : ~Free(q)
      PROVE  FALSE
  <2>1. PICK H \in SUBSET Thread : H = {p \in Thread : Holder(p)}
    OBVIOUS
  <2>2. H # {}
    BY <1>1, <2>1
  <2>3. PICK f : f = [p \in Thread |-> FirstLock(p)]
    OBVIOUS
  <2>4. ASSUME NEW p \in H
        PROVE  /\ pc[p] = "q_lock2" /\ f[p] = FirstLock(p)
               /\ Slpque[call[p].f] \in FsqId /\ Slpque[call[p].g] \in FsqId
               /\ Slpque[call[p].f] \in Nat /\ Slpque[call[p].g] \in Nat
               /\ Slpque[call[p].f] # Slpque[call[p].g]
               /\ ~Free(Slpque[call[p].f]) /\ ~Free(Slpque[call[p].g])
    <3>1. pc[p] = "q_lock2" /\ ~Free(Slpque[call[p].f]) /\ ~Free(Slpque[call[p].g])
      BY <1>1, <2>1
    <3>2. Slpque[call[p].f] # Slpque[call[p].g]
      BY <1>1, <3>1 DEF FutexInv, Own, Calling
    <3>3. QED
      BY <1>1, <2>3, <3>1, <3>2, CallTypes
  <2>5. \A p \in H : f[p] \in Nat
    BY <2>4 DEF FirstLock
  <2>6. PICK p \in H : \A u \in H : ~(f[u] > f[p])
    BY <2>2, <2>5, HighestLock
  <2>7. PICK l \in FsqId : ~Free(l) /\ l > f[p] /\ l \in Nat
    BY <2>4 DEF FirstLock
  <2>8. PICK u \in Thread : fsq_lock[l] = u
    BY <1>1, <2>7 DEF FutexInv, TypeOK, Free
  <2>9. u \in H
    BY <2>1, <2>8 DEF Holder
  <2>10. l = f[u]
    <3>1. Holds(u, l)
      BY <1>1, <2>8 DEF FutexInv, Locks
    <3>2. QED
      BY <2>4, <2>9, <3>1 DEF Holds
  <2>11. QED
    BY <2>6, <2>7, <2>9, <2>10
<1>2. FutexInv => NoLockCycle
  BY <1>1 DEF NoLockCycle
<1>3. QED
  BY <1>2, FutexInvariant, PTL

-----------------------------------------------------------------------------
(* No wake is lost.                                                        *)

\* The calls that store a value and wake, and those that move futexes.
Announces(c) == c.op = "wake" \/ (c.op = "requeue" /\ c.m = 0)
Moves(c) == c.op = "requeue" /\ c.m > 0

\* The threads that may wait, and the addresses futexes may be moved to.
Waiters == {p \in Thread : \E c \in Calls[p] : c.op = "wait"}
Targets == {a \in Addr : \E p \in Thread : \E c \in Calls[p] : Moves(c) /\ c.g = a}

\* Whoever changes the value somebody may have compared with wakes as many
\* threads as may wait: the rule the users of futex(2) keep, without which
\* the kernel has nothing to promise.
WakesReachAll ==
    \A k \in Thread : \A c \in Calls[k] : Announces(c) =>
        \/ c.n >= Cardinality(Waiters)
        \/ \A p \in Thread : \A d \in Calls[p] : d.op = "wait" /\ d.f = c.f => d.val = c.val

\* What was requeued to an address is not requeued from it (a condition
\* variable's waiters go to its mutex, and stay there).
RequeuesEnd == \A p \in Thread : \A c \in Calls[p] : Moves(c) => c.f \notin Targets

\* Before the sleep and in it.
Sleepy == {"w_setup", "w_eval", "w_sleep"}

\* Somebody will wake every thread at the address p waits at.
Ahead(p) ==
    \E k \in Thread : /\ pc[k] \in {"k_lock", "k_scan"} /\ call[k].f = call[p].f
                      /\ call[k].n >= Cardinality(Waiters)

\* A thread whose value has changed since it compared has a wake ahead of it
\* as long as it is on the list of its address.
Pledged(p) ==
    /\ pc[p] \in Sleepy /\ ft[p].proc /\ ft[p].off = call[p].f
    /\ uval[call[p].f] # call[p].val
    => Ahead(p)

\* A futex is where its thread asked for or where a requeue has put it.
Asked(p) ==
    /\ pc[p] \in {"w_lock", "w_insert"} \/ Listed(p) =>
          call[p].op = "wait" /\ (ft[p].off = call[p].f \/ ft[p].off \in Targets)
    /\ pc[p] \in {"q_lock", "q_lock2", "q_scan"} => Moves(call[p])

WakeInv == \A p \in Thread : Asked(p) /\ Pledged(p)

\* A step that moves a thread on in its call.
LEMMA MovePledges ==
    ASSUME FutexInv, WakeInv, NEW p \in Thread, NEW l, pc' = [pc EXCEPT ![p] = l],
           UNCHANGED <<uval, ft, call>>,
           pc[p] \in {"k_lock", "k_scan"} => l \in {"k_lock", "k_scan"},
           l \in {"q_lock", "q_lock2", "q_scan"} => pc[p] \in {"q_lock", "q_lock2", "q_scan"},
           pc'[p] \in {"w_lock", "w_insert"} \/ Listed(p)' =>
              pc[p] \in {"w_lock", "w_insert"} \/ Listed(p),
           l \in Sleepy => pc[p] \in Sleepy \/ uval[call[p].f] = call[p].val
    PROVE  WakeInv'
<1>1. pc'[p] = l /\ \A u \in Thread \ {p} : pc'[u] = pc[u]
  BY DEF FutexInv, TypeOK
<1>2. ASSUME NEW u \in Thread
      PROVE  Asked(u)'
  <2>1. Asked(u)
    BY DEF WakeInv
  <2>2. CASE u = p
    BY <1>1, <2>1, <2>2 DEF Asked, Moves
  <2>3. CASE u # p
    BY <1>1, <2>1, <2>3 DEF Asked, Moves, Listed
  <2>4. QED
    BY <2>2, <2>3
<1>3. ASSUME NEW u \in Thread
      PROVE  Ahead(u) => Ahead(u)'
  BY <1>1 DEF Ahead
<1>4. ASSUME NEW u \in Thread
      PROVE  Pledged(u)'
  <2>1. Pledged(u)
    BY DEF WakeInv
  <2>2. CASE u = p
    BY <1>1, <1>3, <2>1, <2>2 DEF Pledged
  <2>3. CASE u # p
    BY <1>1, <1>3, <2>1, <2>3 DEF Pledged
  <2>4. QED
    BY <2>2, <2>3
<1>5. QED
  BY <1>2, <1>4 DEF WakeInv

\* A step of the sleep, of a timeout or of a signal.
LEMMA StillPledged ==
    ASSUME WakeInv, UNCHANGED <<uval, ft, pc, call>>
    PROVE  WakeInv'
<1>1. ASSUME NEW u \in Thread
      PROVE  Asked(u)' /\ Pledged(u)'
  BY DEF WakeInv, Asked, Pledged, Ahead, Moves, Listed
<1>2. QED
  BY <1>1 DEF WakeInv

\* A thread enters a call or leaves one: it waits for nobody and has nobody
\* to wake before, and the values stay.
LEMMA EnterPledges ==
    ASSUME FutexInv, WakeInv, NEW p \in Thread, pc[p] \in {"user", "userret"},
           NEW l \in {"user", "w_lock", "k_lock", "q_lock", "userret"},
           pc' = [pc EXCEPT ![p] = l], NEW c, call' = [call EXCEPT ![p] = c], uval' = uval,
           \A u \in Thread \ {p} : ft'[u] = ft[u],
           l = "w_lock" => c.op = "wait" /\ ft'[p].off = c.f,
           l = "q_lock" => Moves(c)
    PROVE  WakeInv'
<1>1. /\ pc'[p] = l /\ \A u \in Thread \ {p} : pc'[u] = pc[u]
      /\ call'[p] = c /\ \A u \in Thread \ {p} : call'[u] = call[u]
  BY DEF FutexInv, TypeOK
<1>2. ASSUME NEW u \in Thread
      PROVE  Asked(u)'
  <2>1. Asked(u)
    BY DEF WakeInv
  <2>2. CASE u = p
    BY <1>1, <2>2 DEF Asked, Listed
  <2>3. CASE u # p
    BY <1>1, <2>1, <2>3 DEF Asked, Moves, Listed
  <2>4. QED
    BY <2>2, <2>3
<1>3. ASSUME NEW u \in Thread \ {p}, Ahead(u)
      PROVE  Ahead(u)'
  <2>1. PICK k \in Thread : /\ pc[k] \in {"k_lock", "k_scan"} /\ call[k].f = call[u].f
                            /\ call[k].n >= Cardinality(Waiters)
    BY <1>3 DEF Ahead
  <2>2. k # p
    BY <2>1
  <2>3. QED
    BY <1>1, <2>1, <2>2 DEF Ahead
<1>4. ASSUME NEW u \in Thread
      PROVE  Pledged(u)'
  <2>1. Pledged(u)
    BY DEF WakeInv
  <2>2. CASE u = p
    BY <1>1, <2>2 DEF Pledged, Sleepy
  <2>3. CASE u # p
    BY <1>1, <1>3, <2>1, <2>3 DEF Pledged
  <2>4. QED
    BY <2>2, <2>3
<1>5. QED
  BY <1>2, <1>4 DEF WakeInv

\* A thread that waits is one of the Waiters, so there is one.
LEMMA SomeWaiter ==
    ASSUME FutexInv, NEW p \in Thread, Listed(p), call[p].op = "wait"
    PROVE  /\ p \in Waiters /\ call[p] \in Calls[p]
           /\ IsFiniteSet(Waiters) /\ Cardinality(Waiters) \in Nat \ {0}
<1>1. pc[p] # "user" /\ call[p] \in Calls[p]
  BY DEF FutexInv, TypeOK, Listed
<1>2. p \in Waiters /\ Waiters \in SUBSET Thread
  BY <1>1 DEF Waiters
<1>3. IsFiniteSet(Waiters)
  BY <1>2, ThreadAssumption, FS_Subset
<1>4. Cardinality(Waiters) \in Nat /\ Cardinality(Waiters) # 0
  BY <1>2, <1>3, FS_CardinalityType, FS_EmptySet
<1>5. QED
  BY <1>1, <1>2, <1>3, <1>4

\* The store of a FUTEX_WAKE: the wake it announces is ahead of everyone who
\* compared with another value.
LEMMA StorePledges ==
    ASSUME FutexInv, WakeInv, WakesReachAll, NEW p \in Thread, NEW c \in Calls[p], Wake(p, c)
    PROVE  WakeInv'
<1>1. /\ pc[p] = "user" /\ Announces(c) /\ ft' = ft
      /\ pc' = [pc EXCEPT ![p] = IF c.n = 0 THEN "userret" ELSE "k_lock"]
      /\ call' = [call EXCEPT ![p] = c] /\ uval' = [uval EXCEPT ![c.f] = c.val]
  BY DEF Wake, Announces, Goto, queueVars
<1>2. /\ pc'[p] = IF c.n = 0 THEN "userret" ELSE "k_lock"
      /\ \A u \in Thread \ {p} : pc'[u] = pc[u] /\ call'[u] = call[u]
      /\ call'[p] = c
  BY <1>1 DEF FutexInv, TypeOK
<1>3. ASSUME NEW u \in Thread
      PROVE  Asked(u)'
  <2>1. Asked(u)
    BY DEF WakeInv
  <2>2. CASE u = p
    BY <1>2, <2>2 DEF Asked, Listed
  <2>3. CASE u # p
    BY <1>1, <1>2, <2>1, <2>3 DEF Asked, Moves, Listed
  <2>4. QED
    BY <2>2, <2>3
<1>4. ASSUME NEW u \in Thread
      PROVE  Pledged(u)'
  <2> SUFFICES ASSUME pc'[u] \in Sleepy, ft'[u].proc, ft'[u].off = call'[u].f,
                      uval'[call'[u].f] # call'[u].val
               PROVE  Ahead(u)'
    BY DEF Pledged
  <2>1. u # p
    BY <1>2 DEF Sleepy
  <2>2. /\ pc[u] \in Sleepy /\ ft[u].proc /\ ft[u].off = call[u].f /\ Listed(u)
        /\ call'[u] = call[u]
    BY <1>1, <1>2, <2>1 DEF Sleepy, Listed
  <2>3. call[u].op = "wait"
    BY <2>2 DEF WakeInv, Asked
  <2>4. Cardinality(Waiters) \in Nat \ {0} /\ call[u] \in Calls[u]
    BY <2>2, <2>3, SomeWaiter
  <2>5. /\ c.f \in Addr /\ c.n \in Nat /\ call[u].f \in Addr /\ uval \in [Addr -> Value]
    BY <2>4, CallsAssumption DEF Call, FutexInv, TypeOK
  <2>6. CASE call[u].f # c.f
    <3>1. uval[call[u].f] # call[u].val
      BY <1>1, <2>2, <2>5, <2>6
    <3>2. Ahead(u)
      BY <2>2, <3>1 DEF WakeInv, Pledged
    <3>3. PICK k \in Thread : /\ pc[k] \in {"k_lock", "k_scan"} /\ call[k].f = call[u].f
                              /\ call[k].n >= Cardinality(Waiters)
      BY <3>2 DEF Ahead
    <3>4. k # p
      BY <1>1, <3>3
    <3>5. QED
      BY <1>2, <2>2, <3>3, <3>4 DEF Ahead
  <2>7. CASE call[u].f = c.f
    <3>1. c.val # call[u].val
      BY <1>1, <2>2, <2>5, <2>7
    <3>2. c.n >= Cardinality(Waiters)
      BY <1>1, <2>3, <2>4, <2>7, <3>1 DEF WakesReachAll
    <3>3. pc'[p] = "k_lock"
      BY <1>2, <2>4, <2>5, <3>2
    <3>4. QED
      BY <1>2, <2>2, <2>7, <3>2, <3>3 DEF Ahead
  <2>8. QED
    BY <2>6, <2>7
<1>5. QED
  BY <1>3, <1>4 DEF WakeInv

\* There are no more futexes at an address than threads that may wait.
LEMMA FewMatching ==
    ASSUME FutexInv, WakeInv, NEW o \in FsqId, NEW a,
           NEW i \in Matching(fsq_list[o], a)
    PROVE  Rank(Matching(fsq_list[o], a), i) <= Cardinality(Waiters)
<1>1. PICK q \in Seq(Thread) : q = fsq_list[o] /\ NoDup(q)
  BY DEF FutexInv, TypeOK, Lists
<1>2. PICK at \in SUBSET (1..Len(q)) : at = Matching(q, a)
  BY DEF Matching
<1>3. /\ Cardinality(at) \in Nat /\ IsFiniteSet(at)
      /\ \A j \in at : Rank(at, j) \in 1..Cardinality(at)
  <2>1. Len(q) \in Nat
    OBVIOUS
  <2>2. QED
    BY <2>1, RankFacts
<1>4. \A j \in 1..Len(q) : q[j] \in Waiters
  <2>1. ASSUME NEW j \in 1..Len(q)
        PROVE  q[j] \in Waiters
    <3>1. PICK u \in Thread : u = q[j]
      OBVIOUS
    <3>2. u \in Elements(fsq_list[o])
      BY <1>1, <3>1 DEF Elements
    <3>3. Listed(u)
      BY <3>2 DEF FutexInv, Lists
    <3>4. call[u].op = "wait"
      BY <3>3 DEF WakeInv, Asked
    <3>5. QED
      BY <3>1, <3>3, <3>4, SomeWaiter
  <2>2. QED
    BY <2>1
<1>5. Cardinality(at) <= Cardinality(Waiters)
  <2> DEFINE f == [j \in at |-> q[j]]
  <2>1. f \in Injection(at, Waiters)
    BY <1>1, <1>4 DEF Injection, IsInjective, NoDup
  <2>2. IsFiniteSet(Waiters)
    <3>1. Waiters \in SUBSET Thread
      BY DEF Waiters
    <3>2. QED
      BY <3>1, ThreadAssumption, FS_Subset
  <2>3. QED
    BY <2>1, <2>2, FS_Injection
<1>6. Cardinality(Waiters) \in Nat
  <2>1. Waiters \in SUBSET Thread
    BY DEF Waiters
  <2>2. QED
    BY <2>1, ThreadAssumption, FS_Subset, FS_CardinalityType
<1>7. i \in at /\ Matching(fsq_list[o], a) = at
  BY <1>1, <1>2
<1>8. QED
  BY <1>3, <1>5, <1>6, <1>7

\* futex_wake() for enough threads reaches everyone on the list of the address.
LEMMA WakeScanPledges ==
    ASSUME FutexInv, WakeInv, NEW p \in Thread, WakeScan(p)
    PROVE  WakeInv'
<1>1. pc[p] = "k_scan"
  BY DEF WakeScan
<1>2. PICK g \in Addr, o \in FsqId, n \in Nat :
         g = call[p].f /\ o = Slpque[g] /\ n = call[p].n
  BY <1>1, CallTypes
<1>3. PICK q \in Seq(Thread) : q = fsq_list[o]
  BY DEF FutexInv, TypeOK
<1>4. PICK K \in SUBSET (1..Len(q)) :
         K = {i \in Matching(q, g) : Rank(Matching(q, g), i) <= n}
  BY DEF Matching
<1>5. PICK W : W = {q[i] : i \in K}
  OBVIOUS
<1>6. /\ ft' = [u \in Thread |-> IF u \in W THEN [ft[u] EXCEPT !.proc = FALSE] ELSE ft[u]]
      /\ pc' = [pc EXCEPT ![p] = "userret"] /\ uval' = uval /\ call' = call
  BY <1>2, <1>3, <1>4, <1>5 DEF WakeScan, Goto
<1>7. /\ \A u \in Thread : ft'[u].off = ft[u].off /\ (ft'[u].proc => ft[u].proc /\ u \notin W)
      /\ pc'[p] = "userret" /\ \A u \in Thread \ {p} : pc'[u] = pc[u]
  <2>1. /\ ft \in [Thread -> [off : Addr, fsq : FsqId, proc : BOOLEAN]]
        /\ pc \in [Thread -> PC]
    BY DEF FutexInv, TypeOK
  <2>2. \A u \in Thread : ft'[u].off = ft[u].off /\ (ft'[u].proc => ft[u].proc /\ u \notin W)
    BY <1>6, <2>1
  <2>3. QED
    BY <1>6, <2>1, <2>2
<1>8. ASSUME NEW u \in Thread
      PROVE  Asked(u)'
  <2>1. Asked(u)
    BY DEF WakeInv
  <2>2. CASE u = p
    BY <1>7, <2>2 DEF Asked, Listed
  <2>3. CASE u # p
    <3>1. pc'[u] = pc[u] /\ call'[u] = call[u] /\ ft'[u].off = ft[u].off
      BY <1>6, <1>7, <2>3
    <3>2. QED
      BY <2>1, <3>1 DEF Asked, Moves, Listed
  <2>4. QED
    BY <2>2, <2>3
<1>9. ASSUME NEW u \in Thread
      PROVE  Pledged(u)'
  <2> SUFFICES ASSUME pc'[u] \in Sleepy, ft'[u].proc, ft'[u].off = call'[u].f,
                      uval'[call'[u].f] # call'[u].val
               PROVE  Ahead(u)'
    BY DEF Pledged
  <2>1. u # p
    BY <1>7 DEF Sleepy
  <2>2. /\ pc[u] \in Sleepy /\ ft[u].proc /\ ft[u].off = call[u].f /\ Listed(u) /\ u \notin W
        /\ uval[call[u].f] # call[u].val
    BY <1>6, <1>7, <2>1 DEF Sleepy, Listed
  <2>3. PICK k \in Thread : /\ pc[k] \in {"k_lock", "k_scan"} /\ call[k].f = call[u].f
                            /\ call[k].n >= Cardinality(Waiters)
    BY <2>2 DEF WakeInv, Pledged, Ahead
  <2>4. k # p
    <3> SUFFICES ASSUME k = p PROVE FALSE
      OBVIOUS
    <3>1. ft[u].off = g /\ ft[u].fsq = o /\ n >= Cardinality(Waiters)
      BY <1>2, <2>2, <2>3 DEF FutexInv, Own, Waiting
    <3>2. u \in Elements(q)
      BY <1>3, <2>2, <3>1 DEF FutexInv, Lists
    <3>3. PICK i \in 1..Len(q) : q[i] = u
      BY <3>2 DEF Elements
    <3>4. i \in Matching(q, g)
      BY <3>1, <3>3 DEF Matching
    <3>5. Rank(Matching(q, g), i) <= Cardinality(Waiters)
      BY <1>3, <3>4, FewMatching
    <3>6. Rank(Matching(q, g), i) \in Nat /\ Cardinality(Waiters) \in Nat
      <4>1. Matching(q, g) \in SUBSET (1..Len(q)) /\ Len(q) \in Nat
        BY DEF Matching
      <4>2. /\ Cardinality(Matching(q, g)) \in Nat
            /\ Rank(Matching(q, g), i) \in 1..Cardinality(Matching(q, g))
        BY <3>4, <4>1, RankFacts
      <4>3. Waiters \in SUBSET Thread
        BY DEF Waiters
      <4>4. Cardinality(Waiters) \in Nat
        BY <4>3, ThreadAssumption, FS_Subset, FS_CardinalityType
      <4>5. QED
        BY <4>2, <4>4
    <3>7. i \in K
      BY <1>4, <3>1, <3>4, <3>5, <3>6
    <3>8. QED
      BY <1>5, <2>2, <3>3, <3>7
  <2>5. QED
    BY <1>6, <1>7, <2>3, <2>4 DEF Ahead
<1>10. QED
  BY <1>8, <1>9 DEF WakeInv

\* futex_requeue() takes futexes away from the address their threads asked for.
LEMMA RequeueScanPledges ==
    ASSUME FutexInv, WakeInv, RequeuesEnd, NEW p \in Thread, RequeueScan(p)
    PROVE  WakeInv'
<1>1. pc[p] = "q_scan" /\ pc' = [pc EXCEPT ![p] = "userret"] /\ uval' = uval /\ call' = call
  BY DEF RequeueScan, Goto
<1>2. PICK f \in Addr, g \in Addr, o \in FsqId, n \in FsqId :
         f = call[p].f /\ g = call[p].g /\ o = Slpque[f] /\ n = Slpque[g]
  BY <1>1, CallTypes
<1>3. PICK q \in Seq(Thread) : q = fsq_list[o]
  BY DEF FutexInv, TypeOK
<1>4. \A u \in Thread : /\ ft'[u].off = ft[u].off \/ (ft[u].off = f /\ ft'[u].off = g)
                        /\ ft'[u].proc => ft[u].proc
  <2>1. PICK J, K : /\ J = {i \in Matching(q, f) : \/ call[p].n = 0
                                                   \/ Rank(Matching(q, f), i) <= call[p].n}
                    /\ K = {i \in Matching(q, f) \ J :
                               Rank(Matching(q, f), i) <= call[p].n + call[p].m}
    OBVIOUS
  <2>2. PICK W, M : W = {q[i] : i \in J} /\ M = {q[i] : i \in K}
    OBVIOUS
  <2>3. ft' = [u \in Thread |->
                 IF u \in W THEN [ft[u] EXCEPT !.proc = FALSE]
                 ELSE IF \E i \in K : u = q[i] THEN [ft[u] EXCEPT !.off = g, !.fsq = n]
                      ELSE ft[u]]
    BY <1>2, <1>3, <2>1, <2>2 DEF RequeueScan
  <2>4. \A u : u \in M <=> \E i \in K : u = q[i]
    BY <2>2
  <2>5. ft \in [Thread -> [off : Addr, fsq : FsqId, proc : BOOLEAN]]
    BY DEF FutexInv, TypeOK
  <2>6. ft' = Written(W, M, g, n)
    BY <2>3, <2>4, <2>5 DEF Written
  <2>7. \A i \in K : ft[q[i]].off = f
    BY <2>1 DEF Matching
  <2>8. \A u \in M : ft[u].off = f
    BY <2>2, <2>7
  <2>9. QED
    BY <2>5, <2>6, <2>8 DEF Written
<1>5. pc'[p] = "userret" /\ \A u \in Thread \ {p} : pc'[u] = pc[u]
  BY <1>1 DEF FutexInv, TypeOK
<1>6. f \notin Targets /\ g \in Targets
  <2>1. Moves(call[p]) /\ call[p] \in Calls[p]
    BY <1>1 DEF WakeInv, Asked, FutexInv, TypeOK
  <2>2. QED
    BY <1>2, <2>1 DEF RequeuesEnd, Targets
<1>7. ASSUME NEW u \in Thread
      PROVE  Asked(u)'
  <2>1. Asked(u)
    BY DEF WakeInv
  <2>2. CASE u = p
    BY <1>5, <2>2 DEF Asked, Listed
  <2>3. CASE u # p
    <3>1. /\ pc'[u] = pc[u] /\ call'[u] = call[u]
          /\ ft'[u].off = ft[u].off \/ ft'[u].off \in Targets
      BY <1>1, <1>4, <1>5, <1>6, <2>3
    <3>2. QED
      BY <2>1, <3>1 DEF Asked, Moves, Listed
  <2>4. QED
    BY <2>2, <2>3
<1>8. ASSUME NEW u \in Thread
      PROVE  Pledged(u)'
  <2> SUFFICES ASSUME pc'[u] \in Sleepy, ft'[u].proc, ft'[u].off = call'[u].f,
                      uval'[call'[u].f] # call'[u].val
               PROVE  Ahead(u)'
    BY DEF Pledged
  <2>1. u # p
    BY <1>5 DEF Sleepy
  <2>2. /\ pc[u] \in Sleepy /\ ft[u].proc /\ Listed(u) /\ uval[call[u].f] # call[u].val
        /\ ft'[u].off = call[u].f
    BY <1>1, <1>4, <1>5, <2>1 DEF Sleepy, Listed
  <2>3. ft[u].off = call[u].f
    <3>1. ft[u].off = call[u].f \/ ft[u].off \in Targets
      BY <2>2 DEF WakeInv, Asked
    <3>2. QED
      BY <1>4, <1>6, <2>2, <3>1
  <2>4. PICK k \in Thread : /\ pc[k] \in {"k_lock", "k_scan"} /\ call[k].f = call[u].f
                            /\ call[k].n >= Cardinality(Waiters)
    BY <2>2, <2>3 DEF WakeInv, Pledged, Ahead
  <2>5. k # p
    BY <1>1, <2>4
  <2>6. QED
    BY <1>1, <1>5, <2>4, <2>5 DEF Ahead
<1>9. QED
  BY <1>7, <1>8 DEF WakeInv

\* Every step keeps the pledges.
LEMMA PledgesStep ==
    ASSUME WakesReachAll, RequeuesEnd, FutexInv, WakeInv, [Next]_vars
    PROVE  WakeInv'
<1>1. ASSUME NEW p \in Thread, NEW c \in Calls[p], Wait(p, c)
      PROVE  WakeInv'
  <2>1. /\ pc[p] = "user" /\ c.op = "wait" /\ uval' = uval /\ call' = [call EXCEPT ![p] = c]
        /\ ft \in [Thread -> [off : Addr, fsq : FsqId, proc : BOOLEAN]]
    BY <1>1 DEF Wait, FutexInv, TypeOK
  <2>2. CASE /\ ft' = [ft EXCEPT ![p] = [off |-> c.f, fsq |-> Slpque[c.f], proc |-> TRUE]]
             /\ pc' = [pc EXCEPT ![p] = "w_lock"]
    <3>1. ft'[p].off = c.f /\ \A u \in Thread \ {p} : ft'[u] = ft[u]
      BY <2>1, <2>2
    <3>2. QED
      BY <2>1, <2>2, <3>1, EnterPledges
  <2>3. CASE ft' = ft /\ pc' = [pc EXCEPT ![p] = "userret"]
    BY <2>1, <2>3, EnterPledges
  <2>4. QED
    BY <1>1, <2>2, <2>3 DEF Wait, Goto
<1>2. ASSUME NEW p \in Thread, NEW c \in Calls[p], Requeue(p, c)
      PROVE  WakeInv'
  <2>1. /\ pc[p] = "user" /\ Moves(c) /\ uval' = uval /\ ft' = ft
        /\ call' = [call EXCEPT ![p] = c] /\ pc' = [pc EXCEPT ![p] = "q_lock"]
    BY <1>2 DEF Requeue, Goto, Moves, queueVars
  <2>2. QED
    BY <2>1, EnterPledges
<1>3. ASSUME NEW p \in Thread, Userret(p)
      PROVE  WakeInv'
  <2>1. CASE UNCHANGED <<pc, ft, callVars>>
    BY <1>3, <2>1, StillPledged DEF Userret, callVars
  <2>2. CASE /\ pc' = [pc EXCEPT ![p] = "user"] /\ ft' = [ft EXCEPT ![p] = NoFutex]
             /\ call' = [call EXCEPT ![p] = NULL]
    <3>1. pc[p] = "userret" /\ uval' = uval /\ \A u \in Thread \ {p} : ft'[u] = ft[u]
      BY <1>3, <2>2 DEF Userret, FutexInv, TypeOK
    <3>2. QED
      BY <2>2, <3>1, EnterPledges
  <2>3. QED
    BY <1>3, <2>1, <2>2 DEF Userret, Goto
<1>4. ASSUME NEW p \in Thread, WaitCopyin(p)
      PROVE  WakeInv'
  <2>1. PICK l \in {"w_setup", "w_exit"} :
           /\ pc' = [pc EXCEPT ![p] = l]
           /\ l = "w_setup" => uval[call[p].f] = call[p].val
    BY <1>4 DEF WaitCopyin, Goto
  <2>2. pc[p] = "w_copyin" /\ UNCHANGED <<uval, ft, call>> /\ pc'[p] = l
    BY <1>4, <2>1 DEF WaitCopyin, queueVars, FutexInv, TypeOK
  <2>3. QED
    BY <2>1, <2>2, MovePledges DEF Sleepy, Listed
<1>5. ASSUME NEW p \in Thread, UNCHANGED <<uval, ft, call>>,
             \/ /\ pc[p] \in {"w_lock", "w_insert"} \/ Listed(p)
                /\ \E l \in {"w_insert", "w_copyin", "w_check", "u_lock", "u_have", "userret"} :
                      pc' = [pc EXCEPT ![p] = l]
             \/ /\ pc[p] \in {"w_setup", "w_eval"}
                /\ \E l \in {"w_eval", "w_sleep"} : pc' = [pc EXCEPT ![p] = l]
             \/ pc[p] = "k_lock" /\ pc' = [pc EXCEPT ![p] = "k_scan"]
             \/ /\ pc[p] \in {"q_lock", "q_lock2"}
                /\ \E l \in {"q_lock2", "q_scan"} : pc' = [pc EXCEPT ![p] = l]
      PROVE  WakeInv'
  <2>1. pc \in [Thread -> PC]
    BY DEF FutexInv, TypeOK
  <2>2. ASSUME NEW l \in {"w_insert", "w_copyin", "w_check", "u_lock", "u_have", "userret"},
               pc[p] \in {"w_lock", "w_insert"} \/ Listed(p), pc' = [pc EXCEPT ![p] = l]
        PROVE  WakeInv'
    BY <1>5, <2>1, <2>2, MovePledges DEF Sleepy, Listed
  <2>3. ASSUME NEW l \in {"w_eval", "w_sleep"}, pc[p] \in {"w_setup", "w_eval"},
               pc' = [pc EXCEPT ![p] = l]
        PROVE  WakeInv'
    BY <1>5, <2>1, <2>3, MovePledges DEF Sleepy, Listed
  <2>4. CASE pc[p] = "k_lock" /\ pc' = [pc EXCEPT ![p] = "k_scan"]
    BY <1>5, <2>1, <2>4, MovePledges DEF Sleepy, Listed
  <2>5. ASSUME NEW l \in {"q_lock2", "q_scan"}, pc[p] \in {"q_lock", "q_lock2"},
               pc' = [pc EXCEPT ![p] = l]
        PROVE  WakeInv'
    BY <1>5, <2>1, <2>5, MovePledges DEF Sleepy, Listed
  <2>6. QED
    BY <1>5, <2>2, <2>3, <2>4, <2>5
<1>6. ASSUME NEW p \in Thread, ThreadStep(p)
      PROVE  WakeInv'
  <2>1. CASE WaitLock(p) \/ WaitInsert(p)
    BY <1>5, <2>1 DEF WaitLock, WaitInsert, Goto, callVars, Listed
  <2>2. CASE WaitSetup(p) \/ WaitEval(p)
    BY <1>5, <2>2 DEF WaitSetup, WaitEval, Goto, queueVars, callVars
  <2>3. CASE WaitWoken(p) \/ WaitCheck(p) \/ WaitExit(p)
    <3>1. /\ UNCHANGED <<uval, ft, call>> /\ Listed(p)
          /\ \E l \in {"w_check", "u_lock", "userret"} : pc' = [pc EXCEPT ![p] = l]
      BY <2>3 DEF WaitWoken, WaitCheck, WaitExit, Goto, queueVars, callVars, Listed
    <3>2. QED
      BY <1>5, <3>1
  <2>4. CASE UnwaitLock(p) \/ Unwait(p)
    <3>1. /\ UNCHANGED <<uval, ft, call>> /\ Listed(p)
          /\ \E l \in {"u_lock", "u_have", "userret"} : pc' = [pc EXCEPT ![p] = l]
      BY <2>4 DEF UnwaitLock, Unwait, Goto, queueVars, callVars, Listed
    <3>2. QED
      BY <1>5, <3>1
  <2>5. CASE WakeLock(p)
    BY <1>5, <2>5 DEF WakeLock, Goto, callVars
  <2>6. CASE RequeueLock(p) \/ RequeueLock2(p)
    <3>1. /\ UNCHANGED <<uval, ft, call>> /\ pc[p] \in {"q_lock", "q_lock2"}
          /\ \E l \in {"q_lock2", "q_scan"} : pc' = [pc EXCEPT ![p] = l]
      BY <2>6 DEF RequeueLock, RequeueLock2, Goto, callVars
    <3>2. QED
      BY <1>5, <3>1
  <2>7. CASE WakeScan(p) \/ RequeueScan(p)
    BY <2>7, WakeScanPledges, RequeueScanPledges
  <2>8. CASE UNCHANGED <<uval, queueVars, pc, callVars>>
    BY <2>8, StillPledged DEF queueVars, callVars
  <2>9. QED
    BY <1>3, <1>4, <1>6, <2>1, <2>2, <2>3, <2>4, <2>5, <2>6, <2>7, <2>8 DEF ThreadStep
<1>7. ASSUME NEW p \in Thread, ClockStep(p) \/ \E s \in Signals[p] : Kill(p, s)
      PROVE  WakeInv'
  BY <1>7, StillPledged DEF ClockStep, Kill, queueVars, callVars
<1>8. CASE UNCHANGED vars
  BY <1>8, StillPledged DEF vars, queueVars, callVars
<1>9. QED
  BY <1>1, <1>2, <1>6, <1>7, <1>8, StorePledges DEF Next

\* No wake is lost, for any number of threads, addresses and calls: between
\* the comparison of the value, the insertion, the sleep, a wake, a requeue, a
\* signal and a timeout, a thread never sleeps on at its address on a value
\* that has changed without a FUTEX_WAKE still to come.
THEOREM NoWakeIsLost ==
    ASSUME WakesReachAll, RequeuesEnd
    PROVE  Spec => []NoLostWake
<1>1. Init => WakeInv
  BY DEF Init, WakeInv, Asked, Pledged, Listed, Sleepy
<1>2. FutexInv /\ WakeInv /\ [Next]_vars => WakeInv'
  BY PledgesStep
<1>3. FutexInv /\ WakeInv => NoLostWake
  <2> SUFFICES ASSUME FutexInv, WakeInv, NEW p \in Thread, Asleep(p), ft[p].off = call[p].f,
                      uval[call[p].f] # call[p].val
               PROVE  Ahead(p)
    BY DEF NoLostWake, Ahead
  <2>1. SleepGood(p) /\ Located(p) /\ Waiting(p) /\ Pledged(p)
    BY DEF FutexInv, Own, WakeInv
  <2>2. Willing(p)
    BY <2>1 DEF Asleep, SleepGood, Placed, Willing
  <2>3. pc[p] = "w_sleep"
    BY <2>1 DEF Asleep, Located, InUser
  <2>4. QED
    BY <2>1, <2>2, <2>3 DEF Waiting, Pledged, Sleepy
<1>4. QED
  BY <1>1, <1>2, <1>3, FutexInvariant, PTL DEF Spec

=============================================================================
