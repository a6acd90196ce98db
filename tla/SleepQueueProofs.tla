-------------------------- MODULE SleepQueueProofs --------------------------
(***************************************************************************)
(* What the code of kern_synch.c and kern_sig.c does to one thread, for    *)
(* the clients that give every thread a channel of its own (cond_wait,     *)
(* futex_wait).  Each lemma is about one section of the code: it touches   *)
(* the thread it is about and no other (Others), and keeps the relation    *)
(* of queue, scheduler state, flags and timeout (Placed, Scheduled,        *)
(* Interruptible, Timed).                                                  *)
(***************************************************************************)
EXTENDS SleepQueue, QueueProofs

-----------------------------------------------------------------------------
(* A thread.                                                               *)

\* The thread is on its own queue or on none.
Placed(p) ==
    /\ p_wchan[p] \in {NULL, p}
    /\ slpque[p] = IF p_wchan[p] = NULL THEN <<>> ELSE <<p>>
    /\ p_wchan[p] # NULL =>
          /\ sf[p].pc \in {"setup", "check", "stopself", "lock", "switched"}
          /\ p_stat[p] \in {"SSLEEP", "SSTOP", "PANIC"}
          /\ sf[p].pc = "switched" => sf[p].do_sleep

\* The scheduler state goes with the place in sleep_finish and userret, and
\* a thread is stopped exactly while it has P_SUSPSIG.
Scheduled(p) ==
    /\ "P_SUSPSIG" \in p_flag[p] <=> p_stat[p] \in {"SSTOP", "PANIC"}
    /\ "P_INSCHED" \in p_flag[p] =>
          sf[p].pc \in {"setup", "check", "stopself", "lock", "userstop"}
    /\ sf[p].pc \in {"setup", "check", "stopself", "lock"} =>
          "P_INSCHED" \in p_flag[p] /\ p_stat[p] # "SRUN"
    /\ sf[p].pc = "switched" =>
          p_stat[p] # "SONPROC" /\ (p_stat[p] = "SSLEEP" => p_wchan[p] # NULL)
    /\ sf[p].pc \in {"run", "timeout", "recheck", "done"} =>
          p_stat[p] \in {"SONPROC", "PANIC"}
    /\ sf[p].pc = "userstop" =>
          \/ p_stat[p] \in {"SONPROC", "PANIC"}
          \/ p_stat[p] = "SSTOP" /\ "P_INSCHED" \in p_flag[p]
    /\ sf[p].pc = "userswtch" => p_stat[p] \in {"SSTOP", "SRUN", "PANIC"}

\* P_SINTR is set while a sleep with PCATCH can be interrupted, and no caught
\* signal is pending once sleep_signal_check has looked.
Interruptible(p) ==
    /\ "P_SINTR" \in p_flag[p] =>
          sf[p].pc \in {"setup", "check", "stopself", "lock", "switched", "timeout"}
    /\ sf[p].pc \in {"check", "stopself"} => sf[p].catch
    /\ sf[p].pc \in {"check", "stopself", "lock", "switched"} /\ sf[p].catch =>
          "P_SINTR" \in p_flag[p]
    /\ sf[p].pc \in {"stopself", "lock", "switched"} /\ sf[p].catch
          /\ p_wchan[p] # NULL => "INTR" \notin Pending(p)

\* The timeout is under way, or it has run, while a timed sleep_finish may
\* still have to cancel it; once it has begun to run the thread is off its
\* queue.
Timed(p) ==
    /\ sf[p].timed => sf[p].pc \in {"check", "stopself", "lock", "switched",
                                    "timeout", "recheck", "done"}
    /\ IF sf[p].timed /\ sf[p].pc \notin {"recheck", "done"}
       THEN /\ sleep_to[p] = "off" <=> "P_TIMEOUTRAN" \in p_flag[p]
            /\ "P_TIMEOUT" \in p_flag[p] => sleep_to[p] = "off"
            /\ p_wchan[p] # NULL => sleep_to[p] \in {"armed", "firing"}
       ELSE /\ sleep_to[p] = "off"
            /\ p_flag[p] \cap {"P_TIMEOUT", "P_TIMEOUTRAN"} = {}

SleepGood(p) == Placed(p) /\ Scheduled(p) /\ Interruptible(p) /\ Timed(p)

\* The other threads, and what is kept for them, stay as they are.
Others(p) ==
    \A q \in Thread \ {p} :
        /\ slpque'[q] = slpque[q] /\ p_wchan'[q] = p_wchan[q]
        /\ p_stat'[q] = p_stat[q] /\ p_flag'[q] = p_flag[q]
        /\ p_siglist'[q] = p_siglist[q] /\ ps_siglist'[q] = ps_siglist[q]
        /\ sleep_to'[q] = sleep_to[q] /\ sf'[q] = sf[q]

\* The thread has decided to sleep and nobody has taken it off its queue.
Willing(p) ==
    /\ p_wchan[p] # NULL /\ sf[p].do_sleep
    /\ sf[p].pc \in {"check", "stopself", "lock", "switched"}

\* The parts of the code a thread is in: sleep_finish, or outside of it.
InFinish == {"check", "stopself", "lock", "switched", "timeout", "recheck", "done"}
InUser == {"run", "userstop", "userswtch"}

\* A step keeps what is said of the thread, fails no check and does not send
\* the thread to sleep.
Kept(p) ==
    /\ SleepTypeOK' /\ Others(p) /\ SleepGood(p)'
    /\ p_stat[p] # "PANIC" => p_stat'[p] # "PANIC"
    /\ Willing(p)' => Willing(p)

-----------------------------------------------------------------------------
(* The queue of a thread has one place.                                    *)

\* TAILQ_REMOVE of the only element, or from an empty queue.
LEMMA WithoutOnly ==
    ASSUME NEW p
    PROVE  Without(<<p>>, p) = <<>> /\ Without(<<>>, p) = <<>>
<1>1. Len(<<p>>) = 1 /\ <<p>>[1] = p /\ Len(<<>>) = 0
  OBVIOUS
<1>2. (CHOOSE i \in 1 .. Len(<<p>>) : <<p>>[i] = p) = 1
  BY <1>1
<1>3. Without(<<p>>, p) = SubSeq(<<p>>, 1, 0) \o SubSeq(<<p>>, 2, 1)
  BY <1>1, <1>2 DEF Without
<1>4. SubSeq(<<p>>, 1, 0) \o SubSeq(<<p>>, 2, 1) = <<>>
  OBVIOUS
<1>5. Without(<<>>, p) = <<>>
  BY <1>1 DEF Without
<1>6. QED
  BY <1>3, <1>4, <1>5

\* unsleep() empties the thread's queue.
LEMMA UnsleepEffect ==
    ASSUME Chan = Thread, SleepTypeOK, NEW p \in Thread, Placed(p), unsleep(p)
    PROVE  /\ slpque' \in [Chan -> Seq(Thread)]
           /\ p_wchan' \in [Thread -> Chan \cup {NULL}]
           /\ slpque'[p] = <<>> /\ p_wchan'[p] = NULL
           /\ \A q \in Thread \ {p} : slpque'[q] = slpque[q] /\ p_wchan'[q] = p_wchan[q]
<1> USE NULLAssumption
<1>1. p_wchan' = [p_wchan EXCEPT ![p] = NULL] /\ slpque' = UnsleepQueue(p)
  BY DEF unsleep
<1>2. /\ slpque \in [Chan -> Seq(Thread)] /\ p_wchan \in [Thread -> Chan \cup {NULL}]
      /\ p_wchan[p] \in {NULL, p}
      /\ slpque[p] = IF p_wchan[p] = NULL THEN <<>> ELSE <<p>>
  BY DEF SleepTypeOK, Placed
<1>3. CASE p_wchan[p] = NULL
  BY <1>1, <1>2, <1>3 DEF UnsleepQueue
<1>4. CASE p_wchan[p] # NULL
  <2>1. p_wchan[p] = p /\ slpque[p] = <<p>>
    BY <1>2, <1>4
  <2>2. Without(<<p>>, p) = <<>>
    BY WithoutOnly
  <2>3. slpque' = [slpque EXCEPT ![p] = <<>>]
    BY <1>1, <1>4, <2>1, <2>2 DEF UnsleepQueue
  <2>4. QED
    BY <1>1, <1>2, <2>3
<1>5. QED
  BY <1>3, <1>4

\* wakeup_one() on a thread's channel finds the thread or nobody.
LEMMA WakeupEffect ==
    ASSUME Chan = Thread, SleepTypeOK, NEW p \in Thread, Placed(p), wakeup_n(p, 1)
    PROVE  /\ slpque' \in [Chan -> Seq(Thread)]
           /\ p_wchan' \in [Thread -> Chan \cup {NULL}]
           /\ p_stat' \in [Thread -> Stat]
           /\ slpque'[p] = <<>> /\ p_wchan'[p] = NULL
           /\ p_stat'[p] = IF p_wchan[p] = NULL \/ p_stat[p] = "SSTOP" THEN p_stat[p]
                           ELSE IF p_stat[p] # "SSLEEP" THEN "PANIC"
                           ELSE IF "P_INSCHED" \in p_flag[p] THEN "SSLEEP" ELSE "SRUN"
           /\ UNCHANGED <<p_flag, p_siglist, ps_siglist, sleep_to, sf>>
           /\ \A q \in Thread \ {p} :
                 slpque'[q] = slpque[q] /\ p_wchan'[q] = p_wchan[q] /\ p_stat'[q] = p_stat[q]
<1> USE NULLAssumption
<1>1. PICK W : W = Wakeq(p, 1)
  OBVIOUS
<1>2. /\ slpque' = [slpque EXCEPT ![p] = SubSeq(slpque[p], Cardinality(W) + 1, Len(slpque[p]))]
      /\ p_wchan' = [q \in Thread |-> IF q \in W THEN NULL ELSE p_wchan[q]]
      /\ p_stat' = [q \in Thread |->
             IF q \notin W \/ p_stat[q] = "SSTOP" THEN p_stat[q]
             ELSE IF p_stat[q] = "SSLEEP" THEN Setrunnable(q, NULL) ELSE "PANIC"]
      /\ UNCHANGED <<p_flag, p_siglist, ps_siglist, sleep_to, sf>>
  BY <1>1 DEF wakeup_n
<1>3. /\ slpque \in [Chan -> Seq(Thread)] /\ p_wchan \in [Thread -> Chan \cup {NULL}]
      /\ p_stat \in [Thread -> Stat] /\ p_wchan[p] \in {NULL, p}
      /\ slpque[p] = IF p_wchan[p] = NULL THEN <<>> ELSE <<p>>
  BY DEF SleepTypeOK, Placed
<1>4. \A q \in Thread : Setrunnable(q, NULL) \in Stat
  BY DEF Setrunnable, Stat
<1>5. p_stat' \in [Thread -> Stat]
  BY <1>2, <1>3, <1>4 DEF Stat
<1>6. p_stat[p] = "SSLEEP" =>
         Setrunnable(p, NULL) = IF "P_INSCHED" \in p_flag[p] THEN "SSLEEP" ELSE "SRUN"
  BY DEF Setrunnable
<1>7. CASE p_wchan[p] = NULL
  <2>1. W = {}
    <3>1. slpque[p] = <<>> /\ Len(<<>>) = 0
      BY <1>3, <1>7
    <3>2. QED
      BY <1>1, <3>1 DEF Wakeq
  <2>2. Cardinality(W) = 0
    BY <2>1, FS_EmptySet
  <2>3. slpque' = [slpque EXCEPT ![p] = <<>>]
    <3>1. SubSeq(<<>>, 0 + 1, Len(<<>>)) = <<>>
      OBVIOUS
    <3>2. slpque[p] = <<>>
      BY <1>3, <1>7
    <3>3. QED
      BY <1>2, <2>2, <3>1, <3>2
  <2>4. QED
    BY <1>2, <1>3, <1>5, <1>7, <2>1, <2>3
<1>8. CASE p_wchan[p] # NULL
  <2>1. slpque[p] = <<p>>
    BY <1>3, <1>8
  <2>2. W = {p}
    <3>1. Len(<<p>>) = 1 /\ <<p>>[1] = p
      OBVIOUS
    <3>2. W = {<<p>>[i] : i \in 1 .. 1}
      BY <1>1, <2>1, <3>1 DEF Wakeq
    <3>3. QED
      BY <3>1, <3>2
  <2>3. Cardinality(W) = 1
    BY <2>2, FS_Singleton, Zenon
  <2>4. slpque' = [slpque EXCEPT ![p] = <<>>]
    <3>1. SubSeq(<<p>>, 1 + 1, Len(<<p>>)) = <<>>
      OBVIOUS
    <3>2. QED
      BY <1>2, <2>1, <2>3, <3>1
  <2>5. p_stat'[p] = IF p_stat[p] = "SSTOP" THEN p_stat[p]
                     ELSE IF p_stat[p] = "SSLEEP" THEN Setrunnable(p, NULL) ELSE "PANIC"
    BY <1>2, <2>2
  <2>6. \A q \in Thread \ {p} :
           slpque'[q] = slpque[q] /\ p_wchan'[q] = p_wchan[q] /\ p_stat'[q] = p_stat[q]
    BY <1>2, <2>2, <2>4
  <2>7. /\ slpque' \in [Chan -> Seq(Thread)] /\ slpque'[p] = <<>>
        /\ p_wchan' \in [Thread -> Chan \cup {NULL}] /\ p_wchan'[p] = NULL
    <3>1. slpque' \in [Chan -> Seq(Thread)] /\ slpque'[p] = <<>>
      BY <1>3, <2>4
    <3>2. p_wchan'[p] = NULL
      BY <1>2, <2>2
    <3>3. p_wchan' \in [Thread -> Chan \cup {NULL}]
      BY <1>2, <1>3
    <3>4. QED
      BY <3>1, <3>2, <3>3
  <2>8. p_stat'[p] = IF p_stat[p] = "SSTOP" THEN p_stat[p]
                     ELSE IF p_stat[p] # "SSLEEP" THEN "PANIC"
                     ELSE IF "P_INSCHED" \in p_flag[p] THEN "SSLEEP" ELSE "SRUN"
    BY <1>6, <2>5
  <2>9. QED
    BY <1>2, <1>5, <1>8, <2>6, <2>7, <2>8
<1>9. QED
  BY <1>7, <1>8

\* The thread moves on in sleep_finish() or userret().
LEMMA MoveEffect ==
    ASSUME SleepTypeOK, NEW p \in Thread, NEW l \in SleepPC,
           sf' = [sf EXCEPT ![p].pc = l]
    PROVE  /\ sf' \in [Thread -> [pc : SleepPC, timed : BOOLEAN, do_sleep : BOOLEAN,
                                  catch : BOOLEAN, error : Error]]
           /\ sf'[p].pc = l /\ sf'[p].timed = sf[p].timed
           /\ sf'[p].do_sleep = sf[p].do_sleep
           /\ sf'[p].catch = sf[p].catch /\ sf'[p].error = sf[p].error
           /\ \A q \in Thread \ {p} : sf'[q] = sf[q]
BY DEF SleepTypeOK

\* The types, one by one.
LEMMA TypesPrimed ==
    ASSUME slpque' \in [Chan -> Seq(Thread)],
           p_wchan' \in [Thread -> Chan \cup {NULL}],
           p_stat' \in [Thread -> Stat],
           p_flag' \in [Thread -> SUBSET Flag],
           p_siglist' \in [Thread -> SUBSET Signal],
           ps_siglist' \in [Thread -> SUBSET Signal],
           sleep_to' \in [Thread -> Timeout],
           sf' \in [Thread -> [pc : SleepPC, timed : BOOLEAN, do_sleep : BOOLEAN,
                              catch : BOOLEAN, error : Error]]
    PROVE  SleepTypeOK'
BY Zenon DEF SleepTypeOK

-----------------------------------------------------------------------------
(* Going to sleep.                                                         *)

\* sleep_setup() queues the thread and marks it.
LEMMA sleep_setupGood ==
    ASSUME Chan = Thread, SleepTypeOK, NEW p \in Thread, SleepGood(p),
           NEW catch \in BOOLEAN, sleep_setup(p, p, catch)
    PROVE  Kept(p) /\ sf'[p].pc = "setup"
<1> USE NULLAssumption
<1>1. slpque[p] = <<>> /\ sf[p].pc = "run" /\ "P_SINTR" \notin p_flag[p]
  BY DEF sleep_setup, SleepGood, Placed, Interruptible
<1>2. slpque' = [slpque EXCEPT ![p] = <<p>>]
  BY <1>1 DEF sleep_setup
<1>3. SleepTypeOK' /\ Others(p)
  <2>1. slpque' \in [Chan -> Seq(Thread)] /\ p_wchan' \in [Thread -> Chan \cup {NULL}]
    BY <1>2 DEF sleep_setup, SleepTypeOK
  <2>2. p_flag' \in [Thread -> SUBSET Flag] /\ p_stat' \in [Thread -> Stat]
    BY DEF sleep_setup, SleepTypeOK, Stat, Flag
  <2>3. sf' = [sf EXCEPT ![p].pc = "setup"] /\ "setup" \in SleepPC
    BY DEF sleep_setup, SleepPC
  <2>4. SleepTypeOK'
    BY <2>1, <2>2, <2>3, MoveEffect, TypesPrimed DEF sleep_setup, SleepTypeOK
  <2>5. QED
    BY <1>2, <2>3, <2>4, MoveEffect DEF sleep_setup, SleepTypeOK, Others
<1>4. /\ slpque'[p] = <<p>> /\ p_wchan'[p] = p
      /\ p_flag'[p] = p_flag[p] \cup {"P_INSCHED"} \cup (IF catch THEN {"P_SINTR"} ELSE {})
      /\ p_stat'[p] = IF p_stat[p] # "SONPROC" THEN "PANIC" ELSE "SSLEEP"
      /\ UNCHANGED <<p_siglist, ps_siglist, sleep_to>>
  BY <1>1, <1>2 DEF sleep_setup, SleepTypeOK
<1>5. sf'[p].pc = "setup" /\ sf'[p].timed = sf[p].timed /\ sf'[p].catch = sf[p].catch
  BY DEF sleep_setup, SleepTypeOK
<1>6. Placed(p)'
  BY <1>4, <1>5 DEF Placed
<1>7. Scheduled(p)'
  BY <1>1, <1>4, <1>5 DEF SleepGood, Scheduled
<1>8. Interruptible(p)'
  BY <1>1, <1>4, <1>5 DEF SleepGood, Interruptible
<1>9. Timed(p)'
  BY <1>1, <1>4, <1>5 DEF SleepGood, Timed
<1>10. (p_stat[p] # "PANIC" => p_stat'[p] # "PANIC") /\ ~Willing(p)'
  BY <1>1, <1>4, <1>5 DEF SleepGood, Scheduled, Willing
<1>11. QED
  BY <1>3, <1>5, <1>6, <1>7, <1>8, <1>9, <1>10 DEF SleepGood, Kept

\* The call of sleep_finish(): the timeout is armed, P_SINTR is looked at.
LEMMA sleep_finishGood ==
    ASSUME Chan = Thread, SleepTypeOK, NEW p \in Thread, SleepGood(p),
           NEW timed \in BOOLEAN, NEW do_sleep \in BOOLEAN, sleep_finish(p, timed, do_sleep)
    PROVE  /\ SleepTypeOK' /\ Others(p) /\ SleepGood(p)' /\ p_stat' = p_stat
           /\ sf[p].pc = "setup" /\ sf'[p].pc \in InFinish
           /\ Willing(p)' => do_sleep /\ p_wchan[p] # NULL
<1> USE NULLAssumption
<1>1. /\ sf[p].pc = "setup" /\ sleep_to[p] = "off" /\ ~sf[p].timed
      /\ p_flag[p] \cap {"P_TIMEOUT", "P_TIMEOUTRAN"} = {}
  BY DEF sleep_finish, SleepGood, Timed
<1>2. p_stat' = p_stat
  BY <1>1 DEF sleep_finish
<1>3. SleepTypeOK' /\ Others(p)
  BY <1>2 DEF sleep_finish, SleepTypeOK, Others, Error, SleepPC, Timeout
<1>4. /\ sf'[p].pc = IF "P_SINTR" \in p_flag[p] THEN "check" ELSE "lock"
      /\ sf'[p].timed = timed /\ sf'[p].do_sleep = do_sleep
      /\ (sf'[p].catch <=> "P_SINTR" \in p_flag[p])
      /\ sleep_to'[p] = IF timed THEN "armed" ELSE "off"
      /\ UNCHANGED <<slpque, p_wchan, p_flag, p_siglist, ps_siglist>>
  BY <1>1 DEF sleep_finish, SleepTypeOK
<1>6. Placed(p)'
  BY <1>2, <1>4 DEF SleepGood, Placed
<1>7. Scheduled(p)'
  BY <1>1, <1>2, <1>4 DEF SleepGood, Scheduled
<1>8. Interruptible(p)'
  BY <1>1, <1>4 DEF SleepGood, Interruptible
<1>9. Timed(p)'
  BY <1>1, <1>4 DEF SleepGood, Timed
<1>10. sf'[p].pc \in InFinish /\ (Willing(p)' => do_sleep /\ p_wchan[p] # NULL)
  BY <1>4 DEF Willing, InFinish
<1>11. QED
  BY <1>1, <1>2, <1>3, <1>6, <1>7, <1>8, <1>9, <1>10 DEF SleepGood

\* cursig(deep) moves what it takes from the process to the thread.
LEMMA cursigEffect ==
    ASSUME SleepTypeOK, NEW p \in Thread, cursigDeep(p)
    PROVE  /\ p_siglist' \in [Thread -> SUBSET Signal]
           /\ ps_siglist' \in [Thread -> SUBSET Signal]
           /\ p_siglist'[p] = p_siglist[p] \cup Taken(p)
           /\ ps_siglist'[p] = ps_siglist[p] \ Taken(p)
           /\ Pending(p)' = Pending(p)
           /\ \A q \in Thread \ {p} :
                 p_siglist'[q] = p_siglist[q] /\ ps_siglist'[q] = ps_siglist[q]
<1>1. p_siglist \in [Thread -> SUBSET Signal] /\ ps_siglist \in [Thread -> SUBSET Signal]
  BY DEF SleepTypeOK
<1>2. Taken(p) \subseteq Pending(p) /\ Pending(p) \subseteq Signal
  BY <1>1 DEF Taken, Pending
<1>3. /\ p_siglist' = [p_siglist EXCEPT ![p] = p_siglist[p] \cup Taken(p)]
      /\ ps_siglist' = [ps_siglist EXCEPT ![p] = ps_siglist[p] \ Taken(p)]
  BY DEF cursigDeep
<1>4. p_siglist'[p] = p_siglist[p] \cup Taken(p) /\ ps_siglist'[p] = ps_siglist[p] \ Taken(p)
  BY <1>1, <1>3
<1>5. Pending(p)' = Pending(p)
  BY <1>2, <1>4 DEF Pending
<1>6. /\ p_siglist' \in [Thread -> SUBSET Signal]
      /\ ps_siglist' \in [Thread -> SUBSET Signal]
  BY <1>1, <1>2, <1>3
<1>7. QED
  BY <1>1, <1>3, <1>4, <1>5, <1>6

\* sleep_signal_check(p, 0): with an error there will be no sleep.
LEMMA CheckBeforeGood ==
    ASSUME Chan = Thread, SleepTypeOK, NEW p \in Thread, SleepGood(p), CheckBefore(p)
    PROVE  Kept(p) /\ sf[p].pc = "check" /\ sf'[p].pc \in {"lock", "stopself"}
<1> USE NULLAssumption
<1>1. /\ sf[p].pc = "check" /\ cursigDeep(p)
      /\ UNCHANGED <<slpque, p_wchan, p_stat, p_flag, sleep_to>>
  BY DEF CheckBefore
<1>2. SignalError(p) \in Error
  BY DEF SignalError, Error
<1>3. /\ sf'[p].pc = IF SignalError(p) # "0" \/ Pending(p) = {} THEN "lock" ELSE "stopself"
      /\ sf'[p].timed = sf[p].timed
      /\ sf'[p].catch = IF SignalError(p) # "0" THEN FALSE ELSE sf[p].catch
      /\ sf'[p].do_sleep = IF SignalError(p) # "0" THEN FALSE ELSE sf[p].do_sleep
  BY DEF CheckBefore, SleepTypeOK
<1>4. sf' \in [Thread -> [pc : SleepPC, timed : BOOLEAN, do_sleep : BOOLEAN,
                          catch : BOOLEAN, error : Error]]
  <2>1. PICK r : r = sf[p]
    OBVIOUS
  <2>2. /\ r \in [pc : SleepPC, timed : BOOLEAN, do_sleep : BOOLEAN,
                catch : BOOLEAN, error : Error]
        /\ {"lock", "stopself"} \subseteq SleepPC
    BY <2>1 DEF SleepTypeOK, SleepPC
  <2>3. CASE SignalError(p) # "0"
    <3>1. PICK e \in Error : e = SignalError(p)
      BY <1>2
    <3>2. sf' = [sf EXCEPT ![p] = [r EXCEPT !.pc = "lock", !.catch = FALSE,
                                            !.do_sleep = FALSE, !.error = e]]
      BY <2>1, <2>3, <3>1 DEF CheckBefore
    <3>3. QED
      BY <2>2, <3>2 DEF SleepTypeOK
  <2>4. CASE SignalError(p) = "0"
    <3>1. PICK l \in SleepPC : l = IF Pending(p) = {} THEN "lock" ELSE "stopself"
      BY <2>2
    <3>2. sf' = [sf EXCEPT ![p] = [r EXCEPT !.pc = l]]
      BY <2>1, <2>4, <3>1 DEF CheckBefore
    <3>3. QED
      BY <2>2, <3>2 DEF SleepTypeOK
  <2>5. QED
    BY <2>3, <2>4
<1>5. \A q \in Thread \ {p} : sf'[q] = sf[q]
  BY DEF CheckBefore, SleepTypeOK
<1>6. SleepTypeOK'
  BY <1>1, <1>4, cursigEffect, TypesPrimed DEF SleepTypeOK
<1>7. Others(p)
  BY <1>1, <1>5, cursigEffect DEF Others
<1>8. Placed(p)'
  BY <1>1, <1>3 DEF SleepGood, Placed
<1>9. Scheduled(p)'
  BY <1>1, <1>3 DEF SleepGood, Scheduled
<1>10. Interruptible(p)'
  <2>1. Pending(p)' = Pending(p)
    BY <1>1, cursigEffect
  <2>2. "INTR" \in Pending(p) => SignalError(p) # "0"
    BY DEF SignalError
  <2>3. QED
    BY <1>1, <1>3, <2>1, <2>2 DEF SleepGood, Interruptible
<1>11. Timed(p)'
  BY <1>1, <1>3 DEF SleepGood, Timed
<1>12. Willing(p)' => Willing(p)
  BY <1>1, <1>3 DEF Willing
<1>13. QED
  BY <1>1, <1>3, <1>6, <1>7, <1>8, <1>9, <1>10, <1>11, <1>12 DEF SleepGood, Kept

\* sleep_signal_check(p, 0): the thread stops itself. Only here may a check
\* fail, if somebody else has stopped it meanwhile.
LEMMA StopSelfGood ==
    ASSUME Chan = Thread, SleepTypeOK, NEW p \in Thread, SleepGood(p), StopSelf(p)
    PROVE  /\ SleepTypeOK' /\ Others(p) /\ SleepGood(p)'
           /\ p_stat'[p] = IF "P_SUSPSIG" \in p_flag[p] THEN "PANIC" ELSE "SSTOP"
           /\ sf[p].pc = "stopself" /\ sf'[p].pc = "lock"
           /\ Willing(p)' => Willing(p)
<1> USE NULLAssumption
<1>1. /\ sf[p].pc = "stopself" /\ sf' = [sf EXCEPT ![p].pc = "lock"] /\ "lock" \in SleepPC
      /\ UNCHANGED <<slpque, p_wchan, ps_siglist, sleep_to>>
  BY DEF StopSelf, SleepPC
<1>2. /\ p_stat'[p] = IF "P_SUSPSIG" \in p_flag[p] THEN "PANIC" ELSE "SSTOP"
      /\ p_flag'[p] = p_flag[p] \cup {"P_SUSPSIG"}
      /\ p_siglist'[p] = p_siglist[p] \ {"STOP"}
  BY DEF StopSelf, SleepTypeOK
<1>3. /\ sf'[p].pc = "lock" /\ sf'[p].timed = sf[p].timed /\ sf'[p].catch = sf[p].catch
      /\ sf'[p].do_sleep = sf[p].do_sleep
  BY <1>1, MoveEffect
<1>4. SleepTypeOK'
  <2>1. p_stat' \in [Thread -> Stat] /\ p_flag' \in [Thread -> SUBSET Flag]
    BY DEF StopSelf, SleepTypeOK, Stat, Flag
  <2>2. p_siglist' \in [Thread -> SUBSET Signal]
    BY DEF StopSelf, SleepTypeOK
  <2>3. QED
    BY <1>1, <2>1, <2>2, MoveEffect, TypesPrimed DEF SleepTypeOK
<1>5. Others(p)
  BY <1>1, MoveEffect DEF StopSelf, SleepTypeOK, Others
<1>6. Placed(p)'
  BY <1>1, <1>2, <1>3 DEF SleepGood, Placed
<1>7. Scheduled(p)'
  BY <1>1, <1>2, <1>3 DEF SleepGood, Scheduled
<1>8. Interruptible(p)'
  BY <1>1, <1>2, <1>3 DEF SleepGood, Interruptible, Pending
<1>9. Timed(p)'
  BY <1>1, <1>2, <1>3 DEF SleepGood, Timed
<1>10. Willing(p)' => Willing(p)
  BY <1>1, <1>3 DEF Willing
<1>11. QED
  BY <1>1, <1>2, <1>3, <1>4, <1>5, <1>6, <1>7, <1>8, <1>9, <1>10 DEF SleepGood

\* The SCHED_LOCK section of sleep_finish(): the checks around mi_switch()
\* hold, and only a thread that is still queued sleeps.
LEMMA FinishLockedGood ==
    ASSUME Chan = Thread, SleepTypeOK, NEW p \in Thread, SleepGood(p), FinishLocked(p)
    PROVE  Kept(p) /\ sf[p].pc = "lock" /\ sf'[p].pc \in {"switched", "timeout"}
<1> USE NULLAssumption
<1>1. PICK sleepy, switch, l :
         /\ sleepy = (sf[p].do_sleep /\ p_wchan[p] # NULL)
         /\ switch = (sleepy \/ p_stat[p] = "SSTOP")
         /\ l = IF switch THEN "switched" ELSE "timeout"
  OBVIOUS
<1>2. /\ sf[p].pc = "lock" /\ sf' = [sf EXCEPT ![p].pc = l] /\ l \in SleepPC
      /\ l \in {"switched", "timeout"}
      /\ UNCHANGED <<p_siglist, ps_siglist, sleep_to>>
  BY <1>1 DEF FinishLocked, SleepPC
<1>3. /\ p_flag' = [p_flag EXCEPT ![p] = p_flag[p] \ {"P_INSCHED"}]
      /\ p_flag'[p] = p_flag[p] \ {"P_INSCHED"}
  BY DEF FinishLocked, SleepTypeOK
<1>4. p_stat' = [p_stat EXCEPT ![p] =
         IF switch THEN IF p_stat[p] \in {"SSLEEP", "SSTOP"} THEN p_stat[p] ELSE "PANIC"
         ELSE IF p_stat[p] \in {"SONPROC", "SSLEEP"} THEN "SONPROC" ELSE "PANIC"]
  BY <1>1 DEF FinishLocked
<1>5. p_stat'[p] =
         IF switch THEN IF p_stat[p] \in {"SSLEEP", "SSTOP"} THEN p_stat[p] ELSE "PANIC"
         ELSE IF p_stat[p] \in {"SONPROC", "SSLEEP"} THEN "SONPROC" ELSE "PANIC"
  BY <1>4 DEF SleepTypeOK
<1>6. /\ slpque' \in [Chan -> Seq(Thread)] /\ p_wchan' \in [Thread -> Chan \cup {NULL}]
      /\ \A q \in Thread \ {p} : slpque'[q] = slpque[q] /\ p_wchan'[q] = p_wchan[q]
      /\ IF sleepy THEN slpque'[p] = slpque[p] /\ p_wchan'[p] = p_wchan[p]
         ELSE slpque'[p] = <<>> /\ p_wchan'[p] = NULL
  <2>1. CASE sleepy
    BY <1>1, <2>1 DEF FinishLocked, SleepTypeOK
  <2>2. CASE ~sleepy
    <3>1. unsleep(p)
      BY <1>1, <2>2 DEF FinishLocked
    <3>2. QED
      BY <2>2, <3>1, UnsleepEffect DEF SleepGood
  <2>3. QED
    BY <2>1, <2>2
<1>7. /\ sf'[p].pc = l /\ sf'[p].timed = sf[p].timed /\ sf'[p].catch = sf[p].catch
      /\ sf'[p].do_sleep = sf[p].do_sleep
  BY <1>2, MoveEffect
<1>8. SleepTypeOK'
  <2>1. p_stat' \in [Thread -> Stat] /\ p_flag' \in [Thread -> SUBSET Flag]
    BY <1>3, <1>4 DEF SleepTypeOK, Stat
  <2>2. QED
    BY <1>2, <1>6, <2>1, MoveEffect, TypesPrimed DEF SleepTypeOK
<1>9. Others(p)
  BY <1>2, <1>3, <1>4, <1>6, MoveEffect DEF SleepTypeOK, Others
<1>10. Placed(p)'
  BY <1>1, <1>2, <1>5, <1>6, <1>7 DEF SleepGood, Placed
<1>11. Scheduled(p)'
  BY <1>1, <1>2, <1>3, <1>5, <1>6, <1>7 DEF SleepGood, Scheduled, Placed, SleepTypeOK, Stat
<1>12. Interruptible(p)'
  BY <1>1, <1>2, <1>3, <1>6, <1>7 DEF SleepGood, Interruptible, Pending
<1>13. Timed(p)'
  BY <1>1, <1>2, <1>3, <1>6, <1>7 DEF SleepGood, Timed
<1>14. (p_stat[p] # "PANIC" => p_stat'[p] # "PANIC") /\ (Willing(p)' => Willing(p))
  BY <1>1, <1>2, <1>5, <1>6, <1>7 DEF SleepGood, Scheduled, Placed, Willing, SleepTypeOK, Stat
<1>15. QED
  BY <1>2, <1>7, <1>8, <1>9, <1>10, <1>11, <1>12, <1>13, <1>14 DEF SleepGood, Kept

\* mi_switch() returns, in sleep_finish() or in proc_stop_finish().
LEMMA SwitchtoGood ==
    ASSUME Chan = Thread, SleepTypeOK, NEW p \in Thread, SleepGood(p), Switchto(p)
    PROVE  /\ Kept(p)
           /\ \/ sf[p].pc = "switched" /\ sf'[p].pc = "timeout"
              \/ sf[p].pc = "userswtch" /\ sf'[p].pc = "run"
<1> USE NULLAssumption
<1>1. PICK l : l = IF sf[p].pc = "switched" THEN "timeout" ELSE "run"
  OBVIOUS
<1>2. /\ sf[p].pc \in {"switched", "userswtch"} /\ l \in SleepPC
      /\ sf' = [sf EXCEPT ![p].pc = l] /\ p_stat[p] = "SRUN"
      /\ UNCHANGED <<slpque, p_wchan, p_flag, p_siglist, ps_siglist, sleep_to>>
  BY <1>1 DEF Switchto, SleepPC
<1>3. /\ p_stat' = [p_stat EXCEPT ![p] = "SONPROC"] /\ p_stat'[p] = "SONPROC"
      /\ p_stat' \in [Thread -> Stat]
  BY DEF Switchto, SleepTypeOK, Stat
<1>4. /\ sf'[p].pc = l /\ sf'[p].timed = sf[p].timed /\ sf'[p].catch = sf[p].catch
      /\ sf'[p].do_sleep = sf[p].do_sleep
  BY <1>2, MoveEffect
<1>5. SleepTypeOK'
  BY <1>2, <1>3, MoveEffect, TypesPrimed DEF SleepTypeOK
<1>6. Others(p)
  BY <1>2, <1>3, MoveEffect DEF SleepTypeOK, Others
<1>7. p_wchan[p] = NULL
  BY <1>2 DEF SleepGood, Placed
<1>8. Placed(p)'
  BY <1>2, <1>7 DEF SleepGood, Placed
<1>9. Scheduled(p)'
  BY <1>1, <1>2, <1>3, <1>4 DEF SleepGood, Scheduled
<1>10. Interruptible(p)'
  BY <1>1, <1>2, <1>4 DEF SleepGood, Interruptible
<1>11. Timed(p)'
  BY <1>1, <1>2, <1>4 DEF SleepGood, Timed
<1>12. ~Willing(p)'
  BY <1>2, <1>7 DEF Willing
<1>13. QED
  BY <1>1, <1>2, <1>3, <1>4, <1>5, <1>6, <1>8, <1>9, <1>10, <1>11, <1>12 DEF SleepGood, Kept

\* sleep_finish() is done with its timeout: it never fired, was cancelled, or
\* has run to its end.
LEMMA CancelTimeoutGood ==
    ASSUME Chan = Thread, SleepTypeOK, NEW p \in Thread, SleepGood(p), CancelTimeout(p)
    PROVE  Kept(p) /\ sf[p].pc = "timeout" /\ sf'[p].pc \in {"recheck", "done"}
<1> USE NULLAssumption
<1>1. /\ sf[p].pc = "timeout" /\ AfterTimeout(p) \in {"recheck", "done"}
      /\ UNCHANGED <<slpque, p_wchan, p_stat, p_siglist, ps_siglist>>
  BY DEF CancelTimeout, AfterTimeout
<1>2. PICK l \in SleepPC : l = AfterTimeout(p) /\ l \in {"recheck", "done"}
  BY <1>1 DEF SleepPC
<1>3. PICK r : r = sf[p]
  OBVIOUS
<1>4. r \in [pc : SleepPC, timed : BOOLEAN, do_sleep : BOOLEAN, catch : BOOLEAN, error : Error]
  BY <1>3 DEF SleepTypeOK
<1>5. /\ sf' \in [Thread -> [pc : SleepPC, timed : BOOLEAN, do_sleep : BOOLEAN,
                             catch : BOOLEAN, error : Error]]
      /\ sf'[p].pc = l /\ sf'[p].timed = sf[p].timed /\ sf'[p].catch = sf[p].catch
      /\ sf'[p].do_sleep = sf[p].do_sleep
      /\ \A q \in Thread \ {p} : sf'[q] = sf[q]
  <2>1. CASE sf' = [sf EXCEPT ![p].pc = AfterTimeout(p)]
    BY <1>2, <2>1, MoveEffect
  <2>2. CASE sf' = [sf EXCEPT ![p] =
                [@ EXCEPT !.pc = AfterTimeout(p),
                          !.error = IF sf[p].error = "0" /\ "P_TIMEOUT" \in p_flag[p]
                                    THEN "EWOULDBLOCK" ELSE sf[p].error]]
    <3>1. PICK e \in Error : e = IF sf[p].error = "0" /\ "P_TIMEOUT" \in p_flag[p]
                                 THEN "EWOULDBLOCK" ELSE sf[p].error
      BY <1>3, <1>4 DEF Error
    <3>2. sf' = [sf EXCEPT ![p] = [r EXCEPT !.pc = l, !.error = e]]
      BY <1>2, <1>3, <2>2, <3>1
    <3>3. QED
      BY <1>2, <1>3, <1>4, <3>2 DEF SleepTypeOK
  <2>3. QED
    BY <2>1, <2>2 DEF CancelTimeout
<1>6. /\ p_flag' \in [Thread -> SUBSET Flag] /\ sleep_to' \in [Thread -> Timeout]
      /\ \A q \in Thread \ {p} : p_flag'[q] = p_flag[q] /\ sleep_to'[q] = sleep_to[q]
      /\ p_flag'[p] \subseteq p_flag[p] /\ "P_SINTR" \notin p_flag'[p]
      /\ \A x \in {"P_SUSPSIG", "P_INSCHED"} : x \in p_flag[p] <=> x \in p_flag'[p]
  <2>1. p_flag \in [Thread -> SUBSET Flag] /\ sleep_to \in [Thread -> Timeout] /\ "off" \in Timeout
    BY DEF SleepTypeOK, Timeout
  <2>2. sleep_to' = sleep_to \/ sleep_to' = [sleep_to EXCEPT ![p] = "off"]
    BY DEF CancelTimeout
  <2>3. PICK D : /\ p_flag' = [p_flag EXCEPT ![p] = p_flag[p] \ D]
                 /\ D = {"P_SINTR"} \/ D = {"P_SINTR", "P_TIMEOUT", "P_TIMEOUTRAN"}
    BY DEF CancelTimeout
  <2>4. p_flag' \in [Thread -> SUBSET Flag] /\ p_flag'[p] = p_flag[p] \ D
    BY <2>1, <2>3
  <2>5. \A q \in Thread \ {p} : p_flag'[q] = p_flag[q] /\ sleep_to'[q] = sleep_to[q]
    BY <2>1, <2>2, <2>3
  <2>6. sleep_to' \in [Thread -> Timeout]
    BY <2>1, <2>2
  <2>7. QED
    BY <2>3, <2>4, <2>5, <2>6
<1>7. SleepTypeOK'
  BY <1>1, <1>5, <1>6, TypesPrimed DEF SleepTypeOK
<1>8. Others(p)
  BY <1>1, <1>5, <1>6 DEF Others
<1>9. p_wchan[p] = NULL
  BY <1>1 DEF SleepGood, Placed
<1>10. Placed(p)'
  BY <1>1, <1>9 DEF SleepGood, Placed
<1>11. Scheduled(p)'
  BY <1>1, <1>2, <1>5, <1>6 DEF SleepGood, Scheduled
<1>12. Interruptible(p)'
  BY <1>1, <1>2, <1>5, <1>6 DEF SleepGood, Interruptible
<1>13. Timed(p)'
  <2>1. sleep_to'[p] = "off" /\ p_flag'[p] \cap {"P_TIMEOUT", "P_TIMEOUTRAN"} = {}
    BY <1>1 DEF CancelTimeout, SleepGood, Timed, SleepTypeOK
  <2>2. QED
    BY <1>2, <1>5, <2>1 DEF Timed
<1>14. ~Willing(p)'
  BY <1>1, <1>9 DEF Willing
<1>15. QED
  BY <1>1, <1>2, <1>5, <1>7, <1>8, <1>10, <1>11, <1>12, <1>13, <1>14 DEF SleepGood, Kept

\* sleep_signal_check(p, 1).
LEMMA CheckAfterGood ==
    ASSUME Chan = Thread, SleepTypeOK, NEW p \in Thread, SleepGood(p), CheckAfter(p)
    PROVE  Kept(p) /\ sf[p].pc = "recheck" /\ sf'[p].pc = "done"
<1> USE NULLAssumption
<1>1. /\ sf[p].pc = "recheck" /\ cursigDeep(p)
      /\ UNCHANGED <<slpque, p_wchan, p_stat, p_flag, sleep_to>>
  BY DEF CheckAfter
<1>2. PICK r : r = sf[p]
  OBVIOUS
<1>3. /\ r \in [pc : SleepPC, timed : BOOLEAN, do_sleep : BOOLEAN, catch : BOOLEAN, error : Error]
      /\ SignalError(p) \in Error /\ "done" \in SleepPC
  BY <1>2 DEF SleepTypeOK, SignalError, Error, SleepPC
<1>4. PICK e \in Error : e = IF SignalError(p) # "0" THEN SignalError(p) ELSE sf[p].error
  BY <1>2, <1>3
<1>5. sf' = [sf EXCEPT ![p] = [r EXCEPT !.pc = "done", !.error = e]]
  BY <1>2, <1>4 DEF CheckAfter
<1>6. /\ sf' \in [Thread -> [pc : SleepPC, timed : BOOLEAN, do_sleep : BOOLEAN,
                             catch : BOOLEAN, error : Error]]
      /\ sf'[p].pc = "done" /\ sf'[p].timed = sf[p].timed /\ sf'[p].catch = sf[p].catch
      /\ \A q \in Thread \ {p} : sf'[q] = sf[q]
  BY <1>2, <1>3, <1>4, <1>5 DEF SleepTypeOK
<1>7. SleepTypeOK'
  BY <1>1, <1>6, cursigEffect, TypesPrimed DEF SleepTypeOK
<1>8. Others(p)
  BY <1>1, <1>6, cursigEffect DEF Others
<1>9. p_wchan[p] = NULL
  BY <1>1 DEF SleepGood, Placed
<1>10. Placed(p)'
  BY <1>1, <1>9 DEF SleepGood, Placed
<1>11. Scheduled(p)'
  BY <1>1, <1>6 DEF SleepGood, Scheduled
<1>12. Interruptible(p)'
  BY <1>1, <1>6 DEF SleepGood, Interruptible
<1>13. Timed(p)'
  BY <1>1, <1>6 DEF SleepGood, Timed
<1>14. ~Willing(p)'
  BY <1>1, <1>9 DEF Willing
<1>15. QED
  BY <1>1, <1>6, <1>7, <1>8, <1>10, <1>11, <1>12, <1>13, <1>14 DEF SleepGood, Kept

\* sleep_finish() has returned.
LEMMA SleepReturnedGood ==
    ASSUME Chan = Thread, SleepTypeOK, NEW p \in Thread, SleepGood(p), SleepReturned(p)
    PROVE  Kept(p) /\ sf[p].pc = "done" /\ sf'[p].pc = "run"
<1> USE NULLAssumption
<1>1. /\ sf[p].pc = "done"
      /\ UNCHANGED <<slpque, p_wchan, p_stat, p_flag, p_siglist, ps_siglist, sleep_to>>
  BY DEF SleepReturned
<1>2. PICK r \in [pc : SleepPC, timed : BOOLEAN, do_sleep : BOOLEAN, catch : BOOLEAN, error : Error] :
         r = [pc |-> "run", timed |-> FALSE, do_sleep |-> FALSE, catch |-> FALSE, error |-> "0"]
  BY DEF SleepPC, Error
<1>3. sf' = [sf EXCEPT ![p] = r]
  BY <1>2 DEF SleepReturned
<1>4. /\ sf' \in [Thread -> [pc : SleepPC, timed : BOOLEAN, do_sleep : BOOLEAN,
                             catch : BOOLEAN, error : Error]]
      /\ sf'[p] = r /\ \A q \in Thread \ {p} : sf'[q] = sf[q]
  BY <1>2, <1>3 DEF SleepTypeOK
<1>5. sf'[p].pc = "run" /\ ~sf'[p].timed
  BY <1>2, <1>4
<1>6. SleepTypeOK' /\ Others(p)
  BY <1>1, <1>4, TypesPrimed DEF SleepTypeOK, Others
<1>7. p_wchan[p] = NULL
  BY <1>1 DEF SleepGood, Placed
<1>8. Placed(p)' /\ ~Willing(p)'
  BY <1>1, <1>7 DEF SleepGood, Placed, Willing
<1>9. Scheduled(p)' /\ Interruptible(p)'
  BY <1>1, <1>5 DEF SleepGood, Scheduled, Interruptible
<1>10. Timed(p)'
  BY <1>1, <1>5 DEF SleepGood, Timed
<1>11. QED
  BY <1>1, <1>5, <1>6, <1>8, <1>9, <1>10 DEF SleepGood, Kept

-----------------------------------------------------------------------------
(* Waking up: wakeup_one, the timeout and signals.                         *)

\* wakeup_one() finds a sleeping or stopped thread.
LEMMA WakeupGood ==
    ASSUME Chan = Thread, SleepTypeOK, NEW p \in Thread, SleepGood(p), wakeup_n(p, 1)
    PROVE  Kept(p) /\ sf' = sf /\ ~Willing(p)'
<1> USE NULLAssumption
<1>1. /\ slpque' \in [Chan -> Seq(Thread)] /\ p_wchan' \in [Thread -> Chan \cup {NULL}]
      /\ p_stat' \in [Thread -> Stat] /\ slpque'[p] = <<>> /\ p_wchan'[p] = NULL
      /\ p_stat'[p] = IF p_wchan[p] = NULL \/ p_stat[p] = "SSTOP" THEN p_stat[p]
                      ELSE IF p_stat[p] # "SSLEEP" THEN "PANIC"
                      ELSE IF "P_INSCHED" \in p_flag[p] THEN "SSLEEP" ELSE "SRUN"
      /\ UNCHANGED <<p_flag, p_siglist, ps_siglist, sleep_to, sf>>
      /\ \A q \in Thread \ {p} :
            slpque'[q] = slpque[q] /\ p_wchan'[q] = p_wchan[q] /\ p_stat'[q] = p_stat[q]
  BY WakeupEffect DEF SleepGood
<1>2. SleepTypeOK' /\ Others(p)
  BY <1>1, TypesPrimed DEF SleepTypeOK, Others
<1>3. Placed(p)' /\ ~Willing(p)'
  BY <1>1 DEF Placed, Willing
<1>4. Scheduled(p)'
  BY <1>1 DEF SleepGood, Scheduled, Placed
<1>5. Interruptible(p)'
  BY <1>1 DEF SleepGood, Interruptible
<1>6. Timed(p)'
  BY <1>1 DEF SleepGood, Timed
<1>7. p_stat[p] # "PANIC" => p_stat'[p] # "PANIC"
  BY <1>1 DEF SleepGood, Placed
<1>8. QED
  BY <1>1, <1>2, <1>3, <1>4, <1>5, <1>6, <1>7 DEF SleepGood, Kept

\* softclock() takes the timeout off the wheel.
LEMMA softclockGood ==
    ASSUME Chan = Thread, SleepTypeOK, NEW p \in Thread, SleepGood(p), softclock(p)
    PROVE  Kept(p) /\ sf' = sf
<1> USE NULLAssumption
<1>1. /\ sleep_to[p] = "armed" /\ sleep_to' \in [Thread -> Timeout] /\ sleep_to'[p] = "firing"
      /\ UNCHANGED <<slpque, p_wchan, p_stat, p_flag, p_siglist, ps_siglist, sf>>
      /\ \A q \in Thread \ {p} : sleep_to'[q] = sleep_to[q]
  BY DEF softclock, SleepTypeOK, Timeout
<1>2. SleepTypeOK' /\ Others(p)
  BY <1>1, TypesPrimed DEF SleepTypeOK, Others
<1>3. Placed(p)' /\ (Willing(p)' => Willing(p))
  BY <1>1 DEF SleepGood, Placed, Willing
<1>4. Scheduled(p)' /\ Interruptible(p)'
  BY <1>1 DEF SleepGood, Scheduled, Interruptible, Pending
<1>5. Timed(p)'
  BY <1>1 DEF SleepGood, Timed
<1>6. QED
  BY <1>1, <1>2, <1>3, <1>4, <1>5 DEF SleepGood, Kept

\* endtsleep() wakes the thread, if it still sleeps.
LEMMA EndtsleepWakeGood ==
    ASSUME Chan = Thread, SleepTypeOK, NEW p \in Thread, SleepGood(p), EndtsleepWake(p)
    PROVE  Kept(p) /\ sf' = sf
<1> USE NULLAssumption
<1>1. /\ sleep_to[p] = "firing" /\ unsleep(p)
      /\ UNCHANGED <<p_flag, p_siglist, ps_siglist, sf>>
  BY DEF EndtsleepWake
<1>2. /\ slpque' \in [Chan -> Seq(Thread)] /\ p_wchan' \in [Thread -> Chan \cup {NULL}]
      /\ slpque'[p] = <<>> /\ p_wchan'[p] = NULL
      /\ \A q \in Thread \ {p} : slpque'[q] = slpque[q] /\ p_wchan'[q] = p_wchan[q]
  BY <1>1, UnsleepEffect DEF SleepGood
<1>3. /\ sleep_to' \in [Thread -> Timeout] /\ sleep_to'[p] \in {"woke", "missed"}
      /\ \A q \in Thread \ {p} : sleep_to'[q] = sleep_to[q]
  BY DEF EndtsleepWake, SleepTypeOK, Timeout
<1>4. PICK st \in Stat : st = IF p_wchan[p] # NULL /\ p_stat[p] # "SSTOP"
                              THEN Setrunnable(p, NULL) ELSE p_stat[p]
  BY DEF Setrunnable, Stat, SleepTypeOK
<1>5. p_stat' = [p_stat EXCEPT ![p] = st]
  BY <1>4 DEF EndtsleepWake, SleepTypeOK
<1>6. /\ p_stat' \in [Thread -> Stat] /\ p_stat'[p] = st
      /\ \A q \in Thread \ {p} : p_stat'[q] = p_stat[q]
  BY <1>5 DEF SleepTypeOK
<1>7. st = IF p_wchan[p] = NULL \/ p_stat[p] = "SSTOP" THEN p_stat[p]
           ELSE IF p_stat[p] # "SSLEEP" THEN "PANIC"
           ELSE IF "P_INSCHED" \in p_flag[p] THEN "SSLEEP" ELSE "SRUN"
  BY <1>4 DEF Setrunnable
<1>8. SleepTypeOK' /\ Others(p)
  BY <1>1, <1>2, <1>3, <1>6, TypesPrimed DEF SleepTypeOK, Others
<1>9. Placed(p)' /\ ~Willing(p)'
  BY <1>2 DEF Placed, Willing
<1>10. Scheduled(p)'
  BY <1>1, <1>2, <1>6, <1>7 DEF SleepGood, Scheduled, Placed
<1>11. Interruptible(p)'
  BY <1>1, <1>2 DEF SleepGood, Interruptible
<1>12. Timed(p)'
  BY <1>1, <1>2, <1>3 DEF SleepGood, Timed
<1>13. p_stat[p] # "PANIC" => p_stat'[p] # "PANIC"
  BY <1>6, <1>7 DEF SleepGood, Placed
<1>14. QED
  BY <1>1, <1>8, <1>9, <1>10, <1>11, <1>12, <1>13 DEF SleepGood, Kept

\* endtsleep() tells sleep_finish() that it has run.
LEMMA EndtsleepFlagsGood ==
    ASSUME Chan = Thread, SleepTypeOK, NEW p \in Thread, SleepGood(p), EndtsleepFlags(p)
    PROVE  Kept(p) /\ sf' = sf
<1> USE NULLAssumption
<1>1. /\ sleep_to[p] \in {"woke", "missed"}
      /\ UNCHANGED <<slpque, p_wchan, p_stat, p_siglist, ps_siglist, sf>>
  BY DEF EndtsleepFlags
<1>2. PICK F \in SUBSET Flag :
         /\ F = p_flag[p] \cup {"P_TIMEOUTRAN"} \cup
                   (IF sleep_to[p] = "woke" THEN {"P_TIMEOUT"} ELSE {})
         /\ p_flag' = [p_flag EXCEPT ![p] = F]
  BY DEF EndtsleepFlags, SleepTypeOK, Flag
<1>3. /\ p_flag' \in [Thread -> SUBSET Flag] /\ p_flag'[p] = F
      /\ sleep_to' \in [Thread -> Timeout] /\ sleep_to'[p] = "off"
      /\ \A q \in Thread \ {p} : sleep_to'[q] = sleep_to[q] /\ p_flag'[q] = p_flag[q]
  BY <1>2 DEF EndtsleepFlags, SleepTypeOK, Timeout
<1>4. SleepTypeOK' /\ Others(p)
  BY <1>1, <1>3, TypesPrimed DEF SleepTypeOK, Others
<1>5. "P_TIMEOUTRAN" \in F /\ \A x \in {"P_SUSPSIG", "P_INSCHED", "P_SINTR"} : x \in F <=> x \in p_flag[p]
  BY <1>2
<1>6. Placed(p)' /\ (Willing(p)' => Willing(p))
  BY <1>1 DEF SleepGood, Placed, Willing
<1>7. Scheduled(p)'
  BY <1>1, <1>3, <1>5 DEF SleepGood, Scheduled
<1>8. Interruptible(p)'
  BY <1>1, <1>3, <1>5 DEF SleepGood, Interruptible, Pending
<1>9. Timed(p)'
  BY <1>1, <1>3, <1>5 DEF SleepGood, Timed
<1>10. QED
  BY <1>1, <1>4, <1>6, <1>7, <1>8, <1>9 DEF SleepGood, Kept

\* What ptsignal() does to the thread it finds.
LEMMA SignalEffect ==
    ASSUME Chan = Thread, SleepTypeOK, NEW p \in Thread, SleepGood(p), NEW s \in Signal,
           ptsignal(p, s)
    PROVE  /\ slpque' \in [Chan -> Seq(Thread)] /\ p_wchan' \in [Thread -> Chan \cup {NULL}]
           /\ p_stat' \in [Thread -> Stat] /\ p_flag' \in [Thread -> SUBSET Flag]
           /\ \A q \in Thread \ {p} :
                 /\ slpque'[q] = slpque[q] /\ p_wchan'[q] = p_wchan[q]
                 /\ p_stat'[q] = p_stat[q] /\ p_flag'[q] = p_flag[q]
           /\ \/ /\ slpque'[p] = slpque[p] /\ p_wchan'[p] = p_wchan[p]
                 /\ p_stat'[p] = p_stat[p] /\ p_flag'[p] = p_flag[p]
                 /\ s = "INTR" => p_wchan[p] = NULL \/ "P_SINTR" \notin p_flag[p]
              \/ /\ s = "INTR" /\ p_stat[p] = "SSLEEP"
                 /\ slpque'[p] = <<>> /\ p_wchan'[p] = NULL /\ p_flag'[p] = p_flag[p]
                 /\ p_stat'[p] = IF "P_INSCHED" \in p_flag[p] THEN "SSLEEP" ELSE "SRUN"
              \/ /\ s = "INTR" /\ p_stat[p] = "SSTOP"
                 /\ slpque'[p] = <<>> /\ p_wchan'[p] = NULL
                 /\ p_flag'[p] = p_flag[p] /\ p_stat'[p] = p_stat[p]
              \/ /\ s = "STOP" /\ p_stat[p] = "SSLEEP"
                 /\ slpque'[p] = slpque[p] /\ p_wchan'[p] = p_wchan[p]
                 /\ p_flag'[p] = p_flag[p] \cup {"P_SUSPSIG"} /\ p_stat'[p] = "SSTOP"
              \/ /\ s = "CONT" /\ p_stat[p] = "SSTOP"
                 /\ slpque'[p] = slpque[p] /\ p_wchan'[p] = p_wchan[p]
                 /\ p_flag'[p] = p_flag[p] \ {"P_SUSPSIG"}
                 /\ p_stat'[p] = IF p_wchan[p] # NULL THEN "SSLEEP"
                                 ELSE IF "P_INSCHED" \in p_flag[p] THEN "SONPROC" ELSE "SRUN"
<1> USE NULLAssumption
<1>1. /\ slpque \in [Chan -> Seq(Thread)] /\ p_wchan \in [Thread -> Chan \cup {NULL}]
      /\ p_stat \in [Thread -> Stat] /\ p_flag \in [Thread -> SUBSET Flag]
      /\ {"SSLEEP", "SRUN", "SSTOP", "SONPROC"} \subseteq Stat /\ "P_SUSPSIG" \in Flag
  BY DEF SleepTypeOK, Stat, Flag
<1>2. CASE /\ UNCHANGED <<slpque, p_wchan, p_stat, p_flag>>
           /\ s = "INTR" => p_wchan[p] = NULL \/ "P_SINTR" \notin p_flag[p]
  BY <1>1, <1>2
<1>3. CASE p_stat[p] = "SSLEEP" /\ SignalSleeping(p, s) /\ "P_SINTR" \in p_flag[p]
  <2>1. CASE s = "INTR"
    <3>1. /\ unsleep(p) /\ p_flag' = p_flag
          /\ p_stat' = [p_stat EXCEPT ![p] = Setrunnable(p, NULL)]
      BY <1>3, <2>1 DEF SignalSleeping
    <3>2. PICK st \in Stat : /\ st = Setrunnable(p, NULL)
                             /\ st = IF "P_INSCHED" \in p_flag[p] THEN "SSLEEP" ELSE "SRUN"
      BY <1>1, <1>3 DEF Setrunnable
    <3>3. /\ p_stat' \in [Thread -> Stat] /\ p_stat'[p] = st
          /\ \A q \in Thread \ {p} : p_stat'[q] = p_stat[q]
      BY <1>1, <3>1, <3>2
    <3>4. /\ slpque' \in [Chan -> Seq(Thread)] /\ p_wchan' \in [Thread -> Chan \cup {NULL}]
          /\ slpque'[p] = <<>> /\ p_wchan'[p] = NULL
          /\ \A q \in Thread \ {p} : slpque'[q] = slpque[q] /\ p_wchan'[q] = p_wchan[q]
      BY <3>1, UnsleepEffect DEF SleepGood
    <3>5. QED
      BY <1>1, <1>3, <2>1, <3>1, <3>2, <3>3, <3>4
  <2>2. CASE s = "STOP"
    <3>1. /\ p_stat' = [p_stat EXCEPT ![p] = "SSTOP"] /\ UNCHANGED <<slpque, p_wchan>>
          /\ p_flag' = [p_flag EXCEPT ![p] = p_flag[p] \cup {"P_SUSPSIG"}]
      BY <1>3, <2>2 DEF SignalSleeping
    <3>2. QED
      BY <1>1, <1>3, <2>2, <3>1
  <2>3. CASE s = "CONT"
    BY <1>2, <1>3, <2>3 DEF SignalSleeping
  <2>4. QED
    BY <2>1, <2>2, <2>3 DEF Signal
<1>4. CASE p_stat[p] = "SSLEEP" /\ SignalSleeping(p, s) /\ "P_SINTR" \notin p_flag[p]
  BY <1>2, <1>4 DEF SignalSleeping
<1>5. CASE p_stat[p] = "SSTOP" /\ SignalStopped(p, s)
  <2>1. CASE s = "INTR" /\ "P_SINTR" \in p_flag[p]
    <3>1. unsleep(p) /\ UNCHANGED <<p_stat, p_flag>>
      BY <1>5, <2>1 DEF SignalStopped
    <3>2. /\ slpque' \in [Chan -> Seq(Thread)] /\ p_wchan' \in [Thread -> Chan \cup {NULL}]
          /\ slpque'[p] = <<>> /\ p_wchan'[p] = NULL
          /\ \A q \in Thread \ {p} : slpque'[q] = slpque[q] /\ p_wchan'[q] = p_wchan[q]
      BY <3>1, UnsleepEffect DEF SleepGood
    <3>3. QED
      BY <1>1, <1>5, <2>1, <3>1, <3>2
  <2>2. CASE s = "INTR" /\ "P_SINTR" \notin p_flag[p]
    BY <1>2, <1>5, <2>2 DEF SignalStopped
  <2>3. CASE s = "STOP"
    BY <1>2, <1>5, <2>3 DEF SignalStopped
  <2>4. CASE s = "CONT"
    <3>1. process_continue(p) /\ UNCHANGED <<slpque, p_wchan>> /\ "P_SUSPSIG" \in p_flag[p]
      BY <1>5, <2>4 DEF SignalStopped, SleepGood, Scheduled
    <3>2. PICK st \in Stat :
             /\ st = IF p_wchan[p] = NULL THEN Setrunnable(p, NULL) ELSE "SSLEEP"
             /\ st = IF p_wchan[p] # NULL THEN "SSLEEP"
                     ELSE IF "P_INSCHED" \in p_flag[p] THEN "SONPROC" ELSE "SRUN"
      BY <1>1, <1>5 DEF Setrunnable
    <3>3. /\ p_stat' = [p_stat EXCEPT ![p] = st]
          /\ p_flag' = [p_flag EXCEPT ![p] = p_flag[p] \ {"P_SUSPSIG"}]
      BY <3>1, <3>2 DEF process_continue
    <3>4. /\ p_stat' \in [Thread -> Stat] /\ p_stat'[p] = st
          /\ p_flag' \in [Thread -> SUBSET Flag] /\ p_flag'[p] = p_flag[p] \ {"P_SUSPSIG"}
          /\ \A q \in Thread \ {p} : p_stat'[q] = p_stat[q] /\ p_flag'[q] = p_flag[q]
      BY <1>1, <3>3
    <3>5. QED
      BY <1>1, <1>5, <2>4, <3>1, <3>2, <3>4
  <2>5. QED
    BY <2>1, <2>2, <2>3, <2>4 DEF Signal
<1>6. CASE /\ p_stat[p] \in {"SONPROC", "SRUN"}
           /\ UNCHANGED <<slpque, p_wchan, p_stat, p_flag>>
  BY <1>2, <1>6 DEF SleepGood, Placed
<1>7. QED
  BY <1>3, <1>4, <1>5, <1>6 DEF ptsignal

\* Which signals are pending after ptsignal().
LEMMA SignalPends ==
    ASSUME SleepTypeOK, NEW p \in Thread, NEW s \in Signal, ptsignal(p, s)
    PROVE  /\ p_siglist' \in [Thread -> SUBSET Signal]
           /\ ps_siglist' \in [Thread -> SUBSET Signal]
           /\ p_siglist'[p] = IF s = "INTR" THEN p_siglist[p] \cup {s} ELSE p_siglist[p]
           /\ s = "INTR" => ps_siglist'[p] = ps_siglist[p]
           /\ ps_siglist'[p] \subseteq ps_siglist[p] \cup {s}
           /\ s # "INTR" /\ Consumed(p, s) => s \notin ps_siglist'[p] \/ s \in ps_siglist[p]
           /\ \A q \in Thread \ {p} :
                 p_siglist'[q] = p_siglist[q] /\ ps_siglist'[q] = ps_siglist[q]
<1>1. p_siglist \in [Thread -> SUBSET Signal] /\ ps_siglist \in [Thread -> SUBSET Signal]
  BY DEF SleepTypeOK
<1>2. PICK S : S = (CASE s = "INTR" -> ps_siglist[p]
            [] s = "STOP" -> (ps_siglist[p] \ {"CONT"}) \cup
                             (IF Consumed(p, s) THEN {} ELSE {s})
            [] s = "CONT" -> (ps_siglist[p] \ {"STOP"}) \cup
                             (IF Consumed(p, s) THEN {} ELSE {s}))
  OBVIOUS
<1>3. /\ S \subseteq ps_siglist[p] \cup {s} /\ S \in SUBSET Signal
      /\ s = "INTR" => S = ps_siglist[p]
      /\ s # "INTR" /\ Consumed(p, s) => s \notin S \/ s \in ps_siglist[p]
  <2>1. ps_siglist[p] \in SUBSET Signal
    BY <1>1
  <2>2. CASE s = "INTR"
    BY <1>2, <2>1, <2>2
  <2>3. CASE s = "STOP"
    BY <1>2, <2>1, <2>3
  <2>4. CASE s = "CONT"
    BY <1>2, <2>1, <2>4
  <2>5. QED
    BY <2>2, <2>3, <2>4 DEF Signal
<1>4. /\ p_siglist' = IF s = "INTR" THEN [p_siglist EXCEPT ![p] = p_siglist[p] \cup {s}]
                      ELSE p_siglist
      /\ ps_siglist' = [ps_siglist EXCEPT ![p] = S]
  BY <1>2 DEF ptsignal
<1>5. QED
  BY <1>1, <1>3, <1>4

\* ptsignal() ends a sleep that is to be interrupted, and stops or continues a
\* thread without losing it on the way.
LEMMA SignalGood ==
    ASSUME Chan = Thread, SleepTypeOK, NEW p \in Thread, SleepGood(p), NEW s \in Signal,
           ptsignal(p, s)
    PROVE  Kept(p) /\ sf' = sf
<1> USE NULLAssumption
<1>1. UNCHANGED <<sleep_to, sf>>
  BY DEF ptsignal
<1>2. SleepTypeOK' /\ Others(p)
  <2>1. /\ slpque' \in [Chan -> Seq(Thread)] /\ p_wchan' \in [Thread -> Chan \cup {NULL}]
        /\ p_stat' \in [Thread -> Stat] /\ p_flag' \in [Thread -> SUBSET Flag]
        /\ \A q \in Thread \ {p} :
              /\ slpque'[q] = slpque[q] /\ p_wchan'[q] = p_wchan[q]
              /\ p_stat'[q] = p_stat[q] /\ p_flag'[q] = p_flag[q]
    BY SignalEffect
  <2>2. /\ p_siglist' \in [Thread -> SUBSET Signal] /\ ps_siglist' \in [Thread -> SUBSET Signal]
        /\ \A q \in Thread \ {p} :
              p_siglist'[q] = p_siglist[q] /\ ps_siglist'[q] = ps_siglist[q]
    BY SignalPends
  <2>3. QED
    BY <1>1, <2>1, <2>2, TypesPrimed DEF SleepTypeOK, Others
<1>4. Placed(p)' /\ (Willing(p)' => Willing(p))
  BY <1>1, SignalEffect DEF SleepGood, Placed, Willing
<1>5. Scheduled(p)'
  BY <1>1, SignalEffect DEF SleepGood, Scheduled, Placed
<1>6. Interruptible(p)'
  <2>1. \/ p_wchan'[p] = NULL
        \/ p_wchan'[p] = p_wchan[p] /\ (s = "INTR" => "P_SINTR" \notin p_flag[p])
    BY SignalEffect
  <2>2. "P_SINTR" \in p_flag'[p] <=> "P_SINTR" \in p_flag[p]
    BY SignalEffect
  <2>3. "INTR" \in Pending(p)' => "INTR" \in Pending(p) \/ s = "INTR"
    BY SignalPends DEF Pending
  <2>4. QED
    BY <1>1, <2>1, <2>2, <2>3 DEF SleepGood, Interruptible
<1>7. Timed(p)'
  <2>1. p_wchan'[p] = NULL \/ p_wchan'[p] = p_wchan[p]
    BY SignalEffect
  <2>2. \A x \in {"P_TIMEOUT", "P_TIMEOUTRAN"} : x \in p_flag'[p] <=> x \in p_flag[p]
    BY SignalEffect
  <2>3. QED
    BY <1>1, <2>1, <2>2 DEF SleepGood, Timed
<1>8. p_stat[p] # "PANIC" => p_stat'[p] # "PANIC"
  BY SignalEffect
<1>9. QED
  BY <1>1, <1>2, <1>4, <1>5, <1>6, <1>7, <1>8 DEF SleepGood, Kept

-----------------------------------------------------------------------------
(* The return to user mode.                                                *)

\* cursig(p, 0) takes a signal; for a stop there is more to do.
LEMMA UserretSignalGood ==
    ASSUME Chan = Thread, SleepTypeOK, NEW p \in Thread, SleepGood(p), UserretSignal(p)
    PROVE  Kept(p) /\ sf[p].pc = "run" /\ sf'[p].pc \in InUser
<1> USE NULLAssumption
<1>1. PICK s \in Pending(p) :
         /\ p_siglist' = [p_siglist EXCEPT ![p] = @ \ {s}]
         /\ ps_siglist' = [ps_siglist EXCEPT ![p] = @ \ {s}]
         /\ sf' = IF s = "STOP" THEN [sf EXCEPT ![p].pc = "userstop"] ELSE sf
  BY DEF UserretSignal
<1>2. sf[p].pc = "run" /\ UNCHANGED <<slpque, p_wchan, p_stat, p_flag, sleep_to>>
  BY DEF UserretSignal
<1>3. /\ sf' \in [Thread -> [pc : SleepPC, timed : BOOLEAN, do_sleep : BOOLEAN,
                             catch : BOOLEAN, error : Error]]
      /\ sf'[p].pc \in {"run", "userstop"} /\ sf'[p].timed = sf[p].timed
      /\ \A q \in Thread \ {p} : sf'[q] = sf[q]
  <2>1. CASE s = "STOP"
    <3>1. sf' = [sf EXCEPT ![p].pc = "userstop"] /\ "userstop" \in SleepPC
      BY <1>1, <2>1 DEF SleepPC
    <3>2. QED
      BY <3>1, MoveEffect
  <2>2. CASE s # "STOP"
    BY <1>1, <1>2, <2>2 DEF SleepTypeOK
  <2>3. QED
    BY <2>1, <2>2
<1>4. /\ p_siglist' \in [Thread -> SUBSET Signal] /\ ps_siglist' \in [Thread -> SUBSET Signal]
      /\ \A q \in Thread \ {p} : p_siglist'[q] = p_siglist[q] /\ ps_siglist'[q] = ps_siglist[q]
  BY <1>1 DEF SleepTypeOK
<1>5. SleepTypeOK' /\ Others(p)
  BY <1>2, <1>3, <1>4, TypesPrimed DEF SleepTypeOK, Others
<1>6. p_wchan[p] = NULL
  BY <1>2 DEF SleepGood, Placed
<1>7. Placed(p)' /\ ~Willing(p)'
  BY <1>2, <1>6 DEF SleepGood, Placed, Willing
<1>8. Scheduled(p)' /\ Interruptible(p)'
  BY <1>2, <1>3 DEF SleepGood, Scheduled, Interruptible
<1>9. Timed(p)'
  BY <1>2, <1>3 DEF SleepGood, Timed
<1>10. QED
  BY <1>2, <1>3, <1>5, <1>7, <1>8, <1>9 DEF SleepGood, Kept, InUser

\* process_stop() on the way to user mode: the thread was not stopped before.
LEMMA UserretStopGood ==
    ASSUME Chan = Thread, SleepTypeOK, NEW p \in Thread, SleepGood(p), UserretStop(p)
    PROVE  Kept(p) /\ sf[p].pc = "userstop" /\ sf' = sf
<1> USE NULLAssumption
<1>1. /\ sf[p].pc = "userstop" /\ "P_INSCHED" \notin p_flag[p]
      /\ UNCHANGED <<slpque, p_wchan, p_siglist, ps_siglist, sleep_to, sf>>
  BY DEF UserretStop
<1>2. /\ p_flag' \in [Thread -> SUBSET Flag] /\ p_stat' \in [Thread -> Stat]
      /\ p_flag'[p] = p_flag[p] \cup {"P_SUSPSIG", "P_INSCHED"}
      /\ p_stat'[p] = IF "P_SUSPSIG" \in p_flag[p] THEN "PANIC" ELSE "SSTOP"
      /\ \A q \in Thread \ {p} : p_flag'[q] = p_flag[q] /\ p_stat'[q] = p_stat[q]
  BY DEF UserretStop, SleepTypeOK, Flag, Stat
<1>3. SleepTypeOK' /\ Others(p)
  BY <1>1, <1>2, TypesPrimed DEF SleepTypeOK, Others
<1>4. p_wchan[p] = NULL
  BY <1>1 DEF SleepGood, Placed
<1>5. Placed(p)' /\ ~Willing(p)'
  BY <1>1, <1>4 DEF SleepGood, Placed, Willing
<1>6. Scheduled(p)' /\ Interruptible(p)'
  BY <1>1, <1>2 DEF SleepGood, Scheduled, Interruptible
<1>7. Timed(p)'
  BY <1>1, <1>2 DEF SleepGood, Timed
<1>8. p_stat[p] # "PANIC" => p_stat'[p] # "PANIC"
  BY <1>1, <1>2 DEF SleepGood, Scheduled
<1>9. QED
  BY <1>1, <1>3, <1>5, <1>6, <1>7, <1>8 DEF SleepGood, Kept

\* proc_stop_finish(): switch away, unless the process was continued.
LEMMA UserretSwitchGood ==
    ASSUME Chan = Thread, SleepTypeOK, NEW p \in Thread, SleepGood(p), UserretSwitch(p)
    PROVE  Kept(p) /\ sf[p].pc = "userstop" /\ sf'[p].pc \in InUser
<1> USE NULLAssumption
<1>1. PICK l \in SleepPC : l = IF p_stat[p] = "SSTOP" THEN "userswtch" ELSE "run"
  BY DEF SleepPC
<1>2. /\ sf[p].pc = "userstop" /\ "P_INSCHED" \in p_flag[p]
      /\ sf' = [sf EXCEPT ![p].pc = l]
      /\ UNCHANGED <<slpque, p_wchan, p_siglist, ps_siglist, sleep_to>>
  BY <1>1 DEF UserretSwitch
<1>3. /\ p_flag' \in [Thread -> SUBSET Flag] /\ p_stat' \in [Thread -> Stat]
      /\ p_flag'[p] = p_flag[p] \ {"P_INSCHED"}
      /\ p_stat'[p] = IF p_stat[p] \in {"SSTOP", "SONPROC"} THEN p_stat[p] ELSE "PANIC"
      /\ \A q \in Thread \ {p} : p_flag'[q] = p_flag[q] /\ p_stat'[q] = p_stat[q]
  BY DEF UserretSwitch, SleepTypeOK, Stat
<1>4. sf'[p].pc = l /\ sf'[p].timed = sf[p].timed
  BY <1>2, MoveEffect
<1>5. SleepTypeOK' /\ Others(p)
  BY <1>2, <1>3, MoveEffect, TypesPrimed DEF SleepTypeOK, Others
<1>6. p_wchan[p] = NULL
  BY <1>2 DEF SleepGood, Placed
<1>7. Placed(p)' /\ ~Willing(p)'
  BY <1>2, <1>6 DEF SleepGood, Placed, Willing
<1>8. Scheduled(p)'
  BY <1>1, <1>2, <1>3, <1>4 DEF SleepGood, Scheduled
<1>9. Interruptible(p)'
  BY <1>1, <1>2, <1>3, <1>4 DEF SleepGood, Interruptible
<1>10. Timed(p)'
  BY <1>1, <1>2, <1>3, <1>4 DEF SleepGood, Timed
<1>11. p_stat[p] # "PANIC" => p_stat'[p] # "PANIC"
  BY <1>2, <1>3 DEF SleepGood, Scheduled
<1>12. QED
  BY <1>1, <1>2, <1>4, <1>5, <1>7, <1>8, <1>9, <1>10, <1>11 DEF SleepGood, Kept, InUser

-----------------------------------------------------------------------------
(* Together.                                                               *)

\* A thread that a step is not about is as it was.
LEMMA OthersGood ==
    ASSUME NEW p \in Thread, NEW q \in Thread \ {p}, Others(p)
    PROVE  /\ SleepGood(q) => SleepGood(q)'
           /\ Willing(q)' <=> Willing(q)
           /\ p_stat'[q] = p_stat[q] /\ sf'[q] = sf[q] /\ p_flag'[q] = p_flag[q]
           /\ p_wchan'[q] = p_wchan[q] /\ Pending(q)' = Pending(q)
<1>1. /\ slpque'[q] = slpque[q] /\ p_wchan'[q] = p_wchan[q]
      /\ p_stat'[q] = p_stat[q] /\ p_flag'[q] = p_flag[q]
      /\ p_siglist'[q] = p_siglist[q] /\ ps_siglist'[q] = ps_siglist[q]
      /\ sleep_to'[q] = sleep_to[q] /\ sf'[q] = sf[q]
  BY DEF Others
<1>2. Pending(q)' = Pending(q)
  BY <1>1 DEF Pending
<1>3. Placed(q) => Placed(q)'
  BY <1>1 DEF Placed
<1>4. Scheduled(q) => Scheduled(q)'
  BY <1>1 DEF Scheduled
<1>5. Interruptible(q) => Interruptible(q)'
  BY <1>1, <1>2 DEF Interruptible
<1>6. Timed(q) => Timed(q)'
  BY <1>1 DEF Timed
<1>7. Willing(q)' <=> Willing(q)
  BY <1>1 DEF Willing
<1>8. QED
  BY <1>1, <1>2, <1>3, <1>4, <1>5, <1>6, <1>7 DEF SleepGood

\* A step that leaves the sleep queues alone.
LEMMA NoSleepStep ==
    ASSUME SleepTypeOK, UNCHANGED sleepVars, NEW p \in Thread
    PROVE  /\ SleepTypeOK' /\ Others(p)
           /\ \A q \in Thread : /\ SleepGood(q) => SleepGood(q)'
                                /\ Willing(q)' <=> Willing(q)
<1>1. /\ slpque' = slpque /\ p_wchan' = p_wchan /\ p_stat' = p_stat /\ p_flag' = p_flag
      /\ p_siglist' = p_siglist /\ ps_siglist' = ps_siglist /\ sleep_to' = sleep_to /\ sf' = sf
  BY DEF sleepVars
<1>2. SleepTypeOK'
  BY <1>1, TypesPrimed DEF SleepTypeOK
<1>3. Others(p)
  BY <1>1 DEF Others
<1>4. ASSUME NEW q \in Thread
      PROVE  (SleepGood(q) => SleepGood(q)') /\ (Willing(q)' <=> Willing(q))
  <2>1. Placed(q) => Placed(q)'
    BY <1>1 DEF Placed
  <2>2. (Scheduled(q) => Scheduled(q)') /\ (Timed(q) => Timed(q)')
    BY <1>1 DEF Scheduled, Timed
  <2>3. Interruptible(q) => Interruptible(q)'
    BY <1>1 DEF Interruptible, Pending
  <2>4. QED
    BY <1>1, <2>1, <2>2, <2>3 DEF SleepGood, Willing
<1>5. QED
  BY <1>2, <1>3, <1>4

\* A step of sleep_finish(): it fails no check, but for the assertion of
\* process_stop().
LEMMA SleepStepGood ==
    ASSUME Chan = Thread, SleepTypeOK, NEW p \in Thread, SleepGood(p), SleepStep(p)
    PROVE  /\ SleepTypeOK' /\ Others(p) /\ SleepGood(p)' /\ (Willing(p)' => Willing(p))
           /\ \/ sf[p].pc \in InFinish /\ sf'[p].pc \in InFinish
              \/ sf[p].pc = "userswtch" /\ sf'[p].pc = "run"
           /\ p_stat[p] # "PANIC" =>
                 \/ p_stat'[p] # "PANIC"
                 \/ sf[p].pc = "stopself" /\ "P_SUSPSIG" \in p_flag[p]
<1>1. CASE CheckBefore(p)
  BY <1>1, CheckBeforeGood DEF Kept, InFinish
<1>2. CASE StopSelf(p)
  BY <1>2, StopSelfGood DEF InFinish
<1>3. CASE FinishLocked(p)
  BY <1>3, FinishLockedGood DEF Kept, InFinish
<1>4. CASE Switchto(p)
  BY <1>4, SwitchtoGood DEF Kept, InFinish
<1>5. CASE CancelTimeout(p)
  BY <1>5, CancelTimeoutGood DEF Kept, InFinish
<1>6. CASE CheckAfter(p)
  BY <1>6, CheckAfterGood DEF Kept, InFinish
<1>7. QED
  BY <1>1, <1>2, <1>3, <1>4, <1>5, <1>6 DEF SleepStep

\* A step of the timeout.
LEMMA TimeoutStepGood ==
    ASSUME Chan = Thread, SleepTypeOK, NEW p \in Thread, SleepGood(p), TimeoutStep(p)
    PROVE  Kept(p) /\ sf' = sf
BY softclockGood, EndtsleepWakeGood, EndtsleepFlagsGood DEF TimeoutStep

\* A step of the return to user mode.
LEMMA UserretStepGood ==
    ASSUME Chan = Thread, SleepTypeOK, NEW p \in Thread, SleepGood(p), UserretStep(p)
    PROVE  Kept(p) /\ sf[p].pc \in InUser /\ sf'[p].pc \in InUser
<1>1. CASE UserretSignal(p)
  BY <1>1, UserretSignalGood DEF InUser
<1>2. CASE UserretStop(p)
  BY <1>2, UserretStopGood DEF InUser
<1>3. CASE UserretSwitch(p)
  BY <1>3, UserretSwitchGood DEF InUser
<1>4. QED
  BY <1>1, <1>2, <1>3 DEF UserretStep

\* Before anybody sleeps.
LEMMA SleepInitGood ==
    ASSUME Chan = Thread, SleepInit
    PROVE  SleepTypeOK /\ \A p \in Thread : SleepGood(p) /\ sf[p].pc = "run" /\ p_stat[p] # "PANIC"
<1>1. SleepTypeOK
  <2>1. slpque \in [Chan -> Seq(Thread)] /\ p_wchan \in [Thread -> Chan \cup {NULL}]
    BY DEF SleepInit
  <2>2. p_stat \in [Thread -> Stat] /\ p_flag \in [Thread -> SUBSET Flag]
    BY DEF SleepInit, Stat
  <2>3. p_siglist \in [Thread -> SUBSET Signal] /\ ps_siglist \in [Thread -> SUBSET Signal]
    BY DEF SleepInit
  <2>4. sleep_to \in [Thread -> Timeout]
    BY DEF SleepInit, Timeout
  <2>5. sf \in [Thread -> [pc : SleepPC, timed : BOOLEAN, do_sleep : BOOLEAN,
                          catch : BOOLEAN, error : Error]]
    BY DEF SleepInit, SleepPC, Error
  <2>6. QED
    BY <2>1, <2>2, <2>3, <2>4, <2>5 DEF SleepTypeOK
<1>2. ASSUME NEW p \in Thread
      PROVE  SleepGood(p) /\ sf[p].pc = "run" /\ p_stat[p] # "PANIC"
  <2>1. /\ slpque[p] = <<>> /\ p_wchan[p] = NULL /\ p_stat[p] = "SONPROC" /\ p_flag[p] = {}
        /\ sleep_to[p] = "off" /\ sf[p].pc = "run" /\ ~sf[p].timed
    BY DEF SleepInit
  <2>2. QED
    BY <2>1 DEF SleepGood, Placed, Scheduled, Interruptible, Timed
<1>3. QED
  BY <1>1, <1>2

=============================================================================
