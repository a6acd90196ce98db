----------------------------- MODULE SleepQueue -----------------------------
(***************************************************************************)
(* The sleep queues of sys/kern/kern_synch.c (sleep_setup, sleep_finish,   *)
(* sleep_signal_check, wakeup_n, wakeup_proc, unsleep, endtsleep), with    *)
(* what they call: setrunnable (sched_bsd.c), cursig, ptsignal, userret,   *)
(* process_stop, process_continue and proc_stop_{setup,finish}             *)
(* (kern_sig.c).                                                           *)
(*                                                                         *)
(* Each action is one section of code under SCHED_LOCK (or ps_mtx), or one *)
(* atomic access.  Every process has one thread, so ps_single and          *)
(* PS_STOPPING never survive a ps_mtx section and proc_suspend_check       *)
(* returns 0; SIGKILL, tracing and signal masks are left out.  Signals are *)
(*   INTR  a caught signal (SIGINT with a handler),                        *)
(*   STOP  SIGSTOP, and CONT  SIGCONT, both with the default action.       *)
(* The clients of the queue (who sleeps on what, and who wakes whom) are   *)
(* the modules that extend this one.                                       *)
(***************************************************************************)
EXTENDS Integers, Sequences, FiniteSets, Queues

CONSTANTS
    Thread,     \* the threads (struct proc)
    Chan,       \* the sleep channels (ident)
    NULL        \* p_wchan of a thread that is on no sleep queue

ASSUME NULLAssumption == NULL \notin Chan

VARIABLES
    slpque,     \* per ident, the threads sleeping on it, oldest first
    p_wchan,    \* the ident a thread sleeps on, or NULL
    p_stat,     \* scheduler state; "PANIC" once a check of the code failed
    p_flag,     \* P_INSCHED, P_SINTR, P_SUSPSIG, P_TIMEOUT, P_TIMEOUTRAN
    p_siglist,  \* signals pending on the thread
    ps_siglist, \* signals pending on its process
    sleep_to,   \* p_sleep_to: the timeout and the progress of endtsleep
    sf          \* program counter and locals of sleep_finish and userret

sleepVars ==
    <<slpque, p_wchan, p_stat, p_flag, p_siglist, ps_siglist, sleep_to, sf>>

Signal == {"INTR", "STOP", "CONT"}
Flag == {"P_INSCHED", "P_SINTR", "P_SUSPSIG", "P_TIMEOUT", "P_TIMEOUTRAN"}
Stat == {"SONPROC", "SRUN", "SSLEEP", "SSTOP", "PANIC"}
Error == {"0", "EINTR", "ERESTART", "EWOULDBLOCK"}
SleepPC == {"run", "setup", "check", "stopself", "lock", "switched",
            "timeout", "recheck", "done", "userstop", "userswtch"}
Timeout == {"off", "armed", "firing", "woke", "missed"}

SleepTypeOK ==
    /\ slpque \in [Chan -> Seq(Thread)]
    /\ p_wchan \in [Thread -> Chan \cup {NULL}]
    /\ p_stat \in [Thread -> Stat]
    /\ p_flag \in [Thread -> SUBSET Flag]
    /\ p_siglist \in [Thread -> SUBSET Signal]
    /\ ps_siglist \in [Thread -> SUBSET Signal]
    /\ sleep_to \in [Thread -> Timeout]
    /\ sf \in [Thread -> [pc : SleepPC, timed : BOOLEAN, do_sleep : BOOLEAN,
                          catch : BOOLEAN, error : Error]]

SleepInit ==
    /\ slpque = [c \in Chan |-> <<>>]
    /\ p_wchan = [p \in Thread |-> NULL]
    /\ p_stat = [p \in Thread |-> "SONPROC"]
    /\ p_flag = [p \in Thread |-> {}]
    /\ p_siglist = [p \in Thread |-> {}]
    /\ ps_siglist = [p \in Thread |-> {}]
    /\ sleep_to = [p \in Thread |-> "off"]
    /\ sf = [p \in Thread |-> [pc |-> "run", timed |-> FALSE,
                               do_sleep |-> FALSE, catch |-> FALSE,
                               error |-> "0"]]

-----------------------------------------------------------------------------
(* Operators under SCHED_LOCK.                                             *)

\* Mutant: p_wchan is cleared but the thread stays on the queue.
MutUnsleepQueue(p) == slpque

\* slpque and p_wchan after unsleep(p).
UnsleepQueue(p) ==
    IF p_wchan[p] = NULL THEN slpque
    ELSE [slpque EXCEPT ![p_wchan[p]] = Without(@, p)]

unsleep(p) ==
    /\ slpque' = UnsleepQueue(p)
    /\ p_wchan' = [p_wchan EXCEPT ![p] = NULL]

\* Mutant: P_INSCHED is not looked at.
MutSetrunnable(p, wchan) ==
    IF p_stat[p] \in {"SSLEEP", "SSTOP"} THEN "SRUN" ELSE "PANIC"

\* The state setrunnable gives p when its channel is wchan.
Setrunnable(p, wchan) ==
    CASE p_stat[p] = "SSLEEP" ->
             IF "P_INSCHED" \in p_flag[p] THEN "SSLEEP" ELSE "SRUN"
      [] p_stat[p] = "SSTOP" ->
             IF "P_INSCHED" \in p_flag[p]
             THEN IF wchan # NULL THEN "SSLEEP" ELSE "SONPROC"
             ELSE "SRUN"
      [] OTHER -> "PANIC"

\* The threads wakeup_n(ident, n) takes off the queue; n < 0 means all.
Wakeq(ident, n) ==
    LET q == slpque[ident]
        m == IF n < 0 \/ n > Len(q) THEN Len(q) ELSE n
    IN  {q[i] : i \in 1..m}

wakeup_n(ident, n) ==
    LET wakeq == Wakeq(ident, n)
        q == slpque[ident]
    IN  /\ slpque' = [slpque EXCEPT ![ident] =
                          SubSeq(q, Cardinality(wakeq) + 1, Len(q))]
        /\ p_wchan' = [p \in Thread |->
                          IF p \in wakeq THEN NULL ELSE p_wchan[p]]
        /\ p_stat' = [p \in Thread |->
                         IF p \notin wakeq \/ p_stat[p] = "SSTOP"
                         THEN p_stat[p]
                         ELSE IF p_stat[p] = "SSLEEP"
                              THEN Setrunnable(p, NULL)
                              ELSE "PANIC"]
        /\ UNCHANGED <<p_flag, p_siglist, ps_siglist, sleep_to, sf>>

-----------------------------------------------------------------------------
(* Going to sleep.                                                         *)

sleep_setup(p, ident, catch) ==
    /\ sf[p].pc = "run"
    /\ p_wchan' = [p_wchan EXCEPT ![p] = ident]
    /\ slpque' = [slpque EXCEPT ![ident] = Append(@, p)]
    /\ p_flag' = [p_flag EXCEPT ![p] = @ \cup {"P_INSCHED"} \cup
                     (IF catch THEN {"P_SINTR"} ELSE {})]
    /\ p_stat' = [p_stat EXCEPT ![p] =
                     IF @ # "SONPROC" \/ "P_SINTR" \in p_flag[p]
                     THEN "PANIC" ELSE "SSLEEP"]
    /\ sf' = [sf EXCEPT ![p].pc = "setup"]
    /\ UNCHANGED <<p_siglist, ps_siglist, sleep_to>>

\* sleep_finish is called: the timeout is armed and P_SINTR is looked at.
sleep_finish(p, timed, do_sleep) ==
    /\ sf[p].pc = "setup"
    /\ LET catch == "P_SINTR" \in p_flag[p]
       IN  sf' = [sf EXCEPT ![p] =
                     [pc |-> IF catch THEN "check" ELSE "lock",
                      timed |-> timed, do_sleep |-> do_sleep,
                      catch |-> catch, error |-> "0"]]
    /\ sleep_to' = IF timed THEN [sleep_to EXCEPT ![p] = "armed"]
                            ELSE sleep_to
    /\ p_stat' = IF timed /\ p_flag[p] \cap {"P_TIMEOUT", "P_TIMEOUTRAN"} # {}
                 THEN [p_stat EXCEPT ![p] = "PANIC"] ELSE p_stat
    /\ UNCHANGED <<slpque, p_wchan, p_flag, p_siglist, ps_siglist>>

\* SIGPENDING: what is pending on the thread or its process.
Pending(p) == p_siglist[p] \cup ps_siglist[p]

\* The signals cursig(deep) takes: the lowest numbered, and behind a STOP
\* the others as well.
Taken(p) == IF "INTR" \in Pending(p) THEN {"INTR"} ELSE Pending(p)

\* cursig(deep) leaves what it took pending on the thread.
cursigDeep(p) ==
    /\ p_siglist' = [p_siglist EXCEPT ![p] = @ \cup Taken(p)]
    /\ ps_siglist' = [ps_siglist EXCEPT ![p] = @ \ Taken(p)]

\* The error sleep_signal_check returns; a STOP alone is no error.
SignalError(p) ==
    CASE "INTR" \in Pending(p) -> "EINTR"
      [] "INTR" \notin Pending(p) /\ "CONT" \in Pending(p) -> "ERESTART"
      [] OTHER -> "0"

\* sleep_signal_check(p, 0) up to ps_mtx.
CheckBefore(p) ==
    /\ sf[p].pc = "check"
    /\ cursigDeep(p)
    /\ LET error == SignalError(p)
       IN  sf' = [sf EXCEPT ![p] =
             IF error # "0"
             THEN [@ EXCEPT !.pc = "lock", !.catch = FALSE,
                            !.do_sleep = FALSE, !.error = error]
             ELSE [@ EXCEPT !.pc = IF Pending(p) = {} THEN "lock"
                                                       ELSE "stopself"]]
    /\ UNCHANGED <<slpque, p_wchan, p_stat, p_flag, sleep_to>>

\* sleep_signal_check(p, 0) under ps_mtx: the thread stops its process.
\* process_stop asserts that P_SUSPSIG is clear.
StopSelf(p) ==
    /\ sf[p].pc = "stopself"
    /\ p_siglist' = [p_siglist EXCEPT ![p] = @ \ {"STOP"}]
    /\ p_stat' = [p_stat EXCEPT ![p] =
                     IF "P_SUSPSIG" \in p_flag[p] THEN "PANIC" ELSE "SSTOP"]
    /\ p_flag' = [p_flag EXCEPT ![p] = @ \cup {"P_SUSPSIG"}]
    /\ sf' = [sf EXCEPT ![p].pc = "lock"]
    /\ UNCHANGED <<slpque, p_wchan, ps_siglist, sleep_to>>

\* Mutant: a wakeup that came before the switch is not noticed.
MutFinishLocked(p) ==
    /\ sf[p].pc = "lock"
    /\ LET switch == sf[p].do_sleep \/ p_stat[p] = "SSTOP"
       IN  /\ IF sf[p].do_sleep THEN UNCHANGED <<slpque, p_wchan>>
                                ELSE unsleep(p)
           /\ sf' = [sf EXCEPT ![p].pc =
                        IF switch THEN "switched" ELSE "timeout"]
           /\ p_stat' = IF switch THEN p_stat
                        ELSE [p_stat EXCEPT ![p] = "SONPROC"]
           /\ p_flag' = [p_flag EXCEPT ![p] = @ \ {"P_INSCHED"}]
    /\ UNCHANGED <<p_siglist, ps_siglist, sleep_to>>

\* The SCHED_LOCK section of sleep_finish: unwind, or switch away.
FinishLocked(p) ==
    /\ sf[p].pc = "lock"
    /\ LET sleepy == sf[p].do_sleep /\ p_wchan[p] # NULL
           switch == sleepy \/ p_stat[p] = "SSTOP"
       IN  /\ IF sleepy THEN UNCHANGED <<slpque, p_wchan>> ELSE unsleep(p)
           /\ sf' = [sf EXCEPT ![p].pc =
                        IF switch THEN "switched" ELSE "timeout"]
           /\ p_stat' = [p_stat EXCEPT ![p] =
                 IF switch
                 THEN IF @ \in {"SSLEEP", "SSTOP"} THEN @ ELSE "PANIC"
                 ELSE IF @ \in {"SONPROC", "SSLEEP"} THEN "SONPROC"
                                                     ELSE "PANIC"]
           /\ p_flag' = [p_flag EXCEPT ![p] = @ \ {"P_INSCHED"}]
    /\ UNCHANGED <<p_siglist, ps_siglist, sleep_to>>

\* mi_switch returns: the scheduler picked p from the run queue.
Switchto(p) ==
    /\ sf[p].pc \in {"switched", "userswtch"}
    /\ p_stat[p] = "SRUN"
    /\ p_stat' = [p_stat EXCEPT ![p] = "SONPROC"]
    /\ sf' = [sf EXCEPT ![p].pc = IF @ = "switched" THEN "timeout" ELSE "run"]
    /\ UNCHANGED <<slpque, p_wchan, p_flag, p_siglist, ps_siglist, sleep_to>>

\* Where sleep_finish goes once the timeout is dealt with.
AfterTimeout(p) == IF sf[p].catch THEN "recheck" ELSE "done"

\* Mutant: sleep_finish does not wait for a timeout that is running.
MutCancelTimeout(p) ==
    /\ sf[p].pc = "timeout"
    /\ p_flag' = [p_flag EXCEPT ![p] =
                     @ \ {"P_SINTR", "P_TIMEOUT", "P_TIMEOUTRAN"}]
    /\ sleep_to' = [sleep_to EXCEPT ![p] = IF @ = "armed" THEN "off" ELSE @]
    /\ sf' = [sf EXCEPT ![p].pc = AfterTimeout(p)]
    /\ UNCHANGED <<slpque, p_wchan, p_stat, p_siglist, ps_siglist>>

\* P_SINTR is cleared and the timeout cancelled; if it already fired, spin
\* until endtsleep has set P_TIMEOUTRAN.
CancelTimeout(p) ==
    /\ sf[p].pc = "timeout"
    /\ \/ /\ ~sf[p].timed
          /\ p_flag' = [p_flag EXCEPT ![p] = @ \ {"P_SINTR"}]
          /\ sf' = [sf EXCEPT ![p].pc = AfterTimeout(p)]
          /\ UNCHANGED sleep_to
       \/ /\ sf[p].timed
          /\ sleep_to[p] = "armed"
          /\ p_flag' = [p_flag EXCEPT ![p] = @ \ {"P_SINTR"}]
          /\ sleep_to' = [sleep_to EXCEPT ![p] = "off"]
          /\ sf' = [sf EXCEPT ![p].pc = AfterTimeout(p)]
       \/ /\ sf[p].timed
          /\ "P_TIMEOUTRAN" \in p_flag[p]
          /\ p_flag' = [p_flag EXCEPT ![p] =
                           @ \ {"P_SINTR", "P_TIMEOUT", "P_TIMEOUTRAN"}]
          /\ sf' = [sf EXCEPT ![p] =
                [@ EXCEPT !.pc = AfterTimeout(p),
                          !.error = IF sf[p].error = "0" /\ "P_TIMEOUT" \in p_flag[p]
                                    THEN "EWOULDBLOCK" ELSE sf[p].error]]
          /\ UNCHANGED sleep_to
    /\ UNCHANGED <<slpque, p_wchan, p_stat, p_siglist, ps_siglist>>

\* sleep_signal_check(p, 1); signal errors outrank timeouts.
CheckAfter(p) ==
    /\ sf[p].pc = "recheck"
    /\ cursigDeep(p)
    /\ sf' = [sf EXCEPT ![p] =
          [@ EXCEPT !.pc = "done",
                    !.error = IF SignalError(p) # "0" THEN SignalError(p)
                                                      ELSE sf[p].error]]
    /\ UNCHANGED <<slpque, p_wchan, p_stat, p_flag, sleep_to>>

\* The caller of sleep_finish takes its result, sf[p].error.
SleepReturned(p) ==
    /\ sf[p].pc = "done"
    /\ sf' = [sf EXCEPT ![p] =
                 [pc |-> "run", timed |-> FALSE, do_sleep |-> FALSE,
                  catch |-> FALSE, error |-> "0"]]
    /\ UNCHANGED <<slpque, p_wchan, p_stat, p_flag, p_siglist, ps_siglist,
                   sleep_to>>

-----------------------------------------------------------------------------
(* The sleep timeout.                                                      *)

\* softclock takes p_sleep_to off the wheel; timeout_del fails from now on.
softclock(p) ==
    /\ sleep_to[p] = "armed"
    /\ sleep_to' = [sleep_to EXCEPT ![p] = "firing"]
    /\ UNCHANGED <<slpque, p_wchan, p_stat, p_flag, p_siglist, ps_siglist, sf>>

\* endtsleep under SCHED_LOCK: wakeup_proc.
EndtsleepWake(p) ==
    /\ sleep_to[p] = "firing"
    /\ unsleep(p)
    /\ sleep_to' = [sleep_to EXCEPT ![p] =
                       IF p_wchan[p] # NULL THEN "woke" ELSE "missed"]
    /\ p_stat' = IF p_wchan[p] # NULL /\ p_stat[p] # "SSTOP"
                 THEN [p_stat EXCEPT ![p] = Setrunnable(p, NULL)]
                 ELSE p_stat
    /\ UNCHANGED <<p_flag, p_siglist, ps_siglist, sf>>

\* endtsleep's last access to the thread: the flags sleep_finish waits for.
EndtsleepFlags(p) ==
    /\ sleep_to[p] \in {"woke", "missed"}
    /\ p_flag' = [p_flag EXCEPT ![p] = @ \cup {"P_TIMEOUTRAN"} \cup
                     (IF sleep_to[p] = "woke" THEN {"P_TIMEOUT"} ELSE {})]
    /\ sleep_to' = [sleep_to EXCEPT ![p] = "off"]
    /\ UNCHANGED <<slpque, p_wchan, p_stat, p_siglist, ps_siglist, sf>>

-----------------------------------------------------------------------------
(* Signals.                                                                *)

\* Mutant: a thread on its way to sleep is left to notice the signal itself.
MutSignalSleeping(p, s) ==
    /\ IF "P_SINTR" \in p_flag[p] /\ "P_INSCHED" \notin p_flag[p]
       THEN /\ unsleep(p)
            /\ p_stat' = [p_stat EXCEPT ![p] = Setrunnable(p, NULL)]
       ELSE UNCHANGED <<slpque, p_wchan, p_stat>>
    /\ UNCHANGED p_flag

\* ptsignal_locked, SSLEEP: an interruptible sleep is ended, or stopped.
SignalSleeping(p, s) ==
    IF "P_SINTR" \notin p_flag[p]
    THEN UNCHANGED <<slpque, p_wchan, p_stat, p_flag>>
    ELSE \/ /\ s = "INTR"
            /\ unsleep(p)
            /\ p_stat' = [p_stat EXCEPT ![p] = Setrunnable(p, NULL)]
            /\ UNCHANGED p_flag
         \/ /\ s = "STOP"
            /\ p_stat' = [p_stat EXCEPT ![p] = "SSTOP"]
            /\ p_flag' = [p_flag EXCEPT ![p] = @ \cup {"P_SUSPSIG"}]
            /\ UNCHANGED <<slpque, p_wchan>>
         \/ /\ s = "CONT"
            /\ UNCHANGED <<slpque, p_wchan, p_stat, p_flag>>

\* process_continue(pr, P_SUSPSIG).
process_continue(p) ==
    /\ p_flag' = [p_flag EXCEPT ![p] = @ \ {"P_SUSPSIG"}]
    /\ p_stat' = IF "P_SUSPSIG" \notin p_flag[p] THEN p_stat
                 ELSE [p_stat EXCEPT ![p] =
                          IF p_wchan[p] = NULL THEN Setrunnable(p, NULL)
                                               ELSE "SSLEEP"]

\* ptsignal_locked, SSTOP: only CONT lets the thread go on.
SignalStopped(p, s) ==
    \/ /\ s = "INTR"
       /\ IF "P_SINTR" \in p_flag[p] THEN unsleep(p)
                                     ELSE UNCHANGED <<slpque, p_wchan>>
       /\ UNCHANGED <<p_stat, p_flag>>
    \/ /\ s = "STOP"
       /\ UNCHANGED <<slpque, p_wchan, p_stat, p_flag>>
    \/ /\ s = "CONT"
       /\ process_continue(p)
       /\ UNCHANGED <<slpque, p_wchan>>

\* Is s consumed by ptsignal itself (mask = 0) instead of left pending?
Consumed(p, s) ==
    /\ s \in {"STOP", "CONT"}
    /\ \/ p_stat[p] = "SSTOP"
       \/ p_stat[p] = "SSLEEP" /\ "P_SINTR" \in p_flag[p]

ptsignal(p, s) ==
    /\ \/ p_stat[p] = "SSLEEP" /\ SignalSleeping(p, s)
       \/ p_stat[p] = "SSTOP" /\ SignalStopped(p, s)
       \/ /\ p_stat[p] \in {"SONPROC", "SRUN"}
          /\ UNCHANGED <<slpque, p_wchan, p_stat, p_flag>>
    /\ p_siglist' = IF s = "INTR" THEN [p_siglist EXCEPT ![p] = @ \cup {s}]
                                  ELSE p_siglist
    /\ ps_siglist' = [ps_siglist EXCEPT ![p] =
          CASE s = "INTR" -> @
            [] s = "STOP" -> (@ \ {"CONT"}) \cup
                             (IF Consumed(p, s) THEN {} ELSE {s})
            [] s = "CONT" -> (@ \ {"STOP"}) \cup
                             (IF Consumed(p, s) THEN {} ELSE {s})]
    /\ UNCHANGED <<sleep_to, sf>>

-----------------------------------------------------------------------------
(* The return to user mode, from a client that is done.                    *)

\* cursig(p, 0) takes one signal and postsig delivers it; a CONT with the
\* default action is dropped, a STOP stops the process.
UserretSignal(p) ==
    /\ sf[p].pc = "run"
    /\ \E s \in Pending(p) :
          /\ "INTR" \in Pending(p) => s = "INTR"
          /\ s = "CONT" => "STOP" \notin Pending(p)
          /\ p_siglist' = [p_siglist EXCEPT ![p] = @ \ {s}]
          /\ ps_siglist' = [ps_siglist EXCEPT ![p] = @ \ {s}]
          /\ sf' = IF s = "STOP" THEN [sf EXCEPT ![p].pc = "userstop"] ELSE sf
    /\ UNCHANGED <<slpque, p_wchan, p_stat, p_flag, sleep_to>>

\* cursig under ps_mtx: process_stop and proc_stop_setup.
UserretStop(p) ==
    /\ sf[p].pc = "userstop"
    /\ "P_INSCHED" \notin p_flag[p]
    /\ p_flag' = [p_flag EXCEPT ![p] = @ \cup {"P_SUSPSIG", "P_INSCHED"}]
    /\ p_stat' = [p_stat EXCEPT ![p] =
                     IF "P_SUSPSIG" \in p_flag[p] THEN "PANIC" ELSE "SSTOP"]
    /\ UNCHANGED <<slpque, p_wchan, p_siglist, ps_siglist, sleep_to, sf>>

\* proc_stop_finish: switch away if nobody continued the process meanwhile.
UserretSwitch(p) ==
    /\ sf[p].pc = "userstop"
    /\ "P_INSCHED" \in p_flag[p]
    /\ p_flag' = [p_flag EXCEPT ![p] = @ \ {"P_INSCHED"}]
    /\ sf' = [sf EXCEPT ![p].pc =
                 IF p_stat[p] = "SSTOP" THEN "userswtch" ELSE "run"]
    /\ p_stat' = [p_stat EXCEPT ![p] =
                     IF @ \in {"SSTOP", "SONPROC"} THEN @ ELSE "PANIC"]
    /\ UNCHANGED <<slpque, p_wchan, p_siglist, ps_siglist, sleep_to>>

-----------------------------------------------------------------------------
\* A step of sleep_finish, by the thread itself.
SleepStep(p) ==
    \/ CheckBefore(p) \/ StopSelf(p) \/ FinishLocked(p) \/ Switchto(p)
    \/ CancelTimeout(p) \/ CheckAfter(p)

\* A step of the timeout of p.
TimeoutStep(p) == softclock(p) \/ EndtsleepWake(p) \/ EndtsleepFlags(p)

\* A step of the return to user mode.
UserretStep(p) == UserretSignal(p) \/ UserretStop(p) \/ UserretSwitch(p)

=============================================================================
