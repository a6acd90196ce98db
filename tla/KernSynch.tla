------------------------------ MODULE KernSynch ------------------------------
(***************************************************************************)
(* The wait-until-signalled idiom of kern_synch.c on top of its sleep      *)
(* queues: cond_init, cond_wait and cond_signal_handler, the loop          *)
(*     sleep_setup(c); wait = load(c_wait); sleep_finish(nsecs, wait)      *)
(* that refcnt_finalize, rw_enter and the barriers share.  A thread waits  *)
(* on a cond of its own, so a channel is named by its thread.  The loop is *)
(* parameterised by its mode: whether it sleeps with PCATCH and whether it *)
(* has a timeout; cond_wait itself has neither.  Around it are the senders *)
(* of signals, the clock and the return to user mode.                      *)
(***************************************************************************)
EXTENDS SleepQueue

CONSTANTS
    Modes,      \* the modes threads may sleep in
    MaxSignal,  \* how many signals of each kind are sent (bound)
    MaxWakers   \* how many cond_signal calls may be halfway (bound)

ASSUME ModesAssumption == Modes \subseteq [catch : BOOLEAN, timed : BOOLEAN]
ASSUME ChanAssumption == Chan = Thread
ASSUME BoundAssumption == /\ MaxSignal \in [Signal -> Nat]
                          /\ MaxWakers \in Nat

VARIABLES
    c_wait,     \* c_wait of the cond a thread waits on
    wakers,     \* cond_signal calls between their store and their wakeup_one
    pc,         \* where a thread is in cond_wait
    mode,       \* the mode of its sleep
    wait,       \* the local `wait` of cond_wait
    sent        \* how many signals of each kind were sent

condVars == <<c_wait, wakers, pc, mode, wait, sent>>
vars == <<sleepVars, condVars>>

PC == {"idle", "load", "setup", "eval", "sleep", "userret"}

TypeOK ==
    /\ SleepTypeOK
    /\ c_wait \in [Thread -> BOOLEAN]
    /\ wakers \in [Thread -> 0..MaxWakers]
    /\ pc \in [Thread -> PC]
    /\ mode \in [Thread -> [catch : BOOLEAN, timed : BOOLEAN]]
    /\ wait \in [Thread -> BOOLEAN]
    /\ sent \in [Signal -> Nat]

Init ==
    /\ SleepInit
    /\ c_wait = [p \in Thread |-> FALSE]
    /\ wakers = [p \in Thread |-> 0]
    /\ pc = [p \in Thread |-> "idle"]
    /\ mode = [p \in Thread |-> [catch |-> FALSE, timed |-> FALSE]]
    /\ wait = [p \in Thread |-> FALSE]
    /\ sent = [s \in Signal |-> 0]

-----------------------------------------------------------------------------
cond_init(p) ==
    /\ pc[p] = "idle"
    /\ c_wait' = [c_wait EXCEPT ![p] = TRUE]
    /\ \E m \in Modes : mode' = [mode EXCEPT ![p] = m]
    /\ pc' = [pc EXCEPT ![p] = "load"]
    /\ UNCHANGED <<sleepVars, wakers, wait, sent>>

\* cond_wait's first load, before the loop.
CondLoad(p) ==
    /\ pc[p] = "load"
    /\ pc' = [pc EXCEPT ![p] = IF c_wait[p] THEN "setup" ELSE "userret"]
    /\ UNCHANGED <<sleepVars, c_wait, wakers, mode, wait, sent>>

CondSetup(p) ==
    /\ pc[p] = "setup"
    /\ sleep_setup(p, p, mode[p].catch)
    /\ pc' = [pc EXCEPT ![p] = "eval"]
    /\ UNCHANGED <<c_wait, wakers, mode, wait, sent>>

\* Mutant: the condition is not looked at again once the thread is queued.
MutCondEval(p) ==
    /\ pc[p] = "eval"
    /\ wait' = [wait EXCEPT ![p] = TRUE]
    /\ sleep_finish(p, mode[p].timed, TRUE)
    /\ pc' = [pc EXCEPT ![p] = "sleep"]
    /\ UNCHANGED <<c_wait, wakers, mode, sent>>

\* The load that decides whether to sleep, then the call of sleep_finish.
CondEval(p) ==
    /\ pc[p] = "eval"
    /\ wait' = [wait EXCEPT ![p] = c_wait[p]]
    /\ sleep_finish(p, mode[p].timed, c_wait[p])
    /\ pc' = [pc EXCEPT ![p] = "sleep"]
    /\ UNCHANGED <<c_wait, wakers, mode, sent>>

\* sleep_finish returned: give up on an error, else look at wait again.
CondReturn(p) ==
    /\ pc[p] = "sleep"
    /\ SleepReturned(p)
    /\ pc' = [pc EXCEPT ![p] = IF wait[p] /\ sf[p].error = "0"
                               THEN "setup" ELSE "userret"]
    /\ UNCHANGED <<c_wait, wakers, mode, wait, sent>>

\* userret delivers what is pending, then the thread is in user mode.
Userret(p) ==
    /\ pc[p] = "userret"
    /\ \/ UserretStep(p) /\ UNCHANGED pc
       \/ /\ sf[p].pc = "run" /\ Pending(p) = {}
          /\ pc' = [pc EXCEPT ![p] = "idle"]
          /\ UNCHANGED sleepVars
    /\ UNCHANGED <<c_wait, wakers, mode, wait, sent>>

\* cond_signal_handler: the store ...
CondSignalStore(p) ==
    /\ c_wait[p] /\ pc[p] \notin {"idle", "userret"}
    /\ wakers[p] < MaxWakers
    /\ c_wait' = [c_wait EXCEPT ![p] = FALSE]
    /\ wakers' = [wakers EXCEPT ![p] = @ + 1]
    /\ UNCHANGED <<sleepVars, pc, mode, wait, sent>>

\* ... and the wakeup_one, which may come after the waiter has gone.
CondSignalWake(p) ==
    /\ wakers[p] > 0
    /\ wakeup_n(p, 1)
    /\ wakers' = [wakers EXCEPT ![p] = @ - 1]
    /\ UNCHANGED <<c_wait, pc, mode, wait, sent>>

Kill(p, s) ==
    /\ sent[s] < MaxSignal[s]
    /\ ptsignal(p, s)
    /\ sent' = [sent EXCEPT ![s] = @ + 1]
    /\ UNCHANGED <<c_wait, wakers, pc, mode, wait>>

\* The code a thread runs once it has called cond_wait.
ThreadStep(p) ==
    \/ CondLoad(p) \/ CondSetup(p) \/ CondEval(p) \/ CondReturn(p)
    \/ Userret(p)
    \/ SleepStep(p) /\ UNCHANGED condVars

ClockStep(p) == TimeoutStep(p) /\ UNCHANGED condVars

Next ==
    \E p \in Thread :
        \/ cond_init(p) \/ ThreadStep(p) \/ ClockStep(p)
        \/ CondSignalStore(p) \/ CondSignalWake(p)
        \/ \E s \in Signal : Kill(p, s)

Spec == Init /\ [][Next]_vars

(* Threads that can run do run, timeouts fire, and a cond_signal that has  *)
(* stored gets to its wakeup_one.  Nobody is obliged to wait, to signal or *)
(* to send signals.                                                        *)
Fairness ==
    \A p \in Thread : /\ WF_vars(ThreadStep(p))
                      /\ WF_vars(ClockStep(p))
                      /\ WF_vars(CondSignalWake(p))
FairSpec == Spec /\ Fairness

-----------------------------------------------------------------------------
(* Properties                                                              *)

\* p has switched away inside sleep_finish and is still on a sleep queue.
Asleep(p) == sf[p].pc = "switched" /\ p_wchan[p] # NULL

\* No check of the sleep code fails: sleep_setup finds its thread SONPROC
\* without a stale P_SINTR, sleep_finish without stale timeout flags, the
\* assertions around mi_switch hold, wakeup_n finds only sleeping or stopped
\* threads on the queue and setrunnable is never called on a running one.
NoPanic == \A p \in Thread : p_stat[p] # "PANIC"

\* A thread is on the queue of the channel it sleeps on, once, and on no
\* other queue: sleep_setup, unsleep and wakeup_n keep slpque and p_wchan
\* in step although a wakeup, a signal and a timeout may race to remove it.
QueueMatchesWchan ==
    /\ TypeOK
    /\ \A p \in Thread, c \in Chan :
          Cardinality({i \in 1..Len(slpque[c]) : slpque[c][i] = p})
              = IF p_wchan[p] = c THEN 1 ELSE 0

\* No wakeup is lost: a thread sleeps only while its condition holds, or the
\* one who cleared it has yet to call wakeup_one (cond_wait queues itself
\* before it loads c_wait; cond_signal_handler stores before it wakes).
NoLostWakeup ==
    \A p \in Thread : Asleep(p) => c_wait[p] \/ wakers[p] > 0

\* No signal is slept through: a thread that sleeps with PCATCH has no
\* caught signal pending, whichever side of sleep_signal_check it arrived.
SignalEndsSleep ==
    \A p \in Thread : Asleep(p) /\ sf[p].catch => "INTR" \notin Pending(p)

\* A timed sleep has its timeout ahead of it, and a thread that left
\* sleep_finish has none: endtsleep can neither be missed nor touch a thread
\* that no longer waits for it.
TimeoutHandshake ==
    \A p \in Thread :
        /\ Asleep(p) /\ sf[p].timed => sleep_to[p] \in {"armed", "firing"}
        /\ sf[p].pc \in {"run", "setup", "recheck", "done"} =>
             /\ sleep_to[p] = "off"
             /\ p_flag[p] \cap {"P_TIMEOUT", "P_TIMEOUTRAN"} = {}

\* A cond that was signalled lets its waiter go: once c_wait is cleared the
\* thread leaves cond_wait, if nobody leaves it stopped.
SignalledReturns ==
    \A p \in Thread :
        (~c_wait[p] /\ pc[p] # "idle") ~>
            (pc[p] \in {"idle", "userret"} \/ p_stat[p] = "SSTOP")

\* process_stop asserts, for the thread that stops itself inside
\* sleep_signal_check, that P_SUSPSIG is not set on it yet.
SelfStopAssertion ==
    \A p \in Thread :
        sf[p].pc = "stopself" => "P_SUSPSIG" \notin p_flag[p]

=============================================================================
