--------------------------- MODULE KernSynchProofs ---------------------------
(***************************************************************************)
(* The safety of cond_wait and cond_signal_handler over the sleep queues,  *)
(* for any number of threads, signals and wakers.  The invariant is        *)
(* SleepGood of every thread, where the thread is in cond_wait (Located)   *)
(* and that a sleeper is owed a wakeup (Owed).  NoPanic is proved from     *)
(* SelfStopAssertion, the one check of the code that can fail, and that    *)
(* for at most one stop.                                                   *)
(***************************************************************************)
EXTENDS KernSynch, SleepQueueProofs

\* Where a thread of cond_wait is in the code below.
Located(p) ==
    /\ pc[p] \in {"idle", "load", "setup"} => sf[p].pc = "run"
    /\ pc[p] = "eval" => sf[p].pc = "setup"
    /\ pc[p] = "sleep" => sf[p].pc \in InFinish
    /\ pc[p] = "userret" => sf[p].pc \in InUser

\* Who has decided to sleep has a condition that holds, or a wakeup to come.
Owed(p) == Willing(p) => c_wait[p] \/ wakers[p] > 0

KsInv == TypeOK /\ \A p \in Thread : SleepGood(p) /\ Located(p) /\ Owed(p)

\* A step of thread p by which the rest of its state and that of the others
\* stay as they must.
LEMMA StepKeeps ==
    ASSUME KsInv, NEW p \in Thread, TypeOK', Others(p), SleepGood(p)', Located(p)', Owed(p)',
           \A q \in Thread \ {p} :
              pc'[q] = pc[q] /\ c_wait'[q] = c_wait[q] /\ wakers'[q] = wakers[q]
    PROVE  KsInv'
<1>1. ASSUME NEW q \in Thread \ {p}
      PROVE  SleepGood(q)' /\ Located(q)' /\ Owed(q)'
  <2>1. SleepGood(q)' /\ (Willing(q)' <=> Willing(q)) /\ sf'[q] = sf[q]
    BY OthersGood DEF KsInv
  <2>2. Located(q) /\ Owed(q)
    BY DEF KsInv
  <2>3. pc'[q] = pc[q] /\ c_wait'[q] = c_wait[q] /\ wakers'[q] = wakers[q]
    OBVIOUS
  <2>4. Located(q)'
    BY <2>1, <2>2, <2>3 DEF Located
  <2>5. Owed(q)'
    BY <2>1, <2>2, <2>3 DEF Owed
  <2>6. QED
    BY <2>1, <2>4, <2>5
<1>2. QED
  BY <1>1 DEF KsInv

-----------------------------------------------------------------------------
(* One lemma per action.                                                   *)

\* cond_init(): the condition holds again, and nobody sleeps on it yet.
LEMMA cond_initKeeps ==
    ASSUME KsInv, NEW p \in Thread, cond_init(p)
    PROVE  KsInv'
<1>1. /\ pc[p] = "idle" /\ UNCHANGED <<sleepVars, wakers, wait, sent>>
      /\ pc' = [pc EXCEPT ![p] = "load"] /\ c_wait' = [c_wait EXCEPT ![p] = TRUE]
  BY DEF cond_init
<1>2. mode' \in [Thread -> [catch : BOOLEAN, timed : BOOLEAN]]
  BY ModesAssumption DEF cond_init, KsInv, TypeOK
<1>3. SleepTypeOK' /\ Others(p) /\ SleepGood(p)' /\ (Willing(p)' <=> Willing(p))
  BY <1>1, NoSleepStep DEF KsInv, TypeOK
<1>4. TypeOK'
  BY <1>1, <1>2, <1>3 DEF KsInv, TypeOK, PC
<1>5. sf' = sf /\ sf[p].pc = "run" /\ pc'[p] = "load"
  BY <1>1 DEF sleepVars, KsInv, Located, TypeOK
<1>6. Located(p)' /\ Owed(p)'
  BY <1>3, <1>5 DEF Located, Owed, Willing
<1>7. QED
  BY <1>1, <1>3, <1>4, <1>6, StepKeeps DEF KsInv, TypeOK

\* The first load of c_wait.
LEMMA CondLoadKeeps ==
    ASSUME KsInv, NEW p \in Thread, CondLoad(p)
    PROVE  KsInv'
<1>1. PICK l \in {"setup", "userret"} : pc' = [pc EXCEPT ![p] = l]
  BY DEF CondLoad
<1>2. pc[p] = "load" /\ UNCHANGED <<sleepVars, c_wait, wakers, mode, wait, sent>>
  BY DEF CondLoad
<1>3. SleepTypeOK' /\ Others(p) /\ SleepGood(p)' /\ (Willing(p)' <=> Willing(p))
  BY <1>2, NoSleepStep DEF KsInv, TypeOK
<1>4. TypeOK'
  BY <1>1, <1>2, <1>3 DEF KsInv, TypeOK, PC
<1>5. sf' = sf /\ sf[p].pc = "run" /\ pc'[p] = l
  BY <1>1, <1>2 DEF sleepVars, KsInv, Located, TypeOK
<1>6. Located(p)' /\ Owed(p)'
  BY <1>3, <1>5 DEF Located, Owed, Willing, InUser
<1>7. QED
  BY <1>1, <1>2, <1>3, <1>4, <1>6, StepKeeps DEF KsInv, TypeOK

\* cond_wait() calls sleep_setup().
LEMMA CondSetupKeeps ==
    ASSUME KsInv, NEW p \in Thread, CondSetup(p)
    PROVE  KsInv' /\ (p_stat[p] # "PANIC" => p_stat'[p] # "PANIC") /\ Others(p)
<1>1. /\ pc[p] = "setup" /\ sleep_setup(p, p, mode[p].catch)
      /\ pc' = [pc EXCEPT ![p] = "eval"] /\ UNCHANGED <<c_wait, wakers, mode, wait, sent>>
  BY DEF CondSetup
<1>2. mode[p].catch \in BOOLEAN /\ SleepTypeOK /\ SleepGood(p)
  BY DEF KsInv, TypeOK
<1>3. Kept(p) /\ sf'[p].pc = "setup"
  BY <1>1, <1>2, ChanAssumption, sleep_setupGood
<1>4. TypeOK'
  BY <1>1, <1>3 DEF KsInv, TypeOK, PC, Kept
<1>5. pc'[p] = "eval"
  BY <1>1 DEF KsInv, TypeOK
<1>6. Located(p)' /\ Owed(p)'
  BY <1>3, <1>5 DEF Located, Owed, Willing
<1>7. QED
  BY <1>1, <1>3, <1>4, <1>6, StepKeeps DEF KsInv, TypeOK, Kept

\* The load that decides: who goes to sleep has seen c_wait set.
LEMMA CondEvalKeeps ==
    ASSUME KsInv, NEW p \in Thread, CondEval(p)
    PROVE  KsInv' /\ (p_stat[p] # "PANIC" => p_stat'[p] # "PANIC") /\ Others(p)
<1>1. /\ pc[p] = "eval" /\ sleep_finish(p, mode[p].timed, c_wait[p])
      /\ pc' = [pc EXCEPT ![p] = "sleep"] /\ wait' = [wait EXCEPT ![p] = c_wait[p]]
      /\ UNCHANGED <<c_wait, wakers, mode, sent>>
  BY DEF CondEval
<1>2. mode[p].timed \in BOOLEAN /\ c_wait[p] \in BOOLEAN /\ SleepTypeOK /\ SleepGood(p)
  BY DEF KsInv, TypeOK
<1>3. /\ SleepTypeOK' /\ Others(p) /\ SleepGood(p)' /\ p_stat' = p_stat
      /\ sf'[p].pc \in InFinish /\ (Willing(p)' => c_wait[p])
  BY <1>1, <1>2, ChanAssumption, sleep_finishGood
<1>4. TypeOK'
  BY <1>1, <1>2, <1>3 DEF KsInv, TypeOK, PC
<1>5. pc'[p] = "sleep"
  BY <1>1 DEF KsInv, TypeOK
<1>6. Located(p)' /\ Owed(p)'
  BY <1>1, <1>3, <1>5 DEF Located, Owed
<1>7. QED
  BY <1>1, <1>3, <1>4, <1>6, StepKeeps DEF KsInv, TypeOK

\* sleep_finish() returns to cond_wait().
LEMMA CondReturnKeeps ==
    ASSUME KsInv, NEW p \in Thread, CondReturn(p)
    PROVE  KsInv' /\ (p_stat[p] # "PANIC" => p_stat'[p] # "PANIC") /\ Others(p)
<1>1. PICK l \in {"setup", "userret"} : pc' = [pc EXCEPT ![p] = l]
  BY DEF CondReturn
<1>2. SleepReturned(p) /\ UNCHANGED <<c_wait, wakers, mode, wait, sent>>
  BY DEF CondReturn
<1>3. Kept(p) /\ sf'[p].pc = "run"
  BY <1>2, ChanAssumption, SleepReturnedGood DEF KsInv, TypeOK
<1>4. TypeOK'
  BY <1>1, <1>2, <1>3 DEF KsInv, TypeOK, PC, Kept
<1>5. pc'[p] = l
  BY <1>1 DEF KsInv, TypeOK
<1>6. Located(p)' /\ Owed(p)'
  BY <1>3, <1>5 DEF Located, Owed, Willing, InUser
<1>7. QED
  BY <1>1, <1>2, <1>3, <1>4, <1>6, StepKeeps DEF KsInv, TypeOK, Kept

\* The return to user mode.
LEMMA UserretKeeps ==
    ASSUME KsInv, NEW p \in Thread, Userret(p)
    PROVE  KsInv' /\ (p_stat[p] # "PANIC" => p_stat'[p] # "PANIC") /\ Others(p)
<1>1. pc[p] = "userret" /\ UNCHANGED <<c_wait, wakers, mode, wait, sent>>
  BY DEF Userret
<1>2. CASE UserretStep(p) /\ UNCHANGED pc
  <2>1. Kept(p) /\ sf'[p].pc \in InUser
    BY <1>2, ChanAssumption, UserretStepGood DEF KsInv, TypeOK
  <2>2. TypeOK'
    BY <1>1, <1>2, <2>1 DEF KsInv, TypeOK, Kept
  <2>3. Located(p)'
    BY <1>1, <1>2, <2>1 DEF Located
  <2>4. Owed(p)'
    BY <1>1, <2>1 DEF Kept, Owed, KsInv
  <2>5. QED
    BY <1>1, <1>2, <2>1, <2>2, <2>3, <2>4, StepKeeps DEF Kept
<1>3. CASE sf[p].pc = "run" /\ pc' = [pc EXCEPT ![p] = "idle"] /\ UNCHANGED sleepVars
  <2>1. SleepTypeOK' /\ Others(p) /\ SleepGood(p)' /\ (Willing(p)' <=> Willing(p))
    BY <1>3, NoSleepStep DEF KsInv, TypeOK
  <2>2. TypeOK'
    BY <1>1, <1>3, <2>1 DEF KsInv, TypeOK, PC
  <2>3. pc'[p] = "idle" /\ sf' = sf /\ p_stat' = p_stat
    BY <1>3 DEF sleepVars, KsInv, TypeOK
  <2>4. Located(p)'
    BY <1>3, <2>3 DEF Located
  <2>5. Owed(p)'
    BY <1>1, <2>1 DEF Owed, KsInv
  <2>6. QED
    BY <1>1, <1>3, <2>1, <2>2, <2>3, <2>4, <2>5, StepKeeps DEF KsInv, TypeOK
<1>4. QED
  BY <1>2, <1>3 DEF Userret

\* A step inside sleep_finish(), or out of a stop.
LEMMA SleepKeeps ==
    ASSUME KsInv, NEW p \in Thread, SleepStep(p), UNCHANGED condVars
    PROVE  /\ KsInv' /\ Others(p)
           /\ p_stat[p] # "PANIC" =>
                 p_stat'[p] # "PANIC" \/ (sf[p].pc = "stopself" /\ "P_SUSPSIG" \in p_flag[p])
<1>1. /\ c_wait' = c_wait /\ wakers' = wakers /\ pc' = pc /\ mode' = mode /\ wait' = wait
      /\ sent' = sent
  BY DEF condVars
<1>2. /\ SleepTypeOK' /\ Others(p) /\ SleepGood(p)' /\ (Willing(p)' => Willing(p))
      /\ \/ sf[p].pc \in InFinish /\ sf'[p].pc \in InFinish
         \/ sf[p].pc = "userswtch" /\ sf'[p].pc = "run"
      /\ p_stat[p] # "PANIC" =>
            p_stat'[p] # "PANIC" \/ (sf[p].pc = "stopself" /\ "P_SUSPSIG" \in p_flag[p])
  BY ChanAssumption, SleepStepGood DEF KsInv, TypeOK
<1>3. TypeOK'
  BY <1>1, <1>2 DEF KsInv, TypeOK
<1>4. Located(p)'
  <2>1. Located(p)
    BY DEF KsInv
  <2>2. QED
    BY <1>1, <1>2, <2>1 DEF Located, InFinish, InUser
<1>5. Owed(p)'
  BY <1>1, <1>2 DEF KsInv, Owed
<1>6. QED
  BY <1>1, <1>2, <1>3, <1>4, <1>5, StepKeeps

\* Steps by others than the thread: it stays where it is.
LEMMA ForeignKeeps ==
    ASSUME KsInv, NEW p \in Thread, Kept(p), sf' = sf, UNCHANGED <<pc, mode, wait>>,
           c_wait' = c_wait, wakers' \in [Thread -> 0..MaxWakers], sent' \in [Signal -> Nat],
           \A q \in Thread \ {p} : wakers'[q] = wakers[q],
           ~Willing(p)' \/ wakers' = wakers
    PROVE  KsInv'
<1>1. TypeOK'
  BY DEF KsInv, TypeOK, Kept
<1>2. Located(p)'
  BY DEF KsInv, Located
<1>3. Owed(p)'
  BY DEF KsInv, Owed, Kept
<1>4. QED
  BY <1>1, <1>2, <1>3, StepKeeps DEF Kept

\* The timeout of the sleep.
LEMMA ClockKeeps ==
    ASSUME KsInv, NEW p \in Thread, ClockStep(p)
    PROVE  KsInv' /\ (p_stat[p] # "PANIC" => p_stat'[p] # "PANIC") /\ Others(p)
<1>1. TimeoutStep(p) /\ UNCHANGED <<c_wait, wakers, pc, mode, wait, sent>>
  BY DEF ClockStep, condVars
<1>2. Kept(p) /\ sf' = sf
  BY <1>1, ChanAssumption, TimeoutStepGood DEF KsInv, TypeOK
<1>3. wakers' \in [Thread -> 0..MaxWakers] /\ sent' \in [Signal -> Nat]
  BY <1>1 DEF KsInv, TypeOK
<1>4. QED
  BY <1>1, <1>2, <1>3, ForeignKeeps DEF Kept

\* cond_signal_handler() clears c_wait: from now on a wakeup is owed.
LEMMA StoreKeeps ==
    ASSUME KsInv, NEW p \in Thread, CondSignalStore(p)
    PROVE  KsInv'
<1>1. /\ UNCHANGED <<sleepVars, pc, mode, wait, sent>> /\ wakers[p] < MaxWakers
      /\ c_wait' = [c_wait EXCEPT ![p] = FALSE] /\ wakers' = [wakers EXCEPT ![p] = wakers[p] + 1]
  BY DEF CondSignalStore
<1>2. SleepTypeOK' /\ Others(p) /\ SleepGood(p)' /\ (Willing(p)' <=> Willing(p))
  BY <1>1, NoSleepStep DEF KsInv, TypeOK
<1>3. /\ wakers' \in [Thread -> 0..MaxWakers] /\ wakers'[p] > 0
      /\ c_wait' \in [Thread -> BOOLEAN]
      /\ \A q \in Thread \ {p} : c_wait'[q] = c_wait[q] /\ wakers'[q] = wakers[q]
  BY <1>1, BoundAssumption DEF KsInv, TypeOK
<1>4. TypeOK'
  BY <1>1, <1>2, <1>3 DEF KsInv, TypeOK
<1>5. Located(p)'
  BY <1>1 DEF sleepVars, KsInv, Located
<1>6. Owed(p)'
  BY <1>3 DEF Owed
<1>7. QED
  BY <1>1, <1>2, <1>3, <1>4, <1>5, <1>6, StepKeeps

\* cond_signal_handler() calls wakeup_one(): nobody is left on the queue.
LEMMA WakeKeeps ==
    ASSUME KsInv, NEW p \in Thread, CondSignalWake(p)
    PROVE  KsInv' /\ (p_stat[p] # "PANIC" => p_stat'[p] # "PANIC") /\ Others(p)
<1>1. /\ wakers[p] > 0 /\ wakeup_n(p, 1) /\ wakers' = [wakers EXCEPT ![p] = wakers[p] - 1]
      /\ UNCHANGED <<c_wait, pc, mode, wait, sent>>
  BY DEF CondSignalWake
<1>2. Kept(p) /\ sf' = sf /\ ~Willing(p)'
  BY <1>1, ChanAssumption, WakeupGood DEF KsInv, TypeOK
<1>3. /\ wakers' \in [Thread -> 0..MaxWakers] /\ sent' \in [Signal -> Nat]
      /\ \A q \in Thread \ {p} : wakers'[q] = wakers[q]
  BY <1>1, BoundAssumption DEF KsInv, TypeOK
<1>4. QED
  BY <1>1, <1>2, <1>3, ForeignKeeps DEF Kept

\* A signal is sent.
LEMMA KillKeeps ==
    ASSUME KsInv, NEW p \in Thread, NEW s \in Signal, Kill(p, s)
    PROVE  KsInv' /\ (p_stat[p] # "PANIC" => p_stat'[p] # "PANIC") /\ Others(p)
<1>1. ptsignal(p, s) /\ sent' = [sent EXCEPT ![s] = sent[s] + 1]
      /\ UNCHANGED <<c_wait, wakers, pc, mode, wait>>
  BY DEF Kill
<1>2. Kept(p) /\ sf' = sf
  BY <1>1, ChanAssumption, SignalGood DEF KsInv, TypeOK
<1>3. wakers' \in [Thread -> 0..MaxWakers] /\ sent' \in [Signal -> Nat]
  BY <1>1 DEF KsInv, TypeOK
<1>4. QED
  BY <1>1, <1>2, <1>3, ForeignKeeps DEF Kept

-----------------------------------------------------------------------------
(* The invariant and what follows from it.                                 *)

\* Initially nobody sleeps and nobody is owed anything.
LEMMA KsInit == Init => KsInv
<1> SUFFICES ASSUME Init PROVE KsInv
  OBVIOUS
<1>1. /\ SleepTypeOK
      /\ \A p \in Thread : SleepGood(p) /\ sf[p].pc = "run" /\ p_stat[p] # "PANIC"
  BY ChanAssumption, SleepInitGood DEF Init
<1>2. TypeOK
  BY <1>1, BoundAssumption DEF Init, TypeOK, PC
<1>3. \A p \in Thread : Located(p) /\ Owed(p)
  BY <1>1 DEF Init, Located, Owed, Willing
<1>4. QED
  BY <1>1, <1>2, <1>3 DEF KsInv

\* Every step keeps the invariant; it fails a check of the code only in
\* process_stop(), for a thread that is about to stop itself.
LEMMA KsStep ==
    ASSUME KsInv, [Next]_vars
    PROVE  KsInv' /\ (SelfStopAssertion /\ NoPanic => NoPanic')
<1>1. CASE UNCHANGED vars
  <2>1. UNCHANGED sleepVars /\ UNCHANGED condVars
    BY <1>1 DEF vars
  <2>2. /\ c_wait' = c_wait /\ wakers' = wakers /\ pc' = pc /\ mode' = mode /\ wait' = wait
        /\ sent' = sent /\ sf' = sf /\ p_stat' = p_stat
    BY <2>1 DEF condVars, sleepVars
  <2>3. ASSUME NEW p \in Thread
        PROVE  KsInv'
    <3>1. SleepTypeOK' /\ Others(p) /\ SleepGood(p)' /\ (Willing(p)' <=> Willing(p))
      BY <2>1, NoSleepStep DEF KsInv, TypeOK
    <3>2. TypeOK'
      BY <2>2, <3>1 DEF KsInv, TypeOK
    <3>3. Located(p)' /\ Owed(p)'
      BY <2>2, <3>1 DEF KsInv, Located, Owed
    <3>4. QED
      BY <2>2, <3>1, <3>2, <3>3, StepKeeps
  <2>4. CASE Thread = {}
    <3>1. SleepTypeOK'
      BY <2>1, TypesPrimed DEF sleepVars, KsInv, TypeOK, SleepTypeOK
    <3>2. QED
      BY <2>2, <2>4, <3>1 DEF KsInv, TypeOK, NoPanic
  <2>5. QED
    BY <2>2, <2>3, <2>4 DEF NoPanic
<1>2. ASSUME NEW p \in Thread,
             \/ cond_init(p) \/ ThreadStep(p) \/ ClockStep(p)
             \/ CondSignalStore(p) \/ CondSignalWake(p)
             \/ \E s \in Signal : Kill(p, s)
      PROVE  KsInv' /\ (SelfStopAssertion /\ NoPanic => NoPanic')
  <2>0. ASSUME KsInv' /\ Others(p),
               p_stat[p] # "PANIC" =>
                  p_stat'[p] # "PANIC" \/ (sf[p].pc = "stopself" /\ "P_SUSPSIG" \in p_flag[p])
        PROVE  KsInv' /\ (SelfStopAssertion /\ NoPanic => NoPanic')
    <3>1. \A q \in Thread \ {p} : p_stat'[q] = p_stat[q]
      BY <2>0 DEF Others
    <3>2. QED
      BY <2>0, <3>1 DEF SelfStopAssertion, NoPanic
  <2>1. CASE cond_init(p) \/ CondLoad(p) \/ CondSignalStore(p)
    <3>1. KsInv'
      BY <2>1, cond_initKeeps, CondLoadKeeps, StoreKeeps
    <3>2. p_stat' = p_stat
      BY <2>1 DEF cond_init, CondLoad, CondSignalStore, sleepVars
    <3>3. QED
      BY <3>1, <3>2 DEF NoPanic
  <2>2. CASE CondSetup(p)
    BY <2>0, <2>2, CondSetupKeeps
  <2>3. CASE CondEval(p)
    BY <2>0, <2>3, CondEvalKeeps
  <2>4. CASE CondReturn(p)
    BY <2>0, <2>4, CondReturnKeeps
  <2>5. CASE Userret(p)
    BY <2>0, <2>5, UserretKeeps
  <2>6. CASE SleepStep(p) /\ UNCHANGED condVars
    BY <2>0, <2>6, SleepKeeps
  <2>7. CASE ClockStep(p)
    BY <2>0, <2>7, ClockKeeps
  <2>8. CASE CondSignalWake(p)
    BY <2>0, <2>8, WakeKeeps
  <2>9. ASSUME NEW s \in Signal, Kill(p, s)
        PROVE  KsInv' /\ (SelfStopAssertion /\ NoPanic => NoPanic')
    BY <2>0, <2>9, KillKeeps
  <2>10. QED
    BY <1>2, <2>1, <2>2, <2>3, <2>4, <2>5, <2>6, <2>7, <2>8, <2>9 DEF ThreadStep
<1>3. QED
  BY <1>1, <1>2 DEF Next

\* The invariant holds in every reachable state.
THEOREM SynchInvariant == Spec => []KsInv
<1>1. KsInv /\ [Next]_vars => KsInv'
  BY KsStep
<1>2. QED
  BY KsInit, <1>1, PTL DEF Spec

\* A thread is on the queue of the channel it sleeps on, once, and on no
\* other: sleep_setup, unsleep and wakeup_n keep slpque and p_wchan in step.
THEOREM QueuesMatch == Spec => []QueueMatchesWchan
<1>1. KsInv => QueueMatchesWchan
  <2> SUFFICES ASSUME KsInv PROVE QueueMatchesWchan
    OBVIOUS
  <2> USE NULLAssumption, ChanAssumption
  <2>1. ASSUME NEW p \in Thread, NEW c \in Chan
        PROVE  Cardinality({i \in 1..Len(slpque[c]) : slpque[c][i] = p})
                  = IF p_wchan[p] = c THEN 1 ELSE 0
    <3>1. /\ p_wchan[c] \in {NULL, c} /\ p_wchan[p] \in {NULL, p}
          /\ slpque[c] = IF p_wchan[c] = NULL THEN <<>> ELSE <<c>>
      BY DEF KsInv, SleepGood, Placed
    <3>2. Cardinality({}) = 0 /\ Cardinality({1}) = 1
      BY FS_EmptySet, FS_Singleton, Zenon
    <3>3. CASE p_wchan[c] = NULL
      <4>1. {i \in 1..Len(slpque[c]) : slpque[c][i] = p} = {} /\ p_wchan[p] # c
        BY <3>1, <3>3
      <4>2. QED
        BY <3>2, <4>1
    <3>4. CASE p_wchan[c] # NULL /\ p = c
      <4>1. {i \in 1..Len(slpque[c]) : slpque[c][i] = p} = {1} /\ p_wchan[p] = c
        BY <3>1, <3>4
      <4>2. QED
        BY <3>2, <4>1
    <3>5. CASE p_wchan[c] # NULL /\ p # c
      <4>1. {i \in 1..Len(slpque[c]) : slpque[c][i] = p} = {} /\ p_wchan[p] # c
        BY <3>1, <3>5
      <4>2. QED
        BY <3>2, <4>1
    <3>6. QED
      BY <3>3, <3>4, <3>5
  <2>2. QED
    BY <2>1 DEF QueueMatchesWchan, KsInv
<1>2. QED
  BY <1>1, SynchInvariant, PTL

\* No wakeup is lost: cond_wait queues itself before it loads c_wait, and
\* cond_signal_handler stores before it wakes.
THEOREM WakeupsArrive == Spec => []NoLostWakeup
<1>1. KsInv => NoLostWakeup
  BY DEF KsInv, NoLostWakeup, Asleep, SleepGood, Placed, Owed, Willing
<1>2. QED
  BY <1>1, SynchInvariant, PTL

\* No caught signal is slept through, whichever side of sleep_signal_check it
\* arrives on.
THEOREM SignalsEndSleep == Spec => []SignalEndsSleep
<1>1. KsInv => SignalEndsSleep
  BY DEF KsInv, SignalEndsSleep, Asleep, SleepGood, Interruptible
<1>2. QED
  BY <1>1, SynchInvariant, PTL

\* A timed sleep has its timeout ahead of it, and endtsleep() does not touch a
\* thread that has left sleep_finish.
THEOREM TimeoutsHandshake == Spec => []TimeoutHandshake
<1>1. KsInv => TimeoutHandshake
  <2> SUFFICES ASSUME KsInv, NEW p \in Thread
               PROVE  /\ Asleep(p) /\ sf[p].timed => sleep_to[p] \in {"armed", "firing"}
                      /\ sf[p].pc \in {"run", "setup", "recheck", "done"} =>
                           /\ sleep_to[p] = "off"
                           /\ p_flag[p] \cap {"P_TIMEOUT", "P_TIMEOUTRAN"} = {}
    BY DEF TimeoutHandshake
  <2>1. Timed(p)
    BY DEF KsInv, SleepGood
  <2>2. QED
    BY <2>1 DEF Timed, Asleep
<1>2. QED
  BY <1>1, SynchInvariant, PTL

\* The assertion of process_stop() is the only check that can fail: without
\* it failing, none does, for any number and any order of signals.
THEOREM OnlyStopPanics == Spec /\ []SelfStopAssertion => []NoPanic
<1>1. Init => NoPanic
  BY ChanAssumption, SleepInitGood DEF Init, NoPanic
<1>2. KsInv /\ SelfStopAssertion /\ NoPanic /\ [Next]_vars => NoPanic'
  BY KsStep
<1>3. QED
  BY <1>1, <1>2, SynchInvariant, PTL DEF Spec

-----------------------------------------------------------------------------
(* With one SIGSTOP the assertion of process_stop() holds.                 *)

\* How far the one stop has got with a thread: not sent, pending, on its way
\* through sleep_signal_check or userret, or in effect; never two of these.
OneStop(p) ==
    /\ "P_SUSPSIG" \in p_flag[p] =>
          /\ "STOP" \notin Pending(p) /\ sf[p].pc # "stopself"
          /\ sf[p].pc = "userstop" => "P_INSCHED" \in p_flag[p]
    /\ sf[p].pc = "stopself" => "STOP" \notin ps_siglist[p]
    /\ sf[p].pc = "userstop" => "STOP" \notin Pending(p)

\* Nothing of a stop is to be seen on the thread.
Unstopped(p) ==
    /\ "STOP" \notin Pending(p) /\ "P_SUSPSIG" \notin p_flag[p]
    /\ sf[p].pc \notin {"stopself", "userstop"}

StopInv == /\ sent["STOP"] <= MaxSignal["STOP"]
           /\ \A p \in Thread : OneStop(p) /\ (sent["STOP"] = 0 => Unstopped(p))

\* A step that brings no stop on its way.
Quiet(p) ==
    /\ "STOP" \in p_siglist'[p] \cup ps_siglist'[p] => "STOP" \in Pending(p)
    /\ "STOP" \in ps_siglist'[p] => "STOP" \in ps_siglist[p]
    /\ "P_SUSPSIG" \in p_flag'[p] => "P_SUSPSIG" \in p_flag[p]
    /\ \/ sf'[p].pc \notin {"stopself", "userstop"}
       \/ /\ sf'[p].pc = sf[p].pc
          /\ "P_INSCHED" \in p_flag[p] => "P_INSCHED" \in p_flag'[p]

\* A quiet step leaves the stop where it is.
LEMMA QuietKeeps ==
    ASSUME NEW p \in Thread, OneStop(p), Quiet(p)
    PROVE  OneStop(p)' /\ (Unstopped(p) => Unstopped(p)')
<1>1. Pending(p)' = p_siglist'[p] \cup ps_siglist'[p]
  BY DEF Pending
<1>2. OneStop(p)'
  BY <1>1 DEF OneStop, Quiet
<1>3. Unstopped(p) => Unstopped(p)'
  BY <1>1 DEF Unstopped, Quiet
<1>4. QED
  BY <1>2, <1>3

\* The stop is kept for the others as well.
LEMMA StopOthers ==
    ASSUME StopInv, NEW p \in Thread, Others(p), OneStop(p)',
           sent'["STOP"] <= MaxSignal["STOP"],
           sent'["STOP"] = 0 => Unstopped(p)' /\ sent["STOP"] = 0
    PROVE  StopInv'
<1>1. ASSUME NEW q \in Thread \ {p}
      PROVE  OneStop(q)' /\ (Unstopped(q) => Unstopped(q)')
  <2>1. Quiet(q)
    BY DEF Others, Quiet, Pending
  <2>2. QED
    BY <2>1, QuietKeeps DEF StopInv
<1>2. QED
  BY <1>1 DEF StopInv

\* sleep_finish(): only the check before the sleep finds a stop, and only
\* StopSelf puts it into effect.
LEMMA SleepStops ==
    ASSUME KsInv, NEW p \in Thread, OneStop(p), SleepStep(p)
    PROVE  OneStop(p)' /\ (Unstopped(p) => Unstopped(p)')
<1> USE ChanAssumption
<1>0. SleepTypeOK /\ SleepGood(p)
  BY DEF KsInv, TypeOK
<1>1. CASE CheckBefore(p)
  <2>1. /\ sf[p].pc = "check" /\ cursigDeep(p) /\ p_flag' = p_flag
        /\ sf'[p].pc \in {"lock", "stopself"}
    BY <1>0, <1>1, CheckBeforeGood DEF CheckBefore
  <2>2. Pending(p)' = Pending(p) /\ ps_siglist'[p] = ps_siglist[p] \ Taken(p)
    BY <1>0, <2>1, cursigEffect
  <2>3. sf'[p].pc = "stopself" => SignalError(p) = "0" /\ Pending(p) # {}
    BY <1>0, <1>1 DEF CheckBefore, SleepTypeOK
  <2>4. Pending(p) \subseteq Signal
    BY <1>0 DEF Pending, SleepTypeOK
  <2>5. sf'[p].pc = "stopself" => Pending(p) = {"STOP"} /\ Taken(p) = {"STOP"}
    BY <2>3, <2>4 DEF SignalError, Taken, Signal
  <2>6. OneStop(p)' /\ (Unstopped(p) => Unstopped(p)')
    BY <2>1, <2>2, <2>5 DEF OneStop, Unstopped
  <2>7. QED
    BY <2>6
<1>2. CASE StopSelf(p)
  <2>1. sf[p].pc = "stopself" /\ sf'[p].pc = "lock"
    BY <1>0, <1>2, StopSelfGood
  <2>2. p_siglist'[p] = p_siglist[p] \ {"STOP"} /\ ps_siglist' = ps_siglist
    BY <1>0, <1>2 DEF StopSelf, SleepTypeOK
  <2>3. "STOP" \notin Pending(p)'
    BY <2>1, <2>2 DEF OneStop, Pending
  <2>4. QED
    BY <2>1, <2>3 DEF OneStop, Unstopped
<1>3. CASE FinishLocked(p) \/ Switchto(p) \/ CancelTimeout(p)
  <2>1. sf'[p].pc \notin {"stopself", "userstop"}
    BY <1>0, <1>3, FinishLockedGood, SwitchtoGood, CancelTimeoutGood
  <2>2. UNCHANGED <<p_siglist, ps_siglist>>
    BY <1>3 DEF FinishLocked, Switchto, CancelTimeout
  <2>3. p_flag'[p] \subseteq p_flag[p]
    BY <1>0, <1>3 DEF FinishLocked, Switchto, CancelTimeout, SleepTypeOK
  <2>4. Quiet(p)
    BY <2>1, <2>2, <2>3 DEF Quiet, Pending
  <2>5. QED
    BY <2>4, QuietKeeps
<1>4. CASE CheckAfter(p)
  <2>1. sf'[p].pc = "done" /\ cursigDeep(p) /\ p_flag' = p_flag
    BY <1>0, <1>4, CheckAfterGood DEF CheckAfter
  <2>2. Pending(p)' = Pending(p) /\ ps_siglist'[p] = ps_siglist[p] \ Taken(p)
    BY <1>0, <2>1, cursigEffect
  <2>3. QED
    BY <2>1, <2>2 DEF OneStop, Unstopped
<1>5. QED
  BY <1>1, <1>2, <1>3, <1>4 DEF SleepStep

\* userret(): cursig takes the stop before process_stop puts it into effect.
LEMMA UserretStops ==
    ASSUME KsInv, NEW p \in Thread, OneStop(p), UserretStep(p)
    PROVE  OneStop(p)' /\ (Unstopped(p) => Unstopped(p)')
<1> USE ChanAssumption
<1>0. SleepTypeOK /\ SleepGood(p)
  BY DEF KsInv, TypeOK
<1>1. CASE UserretSignal(p)
  <2>1. PICK s \in Pending(p) :
           /\ p_siglist' = [p_siglist EXCEPT ![p] = @ \ {s}]
           /\ ps_siglist' = [ps_siglist EXCEPT ![p] = @ \ {s}]
           /\ sf' = IF s = "STOP" THEN [sf EXCEPT ![p].pc = "userstop"] ELSE sf
    BY <1>1 DEF UserretSignal
  <2>2. sf[p].pc = "run" /\ p_flag' = p_flag
    BY <1>1 DEF UserretSignal
  <2>3. p_siglist'[p] = p_siglist[p] \ {s} /\ ps_siglist'[p] = ps_siglist[p] \ {s}
    BY <1>0, <2>1 DEF SleepTypeOK
  <2>4. CASE s = "STOP"
    <3>1. sf'[p].pc = "userstop" /\ "STOP" \notin Pending(p)'
      BY <1>0, <2>1, <2>3, <2>4 DEF SleepTypeOK, Pending
    <3>2. QED
      BY <2>2, <2>4, <3>1 DEF OneStop, Unstopped
  <2>5. CASE s # "STOP"
    <3>1. sf' = sf
      BY <2>1, <2>5
    <3>2. Quiet(p)
      BY <2>2, <2>3, <3>1 DEF Quiet, Pending
    <3>3. QED
      BY <3>2, QuietKeeps
  <2>6. QED
    BY <2>4, <2>5
<1>2. CASE UserretStop(p)
  <2>1. sf[p].pc = "userstop" /\ UNCHANGED <<p_siglist, ps_siglist, sf>>
    BY <1>2 DEF UserretStop
  <2>2. p_flag'[p] = p_flag[p] \cup {"P_SUSPSIG", "P_INSCHED"}
    BY <1>0, <1>2 DEF UserretStop, SleepTypeOK
  <2>3. Pending(p)' = Pending(p)
    BY <2>1 DEF Pending
  <2>4. QED
    BY <2>1, <2>2, <2>3 DEF OneStop, Unstopped
<1>3. CASE UserretSwitch(p)
  <2>1. PICK l \in {"userswtch", "run"} : sf' = [sf EXCEPT ![p].pc = l]
    BY <1>3 DEF UserretSwitch
  <2>2. sf'[p].pc = l
    BY <1>0, <2>1 DEF SleepTypeOK
  <2>3. UNCHANGED <<p_siglist, ps_siglist>> /\ p_flag'[p] \subseteq p_flag[p]
    BY <1>0, <1>3 DEF UserretSwitch, SleepTypeOK
  <2>4. Quiet(p)
    BY <2>2, <2>3 DEF Quiet, Pending
  <2>5. QED
    BY <2>4, QuietKeeps
<1>4. QED
  BY <1>1, <1>2, <1>3 DEF UserretStep

\* ptsignal(): the first stop finds none before it; CONT takes one back.
LEMMA KillStops ==
    ASSUME KsInv, MaxSignal["STOP"] <= 1, StopInv,
           NEW p \in Thread, NEW s \in Signal, Kill(p, s)
    PROVE  StopInv'
<1> USE ChanAssumption
<1>0. SleepTypeOK /\ SleepGood(p) /\ sent \in [Signal -> Nat] /\ OneStop(p)
      /\ MaxSignal["STOP"] \in Nat /\ "STOP" \in Signal
  BY BoundAssumption DEF KsInv, TypeOK, StopInv, Signal
<1>1. /\ sent[s] < MaxSignal[s] /\ ptsignal(p, s)
      /\ sent' = [sent EXCEPT ![s] = sent[s] + 1]
  BY DEF Kill
<1>2. /\ p_siglist'[p] = IF s = "INTR" THEN p_siglist[p] \cup {s} ELSE p_siglist[p]
      /\ ps_siglist'[p] \subseteq ps_siglist[p] \cup {s}
      /\ s # "INTR" /\ Consumed(p, s) => s \notin ps_siglist'[p] \/ s \in ps_siglist[p]
  BY <1>0, <1>1, SignalPends
<1>3. Others(p) /\ sf' = sf
  BY <1>0, <1>1, SignalGood DEF Kept
<1>4. CASE s # "STOP"
  <2>1. sent'["STOP"] = sent["STOP"]
    BY <1>0, <1>1, <1>4
  <2>2. p_flag'[p] = p_flag[p] \/ p_flag'[p] = p_flag[p] \ {"P_SUSPSIG"}
    BY <1>0, <1>1, <1>4 DEF ptsignal, SignalSleeping, SignalStopped, process_continue, SleepTypeOK
  <2>3. Quiet(p)
    BY <1>2, <1>3, <1>4, <2>2 DEF Quiet, Pending
  <2>4. QED
    BY <1>3, <2>1, <2>3, QuietKeeps, StopOthers DEF StopInv
<1>5. CASE s = "STOP"
  <2>1. sent["STOP"] = 0 /\ sent'["STOP"] = 1 /\ sent'["STOP"] <= MaxSignal["STOP"]
    BY <1>0, <1>1, <1>5
  <2>2. Unstopped(p)
    BY <2>1 DEF StopInv
  <2>3. \/ p_flag'[p] = p_flag[p]
        \/ Consumed(p, s)
    BY <1>0, <1>1, <1>5 DEF ptsignal, SignalSleeping, SignalStopped, Consumed, SleepTypeOK
  <2>4. "P_SUSPSIG" \in p_flag'[p] => "STOP" \notin Pending(p)'
    BY <1>2, <1>5, <2>2, <2>3 DEF Unstopped, Pending
  <2>5. OneStop(p)'
    BY <1>3, <2>2, <2>4 DEF OneStop, Unstopped
  <2>6. QED
    BY <1>3, <2>1, <2>5, StopOthers
<1>6. QED
  BY <1>4, <1>5

\* Every step keeps the one stop.
LEMMA StopStep ==
    ASSUME KsInv, MaxSignal["STOP"] <= 1, StopInv, [Next]_vars
    PROVE  StopInv'
<1> USE ChanAssumption
<1>1. ASSUME UNCHANGED sleepVars, sent' = sent
      PROVE  StopInv'
  <2>1. p_flag' = p_flag /\ p_siglist' = p_siglist /\ ps_siglist' = ps_siglist /\ sf' = sf
    BY <1>1 DEF sleepVars
  <2>2. \A p \in Thread : Quiet(p)
    BY <2>1 DEF Quiet, Pending
  <2>3. QED
    BY <1>1, <2>2, QuietKeeps DEF StopInv
<1>2. ASSUME NEW p \in Thread, Others(p), OneStop(p)' /\ (Unstopped(p) => Unstopped(p)'),
             sent' = sent
      PROVE  StopInv'
  BY <1>2, StopOthers DEF StopInv
<1>3. CASE UNCHANGED vars
  BY <1>1, <1>3 DEF vars, condVars
<1>4. ASSUME NEW p \in Thread,
             \/ cond_init(p) \/ ThreadStep(p) \/ ClockStep(p)
             \/ CondSignalStore(p) \/ CondSignalWake(p)
             \/ \E s \in Signal : Kill(p, s)
      PROVE  StopInv'
  <2>0. SleepTypeOK /\ SleepGood(p) /\ OneStop(p) /\ mode[p].catch \in BOOLEAN
    BY DEF KsInv, TypeOK, StopInv
  <2>1. CASE cond_init(p) \/ CondLoad(p) \/ CondSignalStore(p)
    BY <1>1, <2>1 DEF cond_init, CondLoad, CondSignalStore
  <2>2. CASE CondSetup(p)
    <3>1. sent' = sent /\ sleep_setup(p, p, mode[p].catch)
      BY <2>2 DEF CondSetup
    <3>2. sf'[p].pc = "setup" /\ Others(p)
      BY <2>0, <3>1, sleep_setupGood DEF Kept
    <3>3. p_siglist' = p_siglist /\ ps_siglist' = ps_siglist
          /\ p_flag'[p] \subseteq p_flag[p] \cup {"P_INSCHED", "P_SINTR"}
      BY <2>0, <3>1 DEF sleep_setup, SleepTypeOK
    <3>4. Quiet(p)
      BY <3>2, <3>3 DEF Quiet, Pending
    <3>5. QED
      BY <1>2, <2>0, <3>1, <3>2, <3>4, QuietKeeps
  <2>3. CASE CondEval(p)
    <3>1. sent' = sent /\ sleep_finish(p, mode[p].timed, c_wait[p])
      BY <2>3 DEF CondEval
    <3>2. Others(p)
      BY <2>3, CondEvalKeeps
    <3>3. sf'[p].pc \in {"check", "lock"} /\ p_flag' = p_flag
          /\ p_siglist' = p_siglist /\ ps_siglist' = ps_siglist
      BY <2>0, <3>1 DEF sleep_finish, SleepTypeOK
    <3>4. Quiet(p)
      BY <3>3 DEF Quiet, Pending
    <3>5. QED
      BY <1>2, <2>0, <3>1, <3>2, <3>4, QuietKeeps
  <2>4. CASE CondReturn(p)
    <3>1. sent' = sent /\ SleepReturned(p)
      BY <2>4 DEF CondReturn
    <3>2. sf'[p].pc = "run" /\ Others(p)
      BY <2>0, <3>1, SleepReturnedGood DEF Kept
    <3>3. p_flag' = p_flag /\ p_siglist' = p_siglist /\ ps_siglist' = ps_siglist
      BY <3>1 DEF SleepReturned
    <3>4. Quiet(p)
      BY <3>2, <3>3 DEF Quiet, Pending
    <3>5. QED
      BY <1>2, <2>0, <3>1, <3>2, <3>4, QuietKeeps
  <2>5. CASE Userret(p)
    <3>1. CASE UserretStep(p)
      <4>1. Others(p) /\ sent' = sent
        BY <2>5, UserretKeeps DEF Userret
      <4>2. QED
        BY <1>2, <2>0, <3>1, <4>1, UserretStops
    <3>2. CASE UNCHANGED sleepVars
      BY <1>1, <2>5, <3>2 DEF Userret
    <3>3. QED
      BY <2>5, <3>1, <3>2 DEF Userret
  <2>6. CASE SleepStep(p) /\ UNCHANGED condVars
    <3>1. Others(p) /\ sent' = sent
      BY <2>6, SleepKeeps DEF condVars
    <3>2. QED
      BY <1>2, <2>0, <2>6, <3>1, SleepStops
  <2>7. CASE ClockStep(p)
    <3>1. TimeoutStep(p) /\ sent' = sent
      BY <2>7 DEF ClockStep, condVars
    <3>2. sf' = sf /\ Others(p)
      BY <2>0, <3>1, TimeoutStepGood DEF Kept
    <3>3. p_siglist' = p_siglist /\ ps_siglist' = ps_siglist
      BY <3>1 DEF TimeoutStep, softclock, EndtsleepWake, EndtsleepFlags
    <3>4. /\ p_flag[p] \subseteq p_flag'[p]
          /\ p_flag'[p] \subseteq p_flag[p] \cup {"P_TIMEOUT", "P_TIMEOUTRAN"}
      BY <2>0, <3>1 DEF TimeoutStep, softclock, EndtsleepWake, EndtsleepFlags, SleepTypeOK
    <3>5. Quiet(p)
      BY <3>2, <3>3, <3>4 DEF Quiet, Pending
    <3>6. QED
      BY <1>2, <2>0, <3>1, <3>2, <3>5, QuietKeeps
  <2>8. CASE CondSignalWake(p)
    <3>1. Others(p)
      BY <2>8, WakeKeeps
    <3>2. /\ sent' = sent /\ sf' = sf /\ p_flag' = p_flag
          /\ p_siglist' = p_siglist /\ ps_siglist' = ps_siglist
      BY <2>8 DEF CondSignalWake, wakeup_n
    <3>3. Quiet(p)
      BY <3>2 DEF Quiet, Pending
    <3>4. QED
      BY <1>2, <2>0, <3>1, <3>2, <3>3, QuietKeeps
  <2>9. ASSUME NEW s \in Signal, Kill(p, s)
        PROVE  StopInv'
    BY <2>9, KillStops
  <2>10. QED
    BY <1>4, <2>1, <2>2, <2>3, <2>4, <2>5, <2>6, <2>7, <2>8, <2>9 DEF ThreadStep
<1>5. QED
  BY <1>3, <1>4 DEF Next

\* With at most one SIGSTOP no check of the sleep code fails at all, whatever
\* other signals, wakeups and timeouts there are: two stops are what it takes.
THEOREM OneStopNoPanic ==
    ASSUME MaxSignal["STOP"] <= 1
    PROVE  Spec => []NoPanic
<1>1. Init => StopInv
  <2> SUFFICES ASSUME Init PROVE StopInv
    OBVIOUS
  <2>1. \A p \in Thread : /\ p_flag[p] = {} /\ p_siglist[p] = {} /\ ps_siglist[p] = {}
                          /\ sf[p].pc = "run"
    BY DEF Init, SleepInit
  <2>2. \A p \in Thread : OneStop(p) /\ Unstopped(p)
    BY <2>1 DEF OneStop, Unstopped, Pending
  <2>3. sent["STOP"] = 0 /\ MaxSignal["STOP"] \in Nat
    BY BoundAssumption DEF Init, Signal
  <2>4. QED
    BY <2>2, <2>3 DEF StopInv
<1>2. KsInv /\ StopInv /\ [Next]_vars => StopInv'
  BY StopStep
<1>3. StopInv => SelfStopAssertion
  BY DEF StopInv, OneStop, SelfStopAssertion
<1>4. QED
  BY <1>1, <1>2, <1>3, SynchInvariant, OnlyStopPanics, PTL DEF Spec

=============================================================================
