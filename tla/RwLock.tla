------------------------------- MODULE RwLock -------------------------------
(***************************************************************************)
(* The kernel's reader/writer lock, sys/kern/kern_rwlock.c: rw_enter with  *)
(* RW_WRITE, RW_READ, RW_DOWNGRADE and RW_UPGRADE, rw_exit, and the flags  *)
(* RW_NOSLEEP and RW_INTR, on the sleep queues of SleepQueue.              *)
(*                                                                         *)
(* Each action is one atomic access to the lock.  The compare-and-swap     *)
(* loops of rw_read_incr and rw_do_exit_read are one step each: an         *)
(* iteration that fails changes nothing.  Memory is sequentially           *)
(* consistent (the code's membars).  A thread uses one lock and never      *)
(* enters it twice, so the "deadlock" panics of rw_enter are out of reach; *)
(* its sleeps have no timeout (RW_SLEEP_TMO is INFSLP without RWDIAG).     *)
(***************************************************************************)
EXTENDS SleepQueue

CONSTANTS
    EnterFlags, \* the flags rw_enter may be called with
    Signals     \* the signals that may be sent

ASSUME FlagsAssumption == EnterFlags \subseteq SUBSET {"RW_NOSLEEP", "RW_INTR"}
ASSUME SignalsAssumption == Signals \subseteq Signal
ASSUME ThreadAssumption == IsFiniteSet(Thread) /\ NULL \notin Thread
ASSUME ChanAssumption == Chan = {"waiters", "readers"}

VARIABLES
    rwl_owner,   \* the lock word: the writing thread, or the reader count
    rwl_waiters, \* the number of threads waiting to write
    rwl_readers, \* the number of threads waiting to read
    pc,          \* where a thread is in the lock's code
    flags        \* the flags argument of its rw_enter

lockVars == <<rwl_owner, rwl_waiters, rwl_readers>>
vars == <<sleepVars, lockVars, pc, flags>>

(* The lock word.  RWLOCK_WRLOCK is set when it names a thread.            *)
Readers(n) == [proc |-> NULL, count |-> n]
Self(p) == [proc |-> p, count |-> 0]
Unlocked == Readers(0)
WRLOCK == rwl_owner.proc # NULL

(* Where a thread is: inside the lock, or between the rw_inc and the rw_dec *)
(* of the counter it waits under.                                          *)
WritePC == {"write", "w_dec"}
ReadPC == {"read", "r_dec", "d_waiters", "d_readers", "d_wake"}
WriteWaitPC == {"w_setup", "w_load", "w_sleep", "w_cas2", "w_dec", "w_intr"}
ReadWaitPC == {"r_setup", "r_load", "r_load2", "r_sleep", "r_incr2", "r_dec", "r_intr"}
PC == {"idle"} \cup WritePC \cup ReadPC
      \cup {"w_cas", "w_spin"} \cup WriteWaitPC
      \cup {"r_cas", "r_waiters", "r_incr", "r_block"} \cup ReadWaitPC
      \cup {"x_waiters", "x_wakeone", "x_readers", "x_wakeup"}

LockTypeOK ==
    /\ rwl_owner \in [proc : Thread \cup {NULL}, count : Nat]
    /\ rwl_waiters \in Nat
    /\ rwl_readers \in Nat
    /\ pc \in [Thread -> PC]
    /\ flags \in [Thread -> SUBSET {"RW_NOSLEEP", "RW_INTR"}]

Init ==
    /\ SleepInit
    /\ rwl_owner = Unlocked
    /\ rwl_waiters = 0
    /\ rwl_readers = 0
    /\ pc = [p \in Thread |-> "idle"]
    /\ flags = [p \in Thread |-> {}]

Goto(p, l) == pc' = [pc EXCEPT ![p] = l]

-----------------------------------------------------------------------------
(* rw_do_enter_write                                                       *)

EnterWrite(p) ==
    /\ pc[p] = "idle" /\ sf[p].pc = "run"
    /\ \E f \in EnterFlags : flags' = [flags EXCEPT ![p] = f]
    /\ Goto(p, "w_cas")
    /\ UNCHANGED <<sleepVars, lockVars>>

\* rw_cas(&rwl_owner, 0, self): go to l when it won, to m when it lost.
TryWrite(p, l, m) ==
    /\ IF rwl_owner = Unlocked
       THEN rwl_owner' = Self(p) /\ Goto(p, l)
       ELSE UNCHANGED rwl_owner /\ Goto(p, m)
    /\ UNCHANGED <<sleepVars, rwl_waiters, rwl_readers, flags>>

WriteCas(p) == pc[p] = "w_cas" /\ TryWrite(p, "write", "w_spin")

\* The spin wins if it meets a free lock before it gives up; it is skipped
\* under the kernel lock.  Then RW_NOSLEEP fails, the others wait.
WriteSpin(p) ==
    /\ pc[p] = "w_spin"
    /\ \/ /\ rwl_owner = Unlocked
          /\ rwl_owner' = Self(p)
          /\ Goto(p, "write")
          /\ UNCHANGED rwl_waiters
       \/ /\ "RW_NOSLEEP" \in flags[p]
          /\ Goto(p, "idle")
          /\ UNCHANGED <<rwl_owner, rwl_waiters>>
       \/ /\ "RW_NOSLEEP" \notin flags[p]
          /\ rwl_waiters' = rwl_waiters + 1
          /\ Goto(p, "w_setup")
          /\ UNCHANGED rwl_owner
    /\ UNCHANGED <<sleepVars, rwl_readers, flags>>

WriteSetup(p) ==
    /\ pc[p] = "w_setup"
    /\ sleep_setup(p, "waiters", "RW_INTR" \in flags[p])
    /\ Goto(p, "w_load")
    /\ UNCHANGED <<lockVars, flags>>

\* Mutant: the lock word is not looked at again once the thread is queued.
MutWriteLoad(p) ==
    /\ pc[p] = "w_load"
    /\ sleep_finish(p, FALSE, TRUE)
    /\ Goto(p, "w_sleep")
    /\ UNCHANGED <<lockVars, flags>>

WriteLoad(p) ==
    /\ pc[p] = "w_load"
    /\ sleep_finish(p, FALSE, rwl_owner # Unlocked)
    /\ Goto(p, "w_sleep")
    /\ UNCHANGED <<lockVars, flags>>

\* Mutant: an interrupted writer returns without rw_dec.
MutWriteWoken(p) ==
    /\ pc[p] = "w_sleep"
    /\ SleepReturned(p)
    /\ Goto(p, IF sf[p].error # "0" THEN "idle" ELSE "w_cas2")
    /\ UNCHANGED <<lockVars, flags>>

WriteWoken(p) ==
    /\ pc[p] = "w_sleep"
    /\ SleepReturned(p)
    /\ Goto(p, IF "RW_INTR" \in flags[p] /\ sf[p].error # "0"
               THEN "w_intr" ELSE "w_cas2")
    /\ UNCHANGED <<lockVars, flags>>

WriteCas2(p) == pc[p] = "w_cas2" /\ TryWrite(p, "w_dec", "w_setup")

\* rw_dec(&rwl_waiters): with the lock, or after an interrupted wait.
WriteDec(p) ==
    /\ pc[p] \in {"w_dec", "w_intr"}
    /\ rwl_waiters' = rwl_waiters - 1
    /\ Goto(p, IF pc[p] = "w_dec" THEN "write" ELSE "idle")
    /\ UNCHANGED <<sleepVars, rwl_owner, rwl_readers, flags>>

-----------------------------------------------------------------------------
(* rw_do_enter_read                                                        *)

EnterRead(p) ==
    /\ pc[p] = "idle" /\ sf[p].pc = "run"
    /\ \E f \in EnterFlags : flags' = [flags EXCEPT ![p] = f]
    /\ Goto(p, "r_cas")
    /\ UNCHANGED <<sleepVars, lockVars>>

ReadCas(p) ==
    /\ pc[p] = "r_cas"
    /\ IF rwl_owner = Unlocked
       THEN rwl_owner' = Readers(1) /\ Goto(p, "read")
       ELSE UNCHANGED rwl_owner
            /\ Goto(p, IF WRLOCK THEN "r_block" ELSE "r_waiters")
    /\ UNCHANGED <<sleepVars, rwl_waiters, rwl_readers, flags>>

\* A read lock is joined only if no writer waits.
ReadWaiters(p) ==
    /\ pc[p] = "r_waiters"
    /\ Goto(p, IF rwl_waiters = 0 THEN "r_incr" ELSE "r_block")
    /\ UNCHANGED <<sleepVars, lockVars, flags>>

\* Mutant: RWLOCK_WRLOCK is not looked at.
MutRwReadIncr(p, l, m) ==
    /\ rwl_owner' = [rwl_owner EXCEPT !.count = @ + 1]
    /\ Goto(p, l)
    /\ UNCHANGED <<sleepVars, rwl_waiters, rwl_readers, flags>>

\* rw_read_incr: go to l when it counted the reader in, to m if WRLOCK is set.
rw_read_incr(p, l, m) ==
    /\ IF WRLOCK
       THEN UNCHANGED rwl_owner /\ Goto(p, m)
       ELSE rwl_owner' = Readers(rwl_owner.count + 1) /\ Goto(p, l)
    /\ UNCHANGED <<sleepVars, rwl_waiters, rwl_readers, flags>>

ReadIncr(p) == pc[p] = "r_incr" /\ rw_read_incr(p, "read", "r_block")

ReadBlock(p) ==
    /\ pc[p] = "r_block"
    /\ IF "RW_NOSLEEP" \in flags[p]
       THEN Goto(p, "idle") /\ UNCHANGED rwl_readers
       ELSE Goto(p, "r_setup") /\ rwl_readers' = rwl_readers + 1
    /\ UNCHANGED <<sleepVars, rwl_owner, rwl_waiters, flags>>

ReadSetup(p) ==
    /\ pc[p] = "r_setup"
    /\ sleep_setup(p, "readers", "RW_INTR" \in flags[p])
    /\ Goto(p, "r_load")
    /\ UNCHANGED <<lockVars, flags>>

\* The condition is two loads: rwl_waiters, and if that is 0 the lock word.
\* The first alone decides when it is positive; when it is 0 it may be stale
\* by the time the word is loaded, which is the step ReadLoadOwner.
ReadLoad(p) ==
    /\ pc[p] = "r_load"
    /\ \/ rwl_waiters > 0 /\ sleep_finish(p, FALSE, TRUE) /\ Goto(p, "r_sleep")
       \/ rwl_waiters = 0 /\ Goto(p, "r_load2") /\ UNCHANGED sleepVars
    /\ UNCHANGED <<lockVars, flags>>

ReadLoadOwner(p) ==
    /\ pc[p] = "r_load2"
    /\ sleep_finish(p, FALSE, WRLOCK)
    /\ Goto(p, "r_sleep")
    /\ UNCHANGED <<lockVars, flags>>

ReadWoken(p) ==
    /\ pc[p] = "r_sleep"
    /\ SleepReturned(p)
    /\ Goto(p, IF "RW_INTR" \in flags[p] /\ sf[p].error # "0"
               THEN "r_intr" ELSE "r_incr2")
    /\ UNCHANGED <<lockVars, flags>>

ReadIncr2(p) == pc[p] = "r_incr2" /\ rw_read_incr(p, "r_dec", "r_setup")

ReadDec(p) ==
    /\ pc[p] \in {"r_dec", "r_intr"}
    /\ rwl_readers' = rwl_readers - 1
    /\ Goto(p, IF pc[p] = "r_dec" THEN "read" ELSE "idle")
    /\ UNCHANGED <<sleepVars, rwl_owner, rwl_waiters, flags>>

-----------------------------------------------------------------------------
(* rw_downgrade and rw_upgrade                                             *)

Downgrade(p) ==
    /\ pc[p] = "write"
    /\ rwl_owner' = Readers(1)
    /\ Goto(p, "d_waiters")
    /\ UNCHANGED <<sleepVars, rwl_waiters, rwl_readers, flags>>

DowngradeLoad(p) ==
    /\ \/ /\ pc[p] = "d_waiters"
          /\ Goto(p, IF rwl_waiters = 0 THEN "d_readers" ELSE "read")
       \/ /\ pc[p] = "d_readers"
          /\ Goto(p, IF rwl_readers > 0 THEN "d_wake" ELSE "read")
    /\ UNCHANGED <<sleepVars, lockVars, flags>>

DowngradeWake(p) ==
    /\ pc[p] = "d_wake"
    /\ wakeup_n("readers", -1)
    /\ Goto(p, "read")
    /\ UNCHANGED <<lockVars, flags>>

\* Mutant: any reader may upgrade.
MutUpgrade(p) ==
    /\ pc[p] = "read"
    /\ rwl_owner' = Self(p)
    /\ Goto(p, "write")
    /\ UNCHANGED <<sleepVars, rwl_waiters, rwl_readers, flags>>

\* RW_UPGRADE comes with RW_NOSLEEP: EBUSY unless p is the only reader.
Upgrade(p) ==
    /\ pc[p] = "read"
    /\ IF rwl_owner = Readers(1)
       THEN rwl_owner' = Self(p) /\ Goto(p, "write")
       ELSE UNCHANGED <<rwl_owner, pc>>
    /\ UNCHANGED <<sleepVars, rwl_waiters, rwl_readers, flags>>

-----------------------------------------------------------------------------
(* rw_exit and rw_exited                                                   *)

ExitWrite(p) ==
    /\ pc[p] = "write"
    /\ rwl_owner' = Unlocked
    /\ Goto(p, "x_waiters")
    /\ UNCHANGED <<sleepVars, rwl_waiters, rwl_readers, flags>>

\* Mutant: a reader that leaves clears the word.
MutExitRead(p) ==
    /\ pc[p] = "read"
    /\ rwl_owner' = Unlocked
    /\ Goto(p, "x_waiters")
    /\ UNCHANGED <<sleepVars, rwl_waiters, rwl_readers, flags>>

\* Only the last reader out looks for sleepers.
ExitRead(p) ==
    /\ pc[p] = "read"
    /\ rwl_owner' = [rwl_owner EXCEPT !.count = @ - 1]
    /\ Goto(p, IF rwl_owner.count = 1 THEN "x_waiters" ELSE "idle")
    /\ UNCHANGED <<sleepVars, rwl_waiters, rwl_readers, flags>>

\* Mutant: rw_exited wakes writers only.
MutExitedLoad(p) ==
    /\ pc[p] = "x_waiters"
    /\ Goto(p, IF rwl_waiters > 0 THEN "x_wakeone" ELSE "idle")
    /\ UNCHANGED <<sleepVars, lockVars, flags>>

ExitedLoad(p) ==
    /\ \/ /\ pc[p] = "x_waiters"
          /\ Goto(p, IF rwl_waiters > 0 THEN "x_wakeone" ELSE "x_readers")
       \/ /\ pc[p] = "x_readers"
          /\ Goto(p, IF rwl_readers > 0 THEN "x_wakeup" ELSE "idle")
    /\ UNCHANGED <<sleepVars, lockVars, flags>>

ExitedWake(p) ==
    /\ \/ pc[p] = "x_wakeone" /\ wakeup_n("waiters", 1)
       \/ pc[p] = "x_wakeup" /\ wakeup_n("readers", -1)
    /\ Goto(p, "idle")
    /\ UNCHANGED <<lockVars, flags>>

-----------------------------------------------------------------------------
(* The environment of the lock                                             *)

\* A caught signal is sent to p; one at a time is pending.
Kill(p, s) ==
    /\ s \notin Pending(p)
    /\ ptsignal(p, s)
    /\ UNCHANGED <<lockVars, pc, flags>>

\* Outside the lock a thread returns to user mode, where signals are taken.
Userret(p) ==
    /\ pc[p] = "idle"
    /\ UserretStep(p)
    /\ UNCHANGED <<lockVars, pc, flags>>

\* A thread calls rw_enter.
Start(p) == EnterWrite(p) \/ EnterRead(p) \/ Downgrade(p) \/ Upgrade(p)

\* A thread that is inside a call goes on; one that holds the lock exits.
Go(p) ==
    \/ WriteCas(p) \/ WriteSpin(p) \/ WriteSetup(p) \/ WriteLoad(p)
    \/ WriteWoken(p) \/ WriteCas2(p) \/ WriteDec(p)
    \/ ReadCas(p) \/ ReadWaiters(p) \/ ReadIncr(p) \/ ReadBlock(p)
    \/ ReadSetup(p) \/ ReadLoad(p) \/ ReadLoadOwner(p) \/ ReadWoken(p)
    \/ ReadIncr2(p) \/ ReadDec(p)
    \/ DowngradeLoad(p) \/ DowngradeWake(p)
    \/ ExitWrite(p) \/ ExitRead(p) \/ ExitedLoad(p) \/ ExitedWake(p)
    \/ SleepStep(p) /\ UNCHANGED <<lockVars, pc, flags>>
    \/ Userret(p)

Next ==
    \E p \in Thread :
        \/ Start(p) \/ Go(p)
        \/ \E s \in Signals : Kill(p, s)

Spec == Init /\ [][Next]_vars

(* A thread that can run is scheduled, and a holder leaves the lock in the *)
(* end.  Nobody is obliged to enter.                                       *)
Fairness == \A p \in Thread : WF_vars(Go(p))
FairSpec == Spec /\ Fairness

-----------------------------------------------------------------------------
(* Properties                                                              *)

\* Who is inside the lock.
Writing == {p \in Thread : pc[p] \in WritePC}
Reading == {p \in Thread : pc[p] \in ReadPC}

\* p has switched away and is still on a queue of the lock.
Asleep(p) == sf[p].pc = "switched" /\ p_wchan[p] # NULL

\* A writer is alone: no second writer and no reader is inside the lock with
\* it, whatever enters, exits, downgrades and upgrades interleave.
MutualExclusion ==
    /\ \A p, q \in Writing : p = q
    /\ Writing = {} \/ Reading = {}

\* The lock word names the writer or counts the readers, so that rw_exit
\* never meets one of its panics (not held, held by another, not read held).
OwnerWord ==
    \/ /\ Writing = {}
       /\ rwl_owner = Readers(Cardinality(Reading))
    \/ /\ Reading = {}
       /\ \E p \in Writing : Writing = {p} /\ rwl_owner = Self(p)

\* rwl_waiters and rwl_readers count the threads between their rw_inc and
\* their rw_dec; no path of rw_enter forgets one, the interrupted ones too.
WaitCounters ==
    /\ rwl_waiters = Cardinality({p \in Thread : pc[p] \in WriteWaitPC})
    /\ rwl_readers = Cardinality({p \in Thread : pc[p] \in ReadWaitPC})

\* Nobody is left asleep on a free lock: when every thread is asleep or
\* outside, and the lock is free, none is asleep.  It needs every rw_exit to
\* wake someone who will in turn take the lock or wake the next.
NotStranded ==
    (/\ rwl_owner = Unlocked
     /\ \A p \in Thread : pc[p] = "idle" \/ Asleep(p))
    => \A p \in Thread : ~Asleep(p)

\* The lock implements RwLockSpec: each step of the code is an acquire, a
\* release, a downgrade or an upgrade of it, or no step at all.
Hold == [p \in Thread |-> IF p \in Writing THEN "write"
                          ELSE IF p \in Reading THEN "read" ELSE "none"]
Abs == INSTANCE RwLockSpec WITH hold <- Hold
ImplementsRwLockSpec == Abs!Spec

\* If calls of rw_enter stop being made, every call under way returns and
\* the lock is left: no wakeup is lost and nobody waits for a sleeper.
CallsReturn ==
    <>[][~\E p \in Thread : Start(p)]_vars =>
        <>[](\A p \in Thread : pc[p] = "idle")

=============================================================================
