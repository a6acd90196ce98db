-------------------------------- MODULE Smr --------------------------------
(***************************************************************************)
(* Safe memory reclamation, kern_smr.c. Readers announce nothing: an       *)
(* object is freed when every CPU has been in smr_idle(), where nobody     *)
(* reads, since the grace period that began after the object was unlinked. *)
(* Entries wait on a list of their CPU until smr_idle() there moves them   *)
(* to smr_deferred for the smr thread, which visits the CPUs that lag.     *)
(*                                                                         *)
(* One pointer to an object stands for the data. Its writer replaces the   *)
(* object and hands the old one to smr_call(), or waits in smr_barrier()   *)
(* or smr_flush() and frees it: the entry of the barrier is then the       *)
(* object's, and the end of cond_wait() its function.                      *)
(***************************************************************************)
EXTENDS Integers, Sequences, SequencesExt, FiniteSets

CONSTANTS
    SmrCPU,
    SmrReader,      \* the CPUs whose threads or interrupts read the data
    SmrWriter,      \* and those that change it
    Obj,
    NoObj,          \* the pointer is NULL, or was not loaded
    Expedite,       \* subset of BOOLEAN: the calls that are made
    Periods         \* values of a grace period, an unsigned char (256 in the code)

ASSUME SmrAssumption ==
    /\ NoObj \notin Obj
    /\ SmrReader \cup SmrWriter \subseteq SmrCPU
    /\ Expedite \subseteq BOOLEAN
    /\ IsFiniteSet(SmrCPU)
    /\ Periods \in Nat \ {0, 1}

VARIABLES
    ptr,            \* the object readers find
    objlife,        \* of an object: "free", "live" or "unlinked"
    reader,         \* of a CPU: whether it is in a critical section, and what it holds
    curproc,        \* of a CPU: "idle", "thread" or "smr"
    at,             \* of a CPU: where its process is, in smr_idle() or out of it,
                    \* and where the interrupt is that the process waits for
    wake,           \* of both: what smr_dispatch() does once it has unlocked
    spc,            \* of a CPU: spc_smrgp, spc_deferred, spc_smrexpedite
    smrgp,          \* of a CPU: the smr_grace_period that smr_idle() has read
    smr_deferred, smr_expedite, smr_grace_period,
    smr_wakeup_tmo, \* whether the timeout is pending
    smr             \* the smr thread: where it is, its list, the CPUs still to visit

dataVars == <<ptr, objlife>>
deferVars == <<smr_deferred, smr_expedite, smr_grace_period>>
smrVars == <<dataVars, reader, curproc, at, wake, spc, smrgp, deferVars,
             smr_wakeup_tmo, smr>>

Level == {"process", "interrupt"}
CPUs == SetToSeq(SmrCPU)    \* CPU_INFO_FOREACH
NotReading == [in |-> FALSE, o |-> NoObj]

SmrInit ==
    /\ ptr = NoObj
    /\ objlife = [o \in Obj |-> "free"]
    /\ reader = [c \in SmrCPU |-> NotReading]
    /\ curproc = [c \in SmrCPU |-> "idle"]
    /\ at = [c \in SmrCPU |-> [l \in Level |-> "out"]]
    /\ wake = [c \in SmrCPU |-> [l \in Level |-> "no"]]
    /\ spc = [c \in SmrCPU |-> [smrgp |-> 0, deferred |-> <<>>, expedite |-> FALSE]]
    /\ smrgp = [c \in SmrCPU |-> 0]
    /\ smr_deferred = <<>> /\ smr_expedite = FALSE /\ smr_grace_period = 0
    /\ smr_wakeup_tmo = FALSE
    /\ smr = [pc |-> "bored", list |-> <<>>, todo |-> <<>>]

\* Nothing interrupts the process of c, which itself does not read.
Runs(c) == at[c]["interrupt"] = "out" /\ ~reader[c].in

-----------------------------------------------------------------------------
(* Readers and writers, threads or interrupts *)

smr_read_enter(c) ==
    /\ Runs(c)
    /\ reader' = [reader EXCEPT ![c] = [in |-> TRUE, o |-> NoObj]]
    /\ UNCHANGED <<dataVars, curproc, at, wake, spc, smrgp, deferVars, smr_wakeup_tmo, smr>>

\* SMR_PTR_GET()
Get(c) ==
    /\ reader[c].in /\ reader[c].o # ptr
    /\ reader' = [reader EXCEPT ![c].o = ptr]
    /\ UNCHANGED <<dataVars, curproc, at, wake, spc, smrgp, deferVars, smr_wakeup_tmo, smr>>

smr_read_leave(c) ==
    /\ reader[c].in /\ at[c]["interrupt"] = "out"
    /\ reader' = [reader EXCEPT ![c] = NotReading]
    /\ UNCHANGED <<dataVars, curproc, at, wake, spc, smrgp, deferVars, smr_wakeup_tmo, smr>>

\* On a CPU that is idle but for this interrupt the list is dispatched.
IfIdle(c) == IF curproc[c] = "idle" THEN [at EXCEPT ![c]["interrupt"] = "dispatch"]
             ELSE at

\* The writer replaces the object and calls smr_call_impl() with the old one,
\* if there is one.
smr_call_impl(c, n, expedite) ==
    /\ at[c]["interrupt"] = "out"
    /\ n # ptr /\ (n # NoObj => objlife[n] = "free")
    /\ ptr' = n
    /\ objlife' = [o \in Obj |-> IF o = n THEN "live"
                                 ELSE IF o = ptr THEN "unlinked" ELSE objlife[o]]
    /\ IF ptr = NoObj THEN UNCHANGED <<spc, at>>
       ELSE /\ spc' = [spc EXCEPT ![c].deferred = Append(@, ptr),
                                  ![c].expedite = @ \/ expedite]
            /\ at' = IfIdle(c)
    /\ UNCHANGED <<reader, curproc, wake, smrgp, deferVars, smr_wakeup_tmo, smr>>

-----------------------------------------------------------------------------
(* smr_dispatch(), called by smr_idle() or by an interrupt of an idle CPU *)

Goes(c, l, from, to) ==
    /\ at[c][l] = from
    /\ l = "process" => Runs(c)
    /\ at' = [at EXCEPT ![c][l] = to]

\* Looks at the length of the list after it has added to it.
MutWakeKind(c) ==
    IF smr_expedite \/ spc[c].expedite THEN "expedite"
    ELSE IF smr_deferred \o spc[c].deferred = <<>> THEN "tmo" ELSE "no"

WakeKind(c) ==
    IF smr_expedite \/ spc[c].expedite THEN "expedite"
    ELSE IF smr_deferred = <<>> THEN "tmo" ELSE "no"

\* What is done under smr_lock.
smr_dispatch(c, l) ==
    /\ Goes(c, l, "dispatch", "wake")
    /\ wake' = [wake EXCEPT ![c][l] = WakeKind(c)]
    /\ smr_deferred' = smr_deferred \o spc[c].deferred
    /\ smr_expedite' = (smr_expedite \/ spc[c].expedite)
    /\ spc' = [spc EXCEPT ![c].deferred = <<>>, ![c].expedite = FALSE]
    /\ UNCHANGED <<dataVars, reader, curproc, smrgp, smr_grace_period, smr_wakeup_tmo,
                   smr>>

\* wakeup(&smr_ndeferred)
smr_wakeup ==
    smr' = CASE smr.pc = "bored" -> [smr EXCEPT !.pc = "woken"]
             [] smr.pc = "pause" -> [smr EXCEPT !.pc = "paused"]
             [] OTHER -> smr

DispatchWake(c, l) ==
    /\ Goes(c, l, "wake", IF l = "process" THEN "readgp" ELSE "out")
    /\ IF wake[c][l] = "expedite" THEN smr_wakeup ELSE UNCHANGED smr
    /\ smr_wakeup_tmo' = (smr_wakeup_tmo \/ wake[c][l] = "tmo")
    /\ wake' = [wake EXCEPT ![c][l] = "no"]
    /\ UNCHANGED <<dataVars, reader, curproc, spc, smrgp, deferVars>>

\* softclock runs the timeout.
TmoFires ==
    /\ smr_wakeup_tmo /\ smr_wakeup_tmo' = FALSE
    /\ smr_wakeup
    /\ UNCHANGED <<dataVars, reader, curproc, at, wake, spc, smrgp, deferVars>>

-----------------------------------------------------------------------------
(* smr_idle(), called by mi_switch() once it has switched, and by the idle *)
(* process before it halts                                                 *)

smr_idle(c) ==
    /\ Goes(c, "process", "idle", IF spc[c].deferred # <<>> THEN "dispatch" ELSE "readgp")
    /\ UNCHANGED <<dataVars, reader, curproc, wake, spc, smrgp, deferVars,
                   smr_wakeup_tmo, smr>>

ReadGracePeriod(c) ==
    /\ Goes(c, "process", "readgp", "storegp")
    /\ smrgp' = [smrgp EXCEPT ![c] = smr_grace_period]
    /\ UNCHANGED <<dataVars, reader, curproc, wake, spc, deferVars, smr_wakeup_tmo, smr>>

StoreGracePeriod(c) ==
    /\ Goes(c, "process", "storegp", "out")
    /\ spc' = [spc EXCEPT ![c].smrgp = smrgp[c]]
    /\ smrgp' = [smrgp EXCEPT ![c] = 0]
    /\ UNCHANGED <<dataVars, reader, curproc, wake, deferVars, smr_wakeup_tmo, smr>>

\* mi_switch() from one process to another.
SwitchTo(c, p) ==
    /\ curproc' = [curproc EXCEPT ![c] = p]
    /\ at' = [at EXCEPT ![c]["process"] = "idle"]

Switch(c) ==
    /\ Runs(c) /\ at[c]["process"] = "out" /\ curproc[c] # "smr"
    /\ \/ SwitchTo(c, "idle") \/ SwitchTo(c, "thread")
       \/ /\ \A d \in SmrCPU : curproc[d] # "smr"
          /\ \/ smr.pc \in {"woken", "paused"}
             \/ smr.pc = "peg" /\ Head(smr.todo) = c
          /\ SwitchTo(c, "smr")
    /\ UNCHANGED <<dataVars, reader, wake, spc, smrgp, deferVars, smr_wakeup_tmo, smr>>

-----------------------------------------------------------------------------
(* smr_thread() *)

SmrRuns(c, pc) == Runs(c) /\ curproc[c] = "smr" /\ at[c]["process"] = "out" /\ smr.pc = pc

\* The thread gives its CPU to another process.
Leave(c) == SwitchTo(c, "idle") \/ SwitchTo(c, "thread")

TakeAll ==
    /\ smr' = [smr EXCEPT !.pc = "announce", !.list = @ \o smr_deferred]
    /\ smr_deferred' = <<>> /\ smr_expedite' = FALSE
    /\ UNCHANGED <<curproc, at>>

SleepAs(c, pc) ==
    /\ smr' = [smr EXCEPT !.pc = pc]
    /\ Leave(c)
    /\ UNCHANGED <<smr_deferred, smr_expedite>>

\* The head of the loop and both sleeps, under smr_lock.
SmrLocked(c) ==
    /\ \/ /\ SmrRuns(c, "check") \/ SmrRuns(c, "woken")
          /\ smr_deferred = <<>>
          /\ SleepAs(c, "bored")
       \/ SmrRuns(c, "check") /\ smr_deferred # <<>> /\ ~smr_expedite /\ SleepAs(c, "pause")
       \/ SmrRuns(c, "check") /\ smr_deferred # <<>> /\ smr_expedite /\ TakeAll
       \/ SmrRuns(c, "woken") /\ smr_deferred # <<>> /\ TakeAll
       \/ SmrRuns(c, "paused") /\ TakeAll
    /\ UNCHANGED <<dataVars, reader, wake, spc, smrgp, smr_grace_period, smr_wakeup_tmo>>

\* The SMR_PAUSE of the sleep is over.
PauseEnds ==
    /\ smr.pc = "pause"
    /\ smr_wakeup
    /\ UNCHANGED <<dataVars, reader, curproc, at, wake, spc, smrgp, deferVars,
                   smr_wakeup_tmo>>

NextPeriod == (smr_grace_period + 1) % Periods

\* smr_grace_wait() announces the next period; its own CPU is in it ...
Announce(c) ==
    /\ SmrRuns(c, "announce")
    /\ smr_grace_period' = NextPeriod
    /\ spc' = [spc EXCEPT ![c].smrgp = NextPeriod]
    /\ smr' = [smr EXCEPT !.pc = "visit", !.todo = CPUs]
    /\ UNCHANGED <<dataVars, reader, curproc, at, wake, smrgp, smr_deferred, smr_expedite,
                   smr_wakeup_tmo>>

\* Calls the functions without going where the others may read.
MutVisit(c) ==
    /\ SmrRuns(c, "visit") /\ smr.todo # <<>>
    /\ smr' = [smr EXCEPT !.todo = Tail(@)]
    /\ UNCHANGED <<curproc, at, dataVars, reader, wake, spc, smrgp, deferVars,
                   smr_wakeup_tmo>>

\* ... and a CPU that is not is visited with sched_peg_curproc().
Visit(c) ==
    /\ SmrRuns(c, "visit") /\ smr.todo # <<>>
    /\ IF spc[Head(smr.todo)].smrgp = smr_grace_period
       THEN smr' = [smr EXCEPT !.todo = Tail(@)] /\ UNCHANGED <<curproc, at>>
       ELSE smr' = [smr EXCEPT !.pc = "peg"] /\ Leave(c)
    /\ UNCHANGED <<dataVars, reader, wake, spc, smrgp, deferVars, smr_wakeup_tmo>>

Pegged(c) ==
    /\ SmrRuns(c, "peg")
    /\ smr' = [smr EXCEPT !.pc = "visit", !.todo = Tail(@)]
    /\ UNCHANGED <<dataVars, reader, curproc, at, wake, spc, smrgp, deferVars,
                   smr_wakeup_tmo>>

\* Calls the next function, which frees its object, or begins again.
SmrCall(c) ==
    /\ SmrRuns(c, "visit") /\ smr.todo = <<>>
    /\ IF smr.list = <<>> THEN smr' = [smr EXCEPT !.pc = "check"] /\ UNCHANGED objlife
       ELSE /\ smr' = [smr EXCEPT !.list = Tail(@)]
            /\ objlife' = [objlife EXCEPT ![Head(smr.list)] = "free"]
    /\ UNCHANGED <<ptr, reader, curproc, at, wake, spc, smrgp, deferVars, smr_wakeup_tmo>>

-----------------------------------------------------------------------------
SmrNext ==
    \/ \E c \in SmrCPU :
          \/ c \in SmrReader /\ (smr_read_enter(c) \/ Get(c) \/ smr_read_leave(c))
          \/ /\ c \in SmrWriter
             /\ \E n \in Obj \cup {NoObj}, x \in Expedite : smr_call_impl(c, n, x)
          \/ \E l \in Level : smr_dispatch(c, l) \/ DispatchWake(c, l)
          \/ smr_idle(c) \/ ReadGracePeriod(c) \/ StoreGracePeriod(c) \/ Switch(c)
          \/ SmrLocked(c) \/ Announce(c) \/ Visit(c) \/ Pegged(c) \/ SmrCall(c)
    \/ PauseEnds
    \/ TmoFires

SmrSpec == SmrInit /\ [][SmrNext]_smrVars

-----------------------------------------------------------------------------
(* Properties *)

SmrTypeOK ==
    /\ ptr \in Obj \cup {NoObj}
    /\ objlife \in [Obj -> {"free", "live", "unlinked"}]
    /\ reader \in [SmrCPU -> [in : BOOLEAN, o : Obj \cup {NoObj}]]
    /\ curproc \in [SmrCPU -> {"idle", "thread", "smr"}]
    /\ at \in [SmrCPU -> [Level -> {"out", "idle", "dispatch", "wake", "readgp", "storegp"}]]
    /\ wake \in [SmrCPU -> [Level -> {"no", "tmo", "expedite"}]]
    /\ \A c \in SmrCPU : spc[c].smrgp \in 0 .. Periods - 1
    /\ smr_grace_period \in 0 .. Periods - 1

\* An object that a reader has found is not freed before the reader leaves,
\* although readers leave no trace the smr thread could see and an interrupt
\* may read inside smr_idle(), between its read and its store of the period.
\* It rests on the KASSERT of smr_grace_wait(), that a CPU the smr thread has
\* asked for is in the period when the thread runs there, and on the period of
\* every CPU being the current one or the one before, so that it cannot be
\* mistaken for a later one when the unsigned char wraps around.
HeldIsLive ==
    /\ SmrTypeOK
    /\ \A c \in SmrCPU :
          /\ reader[c].o # NoObj => objlife[reader[c].o] # "free"
          /\ SmrRuns(c, "peg") => spc[c].smrgp = smr_grace_period
          /\ (smr_grace_period - spc[c].smrgp) % Periods \in {0, 1}

\* No entry lingers: a CPU that is idle has none on its list, and the thread
\* that sleeps for want of entries, or in spite of an expedited one, has a
\* wakeup coming from a CPU in smr_dispatch() or from the timeout.
Coming(kinds) == \E c \in SmrCPU, l \in Level : wake[c][l] \in kinds
NoEntryLingers ==
    /\ \A c \in SmrCPU :
          curproc[c] = "idle" /\ (\A l \in Level : at[c][l] = "out")
              => spc[c].deferred = <<>>
    /\ smr.pc = "bored" /\ smr_deferred # <<>> =>
          smr_wakeup_tmo \/ Coming({"tmo", "expedite"})
    /\ smr.pc \in {"bored", "pause"} /\ smr_expedite => Coming({"expedite"})
=============================================================================
