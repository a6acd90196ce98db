------------------------------- MODULE Mutex -------------------------------
(***************************************************************************)
(* The mutexes of kern_lock.c: a word with the owner and a bit that says   *)
(* that CPUs are parked, and parking lots that mutexes share by hash. One  *)
(* action per access of the word or of w.wait, one per section under the   *)
(* lock of a lot; mtx_leave has two there, because others see the word     *)
(* cleared before the waiter is released.                                  *)
(***************************************************************************)
EXTENDS Integers, Sequences, SequencesExt, FiniteSets

CONSTANTS
    CPU,            \* the CPUs
    NIL,
    Mtx,            \* mutexes, as integers: a CPU enters them in this order
    Users,          \* the choices of the CPUs on which code enters a mutex
    Lot,            \* parking lots
    Park,           \* mtx_park(): the lot of a mutex
    mtx_wantipl,    \* of a mutex; 0 is IPL_NONE
    MaxSpins        \* looks at the word before parking (40 in the code)

ASSUME MutexAssumption ==
    /\ NIL \notin CPU
    /\ Mtx \subseteq Int
    /\ Users \subseteq [Mtx -> SUBSET CPU]
    /\ Park \in [Mtx -> Lot]
    /\ mtx_wantipl \in [Mtx -> Nat]
    /\ MaxSpins \in Nat

VARIABLES
    users,          \* the choice made (does not change)
    mtx_owner,      \* the word of a mutex: a CPU or NIL, and the parked bit
    mtx_oldipl,     \* the IPL to go back to when the mutex is left
    lock,           \* of a lot: the CPU in its section, or NIL
    waiters,        \* of a lot: the CPUs with a struct mtx_waiter on its list
    w_wait,         \* w.wait of the CPU's waiter
    ipl,            \* interrupt priority level of a CPU
    held,           \* the mutexes a CPU has entered, in order
    mpc,            \* program counter in mtx_enter and mtx_leave
    call            \* their argument and their locals owner, spins and s

mtxVars == <<users, mtx_owner, mtx_oldipl, lock, waiters, w_wait, ipl, held, mpc,
             call>>

Word(c, p) == [cpu |-> c, parked |-> p]
Zero == Word(NIL, FALSE)
Words == {Zero} \cup [cpu : CPU, parked : BOOLEAN]

\* Program points at which a CPU has its waiter on the list of a lot.
Published == {"set_wait", "set_parked", "waiting", "take", "remove"}
Pcs == Published \cup
       {"out", "spin", "spin_cas", "unpark", "wake"}

Idle == [mtx |-> NIL, owner |-> Zero, spins |-> 0, s |-> 0]

MtxInit ==
    /\ users \in Users
    /\ mtx_owner = [m \in Mtx |-> Zero]
    /\ mtx_oldipl = [m \in Mtx |-> 0]
    /\ lock = [l \in Lot |-> NIL]
    /\ waiters = [l \in Lot |-> <<>>]
    /\ w_wait = [c \in CPU |-> FALSE]
    /\ ipl = [c \in CPU |-> 0]
    /\ held = [c \in CPU |-> <<>>]
    /\ mpc = [c \in CPU |-> "out"]
    /\ call = [c \in CPU |-> Idle]

MtxArg(c) == call[c].mtx
MtxLot(c) == Park[MtxArg(c)]

At(c, from) == mpc[c] = from
MtxGoto(c, to) == mpc' = [mpc EXCEPT ![c] = to]

\* splraise() never lowers the level.
Raise(m, level) == IF mtx_wantipl[m] > level THEN mtx_wantipl[m] ELSE level

\* mtx_cas(): what the word was; it is new if it was old.
MtxCas(m, old, new) ==
    mtx_owner' = [mtx_owner EXCEPT ![m] = IF @ = old THEN new ELSE @]

-----------------------------------------------------------------------------
(* mtx_enter and mtx_enter_try *)

\* A CPU may enter the mutexes above those it holds.
Enterable(c, m) ==
    /\ At(c, "out") /\ c \in users[m]
    /\ \A i \in DOMAIN held[c] : held[c][i] < m

\* Behind the label "locked": the holder saves the level to go back to.
Locked(c, m, s) ==
    /\ mtx_oldipl' = IF mtx_wantipl[m] = 0 THEN mtx_oldipl
                     ELSE [mtx_oldipl EXCEPT ![m] = s]
    /\ held' = [held EXCEPT ![c] = Append(@, m)]
    /\ call' = [call EXCEPT ![c] = Idle]
    /\ MtxGoto(c, "out")

\* splraise() and the first attempt. If the word is not 0 the CPU will spin.
mtx_enter(c, m) ==
    /\ Enterable(c, m)
    /\ ipl' = [ipl EXCEPT ![c] = Raise(m, @)]
    /\ MtxCas(m, Zero, Word(c, FALSE))
    /\ IF mtx_owner[m] = Zero THEN Locked(c, m, ipl[c])
       ELSE /\ call' = [call EXCEPT ![c] =
                  [mtx |-> m, owner |-> mtx_owner[m], spins |-> 0, s |-> ipl[c]]]
            /\ MtxGoto(c, "spin")
            /\ UNCHANGED <<mtx_oldipl, held>>
    /\ UNCHANGED <<users, lock, waiters, w_wait>>

\* One look at the word.
Spin(c) ==
    /\ At(c, "spin")
    /\ call[c].spins < MaxSpins /\ ~call[c].owner.parked
    /\ call' = [call EXCEPT
          ![c].owner = mtx_owner[MtxArg(c)],
          ![c].spins = IF mtx_owner[MtxArg(c)] = Zero THEN @ ELSE @ + 1]
    /\ MtxGoto(c, IF mtx_owner[MtxArg(c)] = Zero THEN "spin_cas" ELSE "spin")
    /\ UNCHANGED <<mtx_owner, mtx_oldipl, lock, waiters, w_wait, ipl, held>>

\* Stores its name into the word it found 0 a moment ago.
MutSpinCas(c) ==
    LET m == MtxArg(c) IN
    /\ At(c, "spin_cas")
    /\ mtx_owner' = [mtx_owner EXCEPT ![m] = Word(c, FALSE)]
    /\ Locked(c, m, call[c].s)
    /\ UNCHANGED <<lock, waiters, w_wait, ipl>>

\* The attempt after a look that found the word 0.
SpinCas(c) ==
    LET m == MtxArg(c) IN
    /\ At(c, "spin_cas")
    /\ MtxCas(m, Zero, Word(c, FALSE))
    /\ IF mtx_owner[m] = Zero THEN Locked(c, m, call[c].s)
       ELSE /\ call' = [call EXCEPT ![c].owner = mtx_owner[m],
                                    ![c].spins = @ + 1]
            /\ MtxGoto(c, "spin")
            /\ UNCHANGED <<mtx_oldipl, held>>
    /\ UNCHANGED <<lock, waiters, w_wait, ipl>>

\* Spun long enough, or others are parked already: publish the waiter.
Publish(c) ==
    /\ At(c, "spin")
    /\ call[c].spins >= MaxSpins \/ call[c].owner.parked
    /\ lock[MtxLot(c)] = NIL
    /\ waiters' = [waiters EXCEPT ![MtxLot(c)] = Append(@, c)]
    /\ MtxGoto(c, "set_wait")
    /\ UNCHANGED <<mtx_owner, mtx_oldipl, lock, w_wait, ipl, held, call>>

SetWait(c) ==
    /\ At(c, "set_wait")
    /\ w_wait' = [w_wait EXCEPT ![c] = TRUE]
    /\ MtxGoto(c, "set_parked")
    /\ UNCHANGED <<mtx_owner, mtx_oldipl, lock, waiters, ipl, held, call>>

\* mtx_cas(mtx, owner, owner | 1), and the three ways on from it.
SetParked(c) ==
    LET o == mtx_owner[MtxArg(c)] IN
    /\ At(c, "set_parked")
    /\ MtxCas(MtxArg(c), call[c].owner, Word(call[c].owner.cpu, TRUE))
    /\ MtxGoto(c, CASE o = call[c].owner -> "waiting"
                 [] o # call[c].owner /\ o = Zero -> "take"
                 [] OTHER -> "set_wait")
    /\ call' = [call EXCEPT ![c].owner = IF o = Zero THEN @ ELSE o]
    /\ UNCHANGED <<mtx_oldipl, lock, waiters, w_wait, ipl, held>>

Unwait(c) ==
    /\ At(c, "waiting") /\ ~w_wait[c]
    /\ MtxGoto(c, "take")
    /\ UNCHANGED <<mtx_owner, mtx_oldipl, lock, waiters, w_wait, ipl, held, call>>

\* mtx_cas(mtx, 0, self | 1): one that parked leaves the bit set for others.
Take(c) ==
    /\ At(c, "take")
    /\ MtxCas(MtxArg(c), Zero, Word(c, TRUE))
    /\ IF mtx_owner[MtxArg(c)] = Zero
       THEN MtxGoto(c, "remove") /\ UNCHANGED call
       ELSE /\ MtxGoto(c, "set_wait")
            /\ call' = [call EXCEPT ![c].owner = mtx_owner[MtxArg(c)]]
    /\ UNCHANGED <<mtx_oldipl, lock, waiters, w_wait, ipl, held>>

Unpublish(c) ==
    /\ At(c, "remove")
    /\ lock[MtxLot(c)] = NIL
    /\ \E i \in DOMAIN waiters[MtxLot(c)] :
          /\ waiters[MtxLot(c)][i] = c
          /\ waiters' = [waiters EXCEPT ![MtxLot(c)] = RemoveAt(@, i)]
    /\ Locked(c, MtxArg(c), call[c].s)
    /\ UNCHANGED <<mtx_owner, lock, w_wait, ipl>>

\* mtx_enter_try(): one attempt; the level is lowered again if it fails.
mtx_enter_try(c, m) ==
    /\ Enterable(c, m)
    /\ MtxCas(m, Zero, Word(c, FALSE))
    /\ IF mtx_owner[m] = Zero
       THEN ipl' = [ipl EXCEPT ![c] = Raise(m, @)] /\ Locked(c, m, ipl[c])
       ELSE UNCHANGED <<mtx_oldipl, ipl, held, mpc, call>>
    /\ UNCHANGED <<users, lock, waiters, w_wait>>

-----------------------------------------------------------------------------
(* mtx_leave *)

\* splx(s), unless the mutex is at IPL_NONE.
Splx(c, m, s) ==
    ipl' = IF mtx_wantipl[m] = 0 THEN ipl ELSE [ipl EXCEPT ![c] = s]

\* The last mutex entered is the first one left. s is read before the word
\* is cleared, by the compare-and-swap if the parked bit is not set.
mtx_leave(c) ==
    LET m == Last(held[c]) IN
    /\ At(c, "out") /\ held[c] # <<>>
    /\ held' = [held EXCEPT ![c] = Front(@)]
    /\ MtxCas(m, Word(c, FALSE), Zero)
    /\ IF mtx_owner[m] = Word(c, FALSE)
       THEN Splx(c, m, mtx_oldipl[m]) /\ UNCHANGED <<mpc, call>>
       ELSE /\ call' = [call EXCEPT
                  ![c] = [Idle EXCEPT !.mtx = m, !.s = mtx_oldipl[m]]]
            /\ MtxGoto(c, "unpark")
            /\ UNCHANGED ipl
    /\ UNCHANGED <<users, mtx_oldipl, lock, waiters, w_wait>>

\* In the section of the lot: clear the word ...
ClearOwner(c) ==
    /\ At(c, "unpark")
    /\ lock[MtxLot(c)] = NIL
    /\ lock' = [lock EXCEPT ![MtxLot(c)] = c]
    /\ mtx_owner' = [mtx_owner EXCEPT ![MtxArg(c)] = Zero]
    /\ MtxGoto(c, "wake")
    /\ UNCHANGED <<mtx_oldipl, waiters, w_wait, ipl, held, call>>

\* The list has waiters of other mutexes too.
MutFirstWaiters(l, m) ==
    IF waiters[l] = <<>> THEN {} ELSE {Head(waiters[l])}

\* ... then release the first waiter of this mutex on the list.
FirstWaiters(l, m) ==
    LET q == waiters[l]
        mine == {i \in DOMAIN q : MtxArg(q[i]) = m}
    IN  {q[i] : i \in {j \in mine : \A k \in mine : j <= k}}

\* Reads the level from the mutex when others may have entered it.
MutWakeFirst(c) ==
    /\ At(c, "wake")
    /\ w_wait' = [d \in CPU |->
          IF d \in FirstWaiters(MtxLot(c), MtxArg(c)) THEN FALSE ELSE w_wait[d]]
    /\ lock' = [lock EXCEPT ![MtxLot(c)] = NIL]
    /\ Splx(c, MtxArg(c), mtx_oldipl[MtxArg(c)])
    /\ call' = [call EXCEPT ![c] = Idle]
    /\ MtxGoto(c, "out")
    /\ UNCHANGED <<mtx_owner, mtx_oldipl, waiters, held>>

WakeFirst(c) ==
    /\ At(c, "wake")
    /\ w_wait' = [d \in CPU |->
          IF d \in FirstWaiters(MtxLot(c), MtxArg(c)) THEN FALSE ELSE w_wait[d]]
    /\ lock' = [lock EXCEPT ![MtxLot(c)] = NIL]
    /\ Splx(c, MtxArg(c), call[c].s)
    /\ call' = [call EXCEPT ![c] = Idle]
    /\ MtxGoto(c, "out")
    /\ UNCHANGED <<mtx_owner, mtx_oldipl, waiters, held>>

-----------------------------------------------------------------------------
\* The steps of a call that has begun.
MtxStep(c) ==
    /\ UNCHANGED users
    /\ \/ Spin(c) \/ SpinCas(c) \/ Publish(c) \/ SetWait(c) \/ SetParked(c)
       \/ Unwait(c) \/ Take(c) \/ Unpublish(c) \/ ClearOwner(c) \/ WakeFirst(c)

MtxNext ==
    \E c \in CPU :
        \/ MtxStep(c)
        \/ mtx_leave(c)
        \/ \E m \in Mtx : mtx_enter(c, m) \/ mtx_enter_try(c, m)

MtxSpec == MtxInit /\ [][MtxNext]_mtxVars

\* CPUs run, and what is entered is left.
MtxFairness == \A c \in CPU : WF_mtxVars(MtxStep(c) \/ mtx_leave(c))

-----------------------------------------------------------------------------
(* Properties *)

MtxTypeOK ==
    /\ users \in Users
    /\ mtx_owner \in [Mtx -> Words]
    /\ mtx_oldipl \in [Mtx -> Nat]
    /\ lock \in [Lot -> CPU \cup {NIL}]
    /\ waiters \in [Lot -> Seq(CPU)]
    /\ w_wait \in [CPU -> BOOLEAN]
    /\ ipl \in [CPU -> Nat]
    /\ held \in [CPU -> Seq(Mtx)]
    /\ mpc \in [CPU -> Pcs]
    /\ call \in [CPU -> [mtx : Mtx \cup {NIL}, owner : Words, spins : Nat,
                         s : Nat]]

\* The CPU is between taking m and giving it up.
Has(c, m) ==
    \/ \E i \in DOMAIN held[c] : held[c][i] = m
    \/ MtxArg(c) = m /\ mpc[c] \in {"remove", "unpark"}

\* No two CPUs are inside a mutex, and its word names the one that is:
\* mtx_enter's three ways in and mtx_leave's two ways out keep to this even
\* where the parked bit changes under them.
MtxExclusion ==
    /\ MtxTypeOK
    /\ \A m \in Mtx, c \in CPU : Has(c, m) <=> mtx_owner[m].cpu = c

\* A CPU outside of all mutexes is back at the level it came with: the level
\* that is saved in the mutex is the one of its holder when it is read, also
\* if the next owner has been in already when the level is lowered.
IplRestored ==
    \A c \in CPU : (At(c, "out") /\ held[c] = <<>>) => ipl[c] = 0

\* A mutex that is free while a CPU is parked on it is taken again: no
\* wakeup is lost, whoever enters and leaves in between.
FreeIsTaken ==
    \A m \in Mtx :
        (mtx_owner[m] = Zero /\ \E c \in CPU : At(c, "waiting") /\ MtxArg(c) = m)
        ~> mtx_owner[m] # Zero
=============================================================================
