------------------------------- MODULE MpLock -------------------------------
(***************************************************************************)
(* The kernel lock: the recursive ticket lock of kern_lock.c. A CPU may    *)
(* take it again while it holds it, and an interrupt handler may take it   *)
(* while the code it interrupted still spins for it; __mp_release_all      *)
(* drops all levels before a thread sleeps and __mp_acquire_count takes    *)
(* them again afterwards.                                                  *)
(***************************************************************************)
EXTENDS Integers, Sequences, FiniteSets, SequencesExt

CONSTANTS
    Processor,
    Tickets,        \* tickets until they come round (2^32 in the code)
    MaxDepth        \* calls of __mp_lock that are nested on a CPU

ASSUME MpAssumption ==
    /\ IsFiniteSet(Processor)
    /\ Tickets \in Nat \ {0, 1} /\ Cardinality(Processor) < Tickets
    /\ MaxDepth \in Nat

VARIABLES
    mpl_users,      \* the last ticket given out
    mpl_ticket,     \* the ticket that is served
    mplc_depth,     \* of a CPU: how often it has taken the lock
    mplc_ticket,    \* of a CPU: its ticket
    frames,         \* of a CPU: its calls of __mp_lock, "spin" or "in"
    hold_count      \* of a CPU: the levels its sleeping thread gave up

mpVars == <<mpl_users, mpl_ticket, mplc_depth, mplc_ticket, frames, hold_count>>

Ticket == 0 .. Tickets - 1

NextTicket(t) == (t + 1) % Tickets

MpInit ==
    /\ mpl_users = 0
    /\ mpl_ticket = 1
    /\ mplc_depth = [c \in Processor |-> 0]
    /\ mplc_ticket = [c \in Processor |-> 0]
    /\ frames = [c \in Processor |-> <<>>]
    /\ hold_count = [c \in Processor |-> 0]

Spinning(c) == frames[c] # <<>> /\ Last(frames[c]) = "spin"
Inside(c) == frames[c] # <<>> /\ Last(frames[c]) = "in"

\* __mp_lock_held(), for any CPU.
mp_lock_held(c) == mplc_ticket[c] = mpl_ticket /\ mplc_depth[c] > 0

\* __mp_lock() up to the loop, with interrupts disabled: only the first level
\* draws a ticket.
EnterMp(c) ==
    /\ mplc_depth' = [mplc_depth EXCEPT ![c] = @ + 1]
    /\ mpl_users' = IF mplc_depth[c] = 0 THEN NextTicket(mpl_users) ELSE mpl_users
    /\ mplc_ticket' = IF mplc_depth[c] = 0
                      THEN [mplc_ticket EXCEPT ![c] = mpl_users'] ELSE mplc_ticket
    /\ frames' = [frames EXCEPT ![c] = Append(@, "spin")]

\* Called by the code that runs, or by a handler that interrupts it, in the
\* loop too.
mp_lock(c) ==
    /\ Len(frames[c]) + hold_count[c] < MaxDepth
    /\ EnterMp(c)
    /\ UNCHANGED <<mpl_ticket, hold_count>>

\* __mp_lock_spin() ends.
mp_lock_spin(c) ==
    /\ Spinning(c) /\ mpl_ticket = mplc_ticket[c]
    /\ frames' = [frames EXCEPT ![c] = Append(Front(@), "in")]
    /\ UNCHANGED <<mpl_users, mpl_ticket, mplc_depth, mplc_ticket, hold_count>>

\* Each level of a nested hold serves the next ticket.
Mutmp_unlock(c) ==
    /\ Inside(c)
    /\ mplc_depth' = [mplc_depth EXCEPT ![c] = @ - 1]
    /\ mpl_ticket' = NextTicket(mpl_ticket)
    /\ frames' = [frames EXCEPT ![c] = Front(@)]
    /\ UNCHANGED <<mpl_users, mplc_ticket, hold_count>>

mp_unlock(c) ==
    /\ Inside(c)
    /\ mplc_depth' = [mplc_depth EXCEPT ![c] = @ - 1]
    /\ mpl_ticket' = IF mplc_depth[c] = 1 THEN NextTicket(mpl_ticket)
                     ELSE mpl_ticket
    /\ frames' = [frames EXCEPT ![c] = Front(@)]
    /\ UNCHANGED <<mpl_users, mplc_ticket, hold_count>>

\* mi_switch(): a thread that sleeps gives up all its levels. Nothing below
\* it on its CPU still spins: it is not a handler.
mp_release_all(c) ==
    /\ mp_lock_held(c) /\ hold_count[c] = 0
    /\ \A i \in DOMAIN frames[c] : frames[c][i] = "in"
    /\ hold_count' = [hold_count EXCEPT ![c] = mplc_depth[c]]
    /\ mplc_depth' = [mplc_depth EXCEPT ![c] = 0]
    /\ mpl_ticket' = NextTicket(mpl_ticket)
    /\ frames' = [frames EXCEPT ![c] = <<>>]
    /\ UNCHANGED <<mpl_users, mplc_ticket>>

\* One turn of the loop of __mp_acquire_count(), when the thread runs again.
mp_acquire_count(c) ==
    /\ hold_count[c] > 0 /\ ~Spinning(c)
    /\ EnterMp(c)
    /\ hold_count' = [hold_count EXCEPT ![c] = @ - 1]
    /\ UNCHANGED mpl_ticket

MpNext ==
    \E c \in Processor :
        \/ mp_lock(c) \/ mp_lock_spin(c) \/ mp_unlock(c)
        \/ mp_release_all(c) \/ mp_acquire_count(c)

MpSpec == MpInit /\ [][MpNext]_mpVars

-----------------------------------------------------------------------------
MpTypeOK ==
    /\ mpl_users \in Ticket /\ mpl_ticket \in Ticket
    /\ mplc_depth \in [Processor -> 0 .. MaxDepth]
    /\ mplc_ticket \in [Processor -> Ticket]
    /\ frames \in [Processor -> Seq({"spin", "in"})]
    /\ hold_count \in [Processor -> 0 .. MaxDepth]

\* The tickets from the one that is served to the last one given out are
\* those of the CPUs in or before the lock, one each, and a CPU that is behind
\* __mp_lock() is the one that is served: one CPU at a time, in the order in
\* which they came, and never a ticket nobody has, which would stop everyone
\* behind it. Through nested calls, handlers that take the lock inside the
\* loop of the code they interrupt, __mp_release_all() and tickets that wrap.
TicketsServed ==
    LET ahead == (mpl_users - mpl_ticket + 1) % Tickets
        callers == {c \in Processor : mplc_depth[c] > 0}
    IN  /\ MpTypeOK
        /\ \A c \in Processor : "in" \in Range(frames[c]) => mp_lock_held(c)
        /\ Cardinality(callers) = ahead
        /\ {mplc_ticket[c] : c \in callers} =
               {(mpl_ticket + i) % Tickets : i \in 0 .. ahead - 1}
=============================================================================
