------------------------------ MODULE MCRwLock ------------------------------
(* Instances of RwLock for TLC.                                            *)
EXTENDS RwLock, TLC

CONSTANTS p1, p2, p3

MCThread == {p1, p2, p3}
MCChan == {"waiters", "readers"}
Symmetry == Permutations(MCThread)

AnyFlags == {{}, {"RW_NOSLEEP"}, {"RW_INTR"}}
Interruptible == {{"RW_INTR"}}

VARIABLE cast       \* who takes part in the behaviour

Uninterrupted == \A p \in Thread : Pending(p) = {} /\ "RW_INTR" \notin flags[p]
Outside(p) == pc[p] = "idle" /\ Pending(p) = {}

\* Three threads that no signal interrupts, or two with signals and RW_INTR.
MCInit == Init /\ cast \in {"three", "two"}
MCNext ==
    /\ Next
    /\ cast = "three" => Uninterrupted'
    /\ cast = "two" => Outside(p3)'
    /\ UNCHANGED cast
MCSpec == MCInit /\ [][MCNext]_<<vars, cast>> /\ Fairness

\* Three threads, with signals.
LostSpec == Init /\ cast = "all" /\ [][Next /\ UNCHANGED cast]_<<vars, cast>>
=============================================================================
