----------------------------- MODULE RwLockSpec -----------------------------
(***************************************************************************)
(* What a reader/writer lock promises its callers, as sys/sys/rwlock.h and *)
(* the callers of rw_enter rely on it: a thread holds the lock for reading *)
(* or for writing, a writer is alone, a downgrade keeps the lock held all  *)
(* along, and an upgrade succeeds for an only reader.                      *)
(***************************************************************************)
CONSTANT Thread

VARIABLE hold       \* how each thread holds the lock

TypeOK == hold \in [Thread -> {"none", "read", "write"}]

Init == hold = [p \in Thread |-> "none"]

\* Nobody but p holds the lock.
Alone(p) == \A q \in Thread \ {p} : hold[q] = "none"

AcquireRead(p) ==
    /\ hold[p] = "none"
    /\ \A q \in Thread : hold[q] # "write"
    /\ hold' = [hold EXCEPT ![p] = "read"]

AcquireWrite(p) ==
    /\ hold[p] = "none" /\ Alone(p)
    /\ hold' = [hold EXCEPT ![p] = "write"]

Release(p) ==
    /\ hold[p] # "none"
    /\ hold' = [hold EXCEPT ![p] = "none"]

Downgrade(p) ==
    /\ hold[p] = "write"
    /\ hold' = [hold EXCEPT ![p] = "read"]

Upgrade(p) ==
    /\ hold[p] = "read" /\ Alone(p)
    /\ hold' = [hold EXCEPT ![p] = "write"]

Next ==
    \E p \in Thread :
        \/ AcquireRead(p) \/ AcquireWrite(p) \/ Release(p)
        \/ Downgrade(p) \/ Upgrade(p)

Spec == Init /\ [][Next]_hold
=============================================================================
