----------------------------- MODULE MCDeferred -----------------------------
(* Instances of Timeout, Srp and Smr for TLC: what is left for later, to a *)
(* clock or to the time when nobody reads any more. The three share        *)
(* nothing: a behaviour is one of one of them, the one that is chosen at   *)
(* the start.                                                              *)
EXTENDS MCTimeout, Srp, Smr

VARIABLE deferred

deferredVars == <<deferred, tmoVars, srpVars, smrVars>>

Init ==
    /\ deferred \in {"timeout", "srp", "smr"}
    /\ TmoInit /\ SrpInit /\ SmrInit
    \* what the others chose does not matter
    /\ deferred # "timeout" => load = Race
    /\ deferred # "srp" => updates = CHOOSE u \in Updates : TRUE

Next ==
    /\ UNCHANGED deferred
    /\ \/ deferred = "timeout" /\ TmoNext /\ UNCHANGED <<srpVars, smrVars>>
       \* the bound on the clock is no deadlock
       \/ deferred = "timeout" /\ uptime > 0 /\ UNCHANGED deferredVars
       \/ deferred = "srp" /\ SrpNext /\ UNCHANGED <<tmoVars, smrVars>>
       \/ deferred = "smr" /\ SmrNext /\ UNCHANGED <<tmoVars, srpVars>>

Spec == Init /\ [][Next]_deferredVars
=============================================================================
