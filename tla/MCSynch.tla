------------------------------ MODULE MCSynch ------------------------------
(* Instances of KernSynch and of the locks that spin, Mutex, MpLock and    *)
(* PcLock, for TLC. The four share nothing: a behaviour is one of one of   *)
(* them, the one that is chosen at the start.                              *)
EXTENDS MCKernSynch, Mutex, MpLock, PcLock

CONSTANTS p2, p3

VARIABLE primitive

synchVars == <<primitive, vars, mtxVars, mpVars, pcVars>>

SynchInit ==
    /\ primitive \in {"sleep", "mutex", "mplock", "pclock"}
    /\ Init /\ MtxInit /\ MpInit /\ PcInit
    \* what the others chose does not matter
    /\ primitive # "mutex" => users = CHOOSE u \in Users : TRUE
    /\ primitive # "pclock" => interlock = CHOOSE i \in Interlock : TRUE

SynchNext ==
    /\ UNCHANGED primitive
    /\ \/ primitive = "sleep" /\ Next /\ UNCHANGED <<mtxVars, mpVars, pcVars>>
       \/ primitive = "mutex" /\ MtxNext /\ UNCHANGED <<vars, mpVars, pcVars>>
       \/ primitive = "mplock" /\ MpNext /\ UNCHANGED <<vars, mtxVars, pcVars>>
       \/ primitive = "pclock" /\ PcNext /\ UNCHANGED <<vars, mtxVars, mpVars>>
       \* a thread that is left stopped is no deadlock
       \/ primitive = "sleep" /\ UNCHANGED synchVars

SynchSpec == SynchInit /\ [][SynchNext]_synchVars /\ Fairness /\ MtxFairness

\* Two mutexes in one lot, at different levels.
MCPark == [m \in Mtx |-> 1]
MCIpl == [m \in Mtx |-> m]
\* All CPUs enter the first one; or two CPUs each, one of them both.
MCUsers ==
    {[m \in Mtx |-> IF m = 1 THEN CPU ELSE {}],
     [m \in Mtx |-> IF m = 1 THEN {p1, p2} ELSE {p2, p3}]}
=============================================================================
