---------------------------- MODULE MCKernSynch ----------------------------
(* Instances of KernSynch for TLC.                                         *)
EXTENDS KernSynch

CONSTANT p1

MCThread == {p1}

\* Every combination of PCATCH and a timeout.
AllModes == [catch : BOOLEAN, timed : BOOLEAN]

\* One signal of each kind; two stops.
OneOfEach == [s \in Signal |-> 1]
TwoStops == [s \in Signal |-> IF s = "STOP" THEN 2 ELSE 0]
=============================================================================
