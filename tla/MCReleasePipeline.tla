------------------------- MODULE MCReleasePipeline -------------------------
(* Instances of ReleasePipeline for TLC.                                   *)
EXTENDS ReleasePipeline

\* The committed intent, signed, and one whose signatures were taken out.
Signed ==
    [keys |-> Keys, schemaVersion |-> "1.1",
     field |-> [f \in Fields |-> "good"],
     signatures |-> <<[role |-> "Owner", len |-> 32, algo |-> "signify-ed25519"]>>]
Unsigned == [Signed EXCEPT !.signatures = <<>>]
AnyIntent == {Signed, Unsigned, Absent}
AnySidecars == {Family, Family \ {"pi_sdo"}}

VARIABLE work       \* which commands the operator uses in the behaviour

\* Releases are built from sources that change; or the gates run on an intent
\* and sidecars that change, with reads of the partition that differ.
MCInit ==
    /\ Init
    /\ work \in {"building", "governing"}
    /\ work = "building" => intent = Signed /\ families = Family
MCNext ==
    /\ Next
    /\ work = "building" => /\ pc' \notin {"evidence", "validate-intent"}
                            /\ UNCHANGED <<intent, families>>
                            /\ pass' \in [1..2 -> {"c1", Absent}]
    /\ work = "governing" => pc' # "factory-check" /\ UNCHANGED src
    /\ UNCHANGED work
MCSpec == MCInit /\ [][MCNext]_<<vars, work>>
=============================================================================
