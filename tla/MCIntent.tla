------------------------------ MODULE MCIntent ------------------------------
(* validate_intent.sh on every intent with at most one missing key, one    *)
(* bad field and MaxSigs signatures.                                       *)
EXTENDS Intent

CONSTANTS MaxSigs,  \* bound on the number of signatures
          Lens      \* the lengths of sig tried

VARIABLES intent,   \* docs/intent.json
          checked   \* what the validator said, once it ran

vars == <<intent, checked>>

Blocks == [role : {"Owner", "Codex", "other"}, len : Lens,
           algo : {"signify-ed25519", "other"}]

\* The top-level key a field is under.
Parent(f) == CASE f \in {"version", "hash"} -> "auditor_spec"
               [] f \in {"id", "pubkey_fingerprint"} -> "owner"
               [] OTHER -> f

\* An intent without the top-level key k, with field f of the given shape.
Write(k, v, f, shape, sigs) ==
    [keys |-> Keys \ {k}, schemaVersion |-> v,
     field |-> [g \in Fields |-> CASE Parent(g) = k -> "absent"
                                   [] g = f -> shape
                                   [] OTHER -> "good"],
     signatures |-> sigs]

Init ==
    /\ \E k \in Keys \cup {"none"}, v \in {"", "1.1", "1.2"},
          f \in Fields, shape \in {"absent", "malformed", "good"},
          sigs \in SeqOf(Blocks, MaxSigs) :
          /\ k = "schemaVersion" => v = ""
          /\ k = "signatures" => sigs = <<>>
          /\ intent = Write(k, v, f, shape, sigs)
    /\ checked = "no"

Validate ==
    /\ checked = "no"
    /\ checked' = IF ValidateIntentSh(intent) THEN "ok" ELSE "failed"
    /\ UNCHANGED intent

Spec == Init /\ [][Validate]_vars

(* validate_intent.sh accepts every intent that satisfies the structural   *)
(* checks its header lists.                                                *)
AcceptsConforming == Conforms(intent) => checked # "failed"
=============================================================================
