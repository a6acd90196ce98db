------------------------------- MODULE Intent -------------------------------
(***************************************************************************)
(* docs/intent.json and its two validators: scripts/validate_intent.sh and *)
(* the validate-intent target of the Makefile.  An intent is abstracted to *)
(* what either validator looks at: the top-level keys, whether a field is  *)
(* there and has the right shape, and of each signature its role, the      *)
(* length of its sig and its algo.                                         *)
(***************************************************************************)
EXTENDS Naturals, Sequences, SequencesExt

Keys == {"schemaVersion", "project", "auditor_spec", "owner", "signatures",
         "updated_at"}

\* The fields whose shape validate_intent.sh checks.
Fields == {"project", "version", "hash", "id", "pubkey_fingerprint",
           "updated_at"}

Roles == {"Owner", "Codex"}
Algos == {"ed25519", "secp256k1", "signify-ed25519"}
MinSigLen == 32

IntentType ==
    [keys : SUBSET Keys, schemaVersion : {"", "1.1", "1.2"},
     field : [Fields -> {"absent", "malformed", "good"}],
     signatures : Seq([role : Roles \cup {"other"}, len : Nat,
                       algo : Algos \cup {"other"}])]

AllGood(i) == \A f \in Fields : i.field[f] = "good"

-----------------------------------------------------------------------------
\* The awk program behind MIN_SIG_LEN.  NR, the number of the line read, is
\* never 0 in the body of a rule, and `min` starts uninitialised, that is 0.
ShortestSig(signatures) ==
    LET NR == 1
        Body(min, s) == IF NR = 0 \/ s.len < min THEN s.len ELSE min
    IN  FoldLeft(Body, 0, signatures)

\* The verdict of validate_intent.sh, run without --verify-owner: every check
\* that calls `fail` holds.  The hash of the spec is only warned about.
ValidateIntentSh(i) ==
    LET sigs == ToSet(i.signatures)
    IN  /\ i.keys = Keys
        /\ i.schemaVersion # ""
        /\ AllGood(i)
        /\ Len(i.signatures) >= 1
        /\ \E s \in sigs : s.role = "Owner"
        /\ \A s \in sigs : s.role \in Roles
        /\ ShortestSig(i.signatures) >= MinSigLen
        /\ \A s \in sigs : s.algo \in Algos

\* The assertions of `make validate-intent`.  A field need only be there.
MakeValidateIntent(i) ==
    /\ i.schemaVersion = "1.1" /\ "schemaVersion" \in i.keys
    /\ "owner" \in i.keys /\ i.field["pubkey_fingerprint"] # "absent"
    /\ "auditor_spec" \in i.keys /\ i.field["hash"] # "absent"
    /\ "signatures" \in i.keys /\ Len(i.signatures) >= 1
    /\ "updated_at" \in i.keys

\* What audits/spec/intent.schema.json and the header of validate_intent.sh
\* require of an intent.
Conforms(i) ==
    /\ i.keys = Keys /\ i.schemaVersion \in {"1.1", "1.2"}
    /\ AllGood(i)
    /\ Len(i.signatures) >= 1
    /\ \E s \in ToSet(i.signatures) : s.role = "Owner"
    /\ \A s \in ToSet(i.signatures) :
          s.role \in Roles /\ s.len >= MinSigLen /\ s.algo \in Algos
=============================================================================
