-------------------------- MODULE ReleasePipeline --------------------------
(***************************************************************************)
(* The build, verification and release pipeline of MBSD: the targets of    *)
(* the Makefile, scripts/build_image.sh, scripts/quantize_firmware.sh,     *)
(* scripts/backup_mt3000.sh and bin/law-core, run by an operator one       *)
(* command at a time over the files they share.  Every step may be cut     *)
(* short: the machine goes down, the shell is killed, or the command fails *)
(* and `set -e` ends the script.  The files then stay as they are, the one *)
(* being written perhaps torn, for the next command to find.               *)
(***************************************************************************)
EXTENDS Intent

CONSTANTS
    Commands,   \* what the operator types
    MaxSrc,     \* how often the sources change (bound)
    Contents,   \* what a read of the Factory partition may return
    Intents,    \* the docs/intent.json a checkout may hold, or Absent
    Sidecars,   \* the sets of sidecars a checkout may hold
    Absent,     \* no such file
    Empty,      \* a file a redirection created and nothing was written to yet
    Torn        \* a file written in part

AllCommands == {"build-image", "quantize", "release", "clean", "backup",
                "evidence", "halt-on-critical"}

Family == {"sigma_topo", "phi_field", "pi_sdo", "delta_hash", "law_core"}

ASSUME CommandsAssumption == Commands \subseteq AllCommands
ASSUME IntentsAssumption == Intents \subseteq IntentType \cup {Absent}
ASSUME SidecarsAssumption == Sidecars \subseteq SUBSET Family
ASSUME BoundAssumption == MaxSrc \in Nat \ {0}

VARIABLES
    pc,         \* the step the running command is at, or "idle"
    goal,       \* the target of the running make
    src,        \* the version of the sources and of the image's files
    tar,        \* $IB_TAR: Absent, or whether it is the pinned tarball
    ib,         \* $IB_DIR: Absent, or what it was unpacked from, and how far
    image,      \* $FIRMWARE_FILE, while build_image.sh runs
    overlay,    \* release/mbsd-overlay.itb
    recovery,   \* release/mbsd-uboot-recovery.itb
    report,     \* the image that release/minification_report.txt is about
    sig,        \* the image that release/mbsd-overlay.itb.sig signs
    pass,       \* backups/Factory_pass1.bin and Factory_pass2.bin
    bin,        \* backups/Factory.bin
    sha,        \* backups/Factory.sha256: the content it is the hash of
    manifest,   \* audits/evidence/manifest.sha256
    lawcore_out,\* audits/evidence/lawcore_out.json
    intent,     \* docs/intent.json
    families    \* the sidecars audits/spec/family_*.json

buildVars == <<tar, ib, image>>
releaseVars == <<overlay, recovery, report, sig>>
backupVars == <<pass, bin, sha>>
evidenceVars == <<manifest, lawcore_out>>
treeVars == <<src, intent, families>>
vars == <<pc, goal, buildVars, releaseVars, backupVars, evidenceVars, treeVars>>

Tree == [from : {"pinned", "other"}, whole : BOOLEAN]
ASSUME TreeAssumption == Absent \notin Tree
Image == [src : 1..MaxSrc, tree : Tree]
File(S) == S \cup {Absent, Torn}
Clauses == {"CP-2", "CP-3", "CP-5", "CP-9"}
Verdict == [overall_pass : BOOLEAN, severity : {"None", "High", "Fatal"},
            failed_clauses : SUBSET Clauses]

PC == {"idle", "factory-check", "fetch", "verify", "extract", "image",
       "cp_overlay", "cp_recovery", "quantize", "sign", "released", "clean",
       "pass1", "pass2", "compare", "sha256", "evidence",
       "validate-intent", "law-core", "assert", "clean_repo"}

TypeOK ==
    /\ pc \in PC /\ goal \in AllCommands /\ src \in 1..MaxSrc
    /\ tar \in {Absent, "pinned", "other"} /\ ib \in Tree \cup {Absent}
    /\ image \in Image \cup {Absent}
    /\ overlay \in File(Image) /\ recovery \in File(Image)
    /\ report \in File(Image) /\ sig \in File(Image)
    /\ pass \in [1..2 -> Contents \cup {Absent}]
    /\ bin \in Contents \cup {Absent} /\ sha \in Contents \cup {Absent, Empty}
    /\ manifest \in {Absent, Empty, "written"}
    /\ lawcore_out \in File(Verdict)
    /\ intent \in Intents /\ families \in Sidecars

\* A fresh clone: no build/, release/ or backups/, and the evidence that is
\* committed, with Law-Core's verdict on a repository without a backup.
Init ==
    /\ pc = "idle" /\ goal = "release" /\ src = 1
    /\ tar = Absent /\ ib = Absent /\ image = Absent
    /\ overlay = Absent /\ recovery = Absent /\ report = Absent /\ sig = Absent
    /\ pass = [i \in 1..2 |-> Absent] /\ bin = Absent /\ sha = Absent
    /\ manifest = "written"
    /\ lawcore_out = [overall_pass |-> FALSE, severity |-> "Fatal",
                      failed_clauses |-> {"CP-3"}]
    /\ intent \in Intents /\ families \in Sidecars

Goto(from, to) == pc = from /\ pc' = to
Done(from) == Goto(from, "idle")    \* the command ends, well or with exit 1

\* The first step of a command.
Entry == [c \in AllCommands |->
            CASE c \in {"build-image", "quantize", "release"} -> "factory-check"
              [] c = "clean" -> "clean"
              [] c = "backup" -> "pass1"
              [] c = "evidence" -> "evidence"
              [] c = "halt-on-critical" -> "validate-intent"]

Run(c) ==
    /\ Goto("idle", Entry[c])
    /\ goal' = c
    /\ UNCHANGED <<buildVars, releaseVars, backupVars, evidenceVars, treeVars>>

-----------------------------------------------------------------------------
(* make release, and its prefixes build-image and quantize.                *)

\* factory-check: backups/Factory.sha256 is there.
FactoryCheck ==
    /\ \/ sha # Absent /\ Goto("factory-check", "fetch")
       \/ sha = Absent /\ Done("factory-check")
    /\ UNCHANGED <<goal, buildVars, releaseVars, backupVars, evidenceVars, treeVars>>

\* An unpacked ImageBuilder is taken as it is, a tarball is verified, and
\* without either curl fetches whatever the server returns.
FetchImageBuilder ==
    /\ \/ ib # Absent /\ Goto("fetch", "image") /\ UNCHANGED tar
       \/ ib = Absent /\ tar # Absent /\ Goto("fetch", "verify") /\ UNCHANGED tar
       \/ /\ ib = Absent /\ tar = Absent /\ Goto("fetch", "verify")
          /\ tar' \in {"pinned", "other"}
    /\ UNCHANGED <<goal, ib, image, releaseVars, backupVars, evidenceVars, treeVars>>

\* Mutant: a tarball with the wrong hash is only warned of.
MutVerifyTar ==
    /\ Goto("verify", "extract")
    /\ UNCHANGED <<goal, buildVars, releaseVars, backupVars, evidenceVars, treeVars>>

\* A tarball with another hash than the pinned one is removed.
VerifyTar ==
    /\ \/ tar = "pinned" /\ Goto("verify", "extract") /\ UNCHANGED tar
       \/ tar # "pinned" /\ Done("verify") /\ tar' = Absent
    /\ UNCHANGED <<goal, ib, image, releaseVars, backupVars, evidenceVars, treeVars>>

ExtractTar ==
    /\ Goto("extract", "image")
    /\ ib' = [from |-> tar, whole |-> TRUE]
    /\ UNCHANGED <<goal, tar, image, releaseVars, backupVars, evidenceVars, treeVars>>

\* make image, in whatever tree $IB_DIR holds, and the search for its result.
\* That it fails is Abort.
MakeImage ==
    /\ Goto("image", "cp_overlay")
    /\ image' = [src |-> src, tree |-> ib]
    /\ UNCHANGED <<goal, tar, ib, releaseVars, backupVars, evidenceVars, treeVars>>

CopyOverlay ==
    /\ Goto("cp_overlay", "cp_recovery")
    /\ overlay' = image
    /\ UNCHANGED <<goal, recovery, report, sig, buildVars, backupVars, evidenceVars, treeVars>>

CopyRecovery ==
    /\ Goto("cp_recovery", IF goal = "build-image" THEN "idle" ELSE "quantize")
    /\ recovery' = image /\ image' = Absent
    /\ UNCHANGED <<goal, overlay, report, sig, tar, ib, backupVars, evidenceVars, treeVars>>

\* The report measures and hashes the overlay; a large image is only warned of.
Quantize ==
    /\ Goto("quantize", IF goal = "quantize" THEN "idle" ELSE "sign")
    /\ report' = overlay
    /\ UNCHANGED <<goal, overlay, recovery, sig, buildVars, backupVars, evidenceVars, treeVars>>

\* Mutant: a signature file that is already there is kept.
MutSign ==
    /\ Goto("sign", "released")
    /\ sig' = IF sig = Absent THEN overlay ELSE sig
    /\ UNCHANGED <<goal, overlay, recovery, report, buildVars, backupVars, evidenceVars, treeVars>>

\* signify -S; that the key is missing is Abort, with nothing written.
Sign ==
    /\ Goto("sign", "released")
    /\ sig' = overlay
    /\ UNCHANGED <<goal, overlay, recovery, report, buildVars, backupVars, evidenceVars, treeVars>>

Released ==
    /\ Done("released")
    /\ UNCHANGED <<goal, buildVars, releaseVars, backupVars, evidenceVars, treeVars>>

Clean ==
    /\ Done("clean")
    /\ tar' = Absent /\ ib' = Absent
    /\ overlay' = Absent /\ recovery' = Absent /\ report' = Absent /\ sig' = Absent
    /\ manifest' = Absent /\ lawcore_out' = Absent
    /\ UNCHANGED <<goal, image, backupVars, treeVars>>

-----------------------------------------------------------------------------
(* scripts/backup_mt3000.sh: the Factory partition, read twice over ssh.   *)

ReadPass(i) ==
    /\ Goto(IF i = 1 THEN "pass1" ELSE "pass2", IF i = 1 THEN "pass2" ELSE "compare")
    /\ \E c \in Contents : pass' = [pass EXCEPT ![i] = c]
    /\ UNCHANGED <<goal, bin, sha, buildVars, releaseVars, evidenceVars, treeVars>>

\* Passes that differ are both removed; otherwise the first is renamed to
\* Factory.bin and the second removed.
ComparePasses ==
    /\ \/ pass[1] # pass[2] /\ Done("compare") /\ UNCHANGED bin
       \/ pass[1] = pass[2] /\ Goto("compare", "sha256") /\ bin' = pass[1]
    /\ pass' = [i \in 1..2 |-> Absent]
    /\ UNCHANGED <<goal, sha, buildVars, releaseVars, evidenceVars, treeVars>>

WriteSha ==
    /\ Done("sha256")
    /\ sha' = bin
    /\ UNCHANGED <<goal, pass, bin, buildVars, releaseVars, evidenceVars, treeVars>>

-----------------------------------------------------------------------------
(* make evidence and make halt-on-critical.                                *)

Evidence ==
    /\ Done("evidence")
    /\ manifest' = "written"
    /\ UNCHANGED <<goal, lawcore_out, buildVars, releaseVars, backupVars, treeVars>>

ValidateIntent ==
    /\ \/ intent # Absent /\ MakeValidateIntent(intent) /\ Goto("validate-intent", "law-core")
       \/ ~(intent # Absent /\ MakeValidateIntent(intent)) /\ Done("validate-intent")
    /\ UNCHANGED <<goal, buildVars, releaseVars, backupVars, evidenceVars, treeVars>>

\* Mutant: CP-3 only asks that the file is there, as factory-check does.
MutFailedClauses ==
    (IF intent = Absent THEN {"CP-2"} ELSE {}) \cup
    (IF sha = Absent THEN {"CP-3"} ELSE {}) \cup
    (IF families # Family THEN {"CP-5"} ELSE {}) \cup
    (IF manifest \in {Absent, Empty} THEN {"CP-9"} ELSE {})

\* The clauses that bin/law-core finds broken, and its verdict: CP-9 is High,
\* and only raises a severity nothing else has raised.
FailedClauses ==
    (IF intent = Absent THEN {"CP-2"} ELSE {}) \cup
    (IF sha \in {Absent, Empty} THEN {"CP-3"} ELSE {}) \cup
    (IF families # Family THEN {"CP-5"} ELSE {}) \cup
    (IF manifest \in {Absent, Empty} THEN {"CP-9"} ELSE {})

LawCore ==
    [overall_pass |-> FailedClauses = {},
     severity |-> CASE FailedClauses = {} -> "None"
                    [] FailedClauses = {"CP-9"} -> "High"
                    [] OTHER -> "Fatal",
     failed_clauses |-> FailedClauses]

\* law-core writes its verdict whatever it is, and fails unless it passes.
LawCoreCheck ==
    /\ Goto("law-core", IF LawCore.overall_pass THEN "assert" ELSE "idle")
    /\ lawcore_out' = LawCore
    /\ UNCHANGED <<goal, manifest, buildVars, releaseVars, backupVars, treeVars>>

\* The verdict is read back from the file.
AssertVerdict ==
    /\ Goto("assert", IF lawcore_out.overall_pass /\ lawcore_out.severity # "Fatal"
                      THEN "clean_repo" ELSE "idle")
    /\ UNCHANGED <<goal, buildVars, releaseVars, backupVars, evidenceVars, treeVars>>

CiPassed ==
    /\ Done("clean_repo")
    /\ UNCHANGED <<goal, buildVars, releaseVars, backupVars, evidenceVars, treeVars>>

-----------------------------------------------------------------------------
\* What a step that writes f at pc = step leaves there when it is cut short.
Cut(f, step, left) == {f} \cup (IF pc = step THEN left ELSE {})

\* The step at pc is cut short.
Abort ==
    /\ pc \notin {"idle", "clean"} /\ pc' = "idle"
    /\ tar' \in Cut(tar, "fetch", IF ib = Absent /\ tar = Absent THEN {"other"} ELSE {})
    /\ ib' \in Cut(ib, "extract", {[from |-> tar, whole |-> FALSE]})
    /\ image' = Absent
    /\ overlay' \in Cut(overlay, "cp_overlay", {Torn})
    /\ recovery' \in Cut(recovery, "cp_recovery", {Torn})
    /\ report' \in Cut(report, "quantize", {Torn})
    /\ sig' \in Cut(sig, "sign", {Torn})
    /\ sha' \in Cut(sha, "sha256", {Empty})
    /\ manifest' \in Cut(manifest, "evidence", {Empty, "written"})
    /\ lawcore_out' \in Cut(lawcore_out, "law-core", {Torn})
    /\ UNCHANGED <<goal, pass, bin, treeVars>>

\* rm -rf removes build/, then release/, then audits/evidence/, and is cut
\* short in one of them.
AbortClean ==
    /\ Done("clean")
    /\ \/ /\ tar' \in {tar, Absent}
          /\ ib' \in {ib, Absent} \cup
                    (IF ib = Absent THEN {} ELSE {[ib EXCEPT !.whole = FALSE]})
          /\ UNCHANGED <<releaseVars, evidenceVars>>
       \/ /\ tar' = Absent /\ ib' = Absent
          /\ overlay' \in {overlay, Absent} /\ recovery' \in {recovery, Absent}
          /\ report' \in {report, Absent} /\ sig' \in {sig, Absent}
          /\ UNCHANGED evidenceVars
       \/ /\ tar' = Absent /\ ib' = Absent /\ overlay' = Absent
          /\ recovery' = Absent /\ report' = Absent /\ sig' = Absent
          /\ manifest' \in {manifest, Absent}
          /\ lawcore_out' \in {lawcore_out, Absent}
    /\ UNCHANGED <<goal, image, backupVars, treeVars>>

\* Between two commands the operator edits or checks out the repository.
EditTree ==
    /\ pc = "idle"
    /\ \/ src < MaxSrc /\ src' = src + 1 /\ UNCHANGED <<intent, families>>
       \/ intent' \in Intents /\ UNCHANGED <<src, families>>
       \/ families' \in Sidecars /\ UNCHANGED <<src, intent>>
    /\ UNCHANGED <<pc, goal, buildVars, releaseVars, backupVars, evidenceVars>>

Next ==
    \/ \E c \in Commands : Run(c)
    \/ FactoryCheck \/ FetchImageBuilder \/ VerifyTar \/ ExtractTar
    \/ MakeImage \/ CopyOverlay \/ CopyRecovery \/ Quantize \/ Sign \/ Released
    \/ Clean
    \/ \E i \in 1..2 : ReadPass(i)
    \/ ComparePasses \/ WriteSha
    \/ Evidence \/ ValidateIntent \/ LawCoreCheck \/ AssertVerdict \/ CiPassed
    \/ Abort \/ AbortClean \/ EditTree

Spec == Init /\ [][Next]_vars

-----------------------------------------------------------------------------
(* When `make release` reports success, whatever earlier runs left behind: *)
(* both firmware files are the same complete image, and the report and the *)
(* signature are about that image, not about one of an earlier run.        *)
ReleaseIsCoherent ==
    pc = "released" =>
        /\ overlay \in Image
        /\ recovery = overlay /\ report = overlay /\ sig = overlay

(* The tree an image is built in only ever comes from the tarball that     *)
(* build_image.sh pins, whatever the server returned and wherever earlier  *)
(* runs were cut short.                                                    *)
OnlyPinnedTree ==
    /\ TypeOK
    /\ ib # Absent => ib.from = "pinned"

(* When halt-on-critical passes, the repository has an intent, a Factory   *)
(* checksum with content, all sidecars and a manifest with content; and    *)
(* the verdict on disk says so.                                            *)
CiGate ==
    pc = "clean_repo" =>
        /\ intent # Absent /\ families = Family
        /\ sha \in Contents /\ manifest = "written"
        /\ lawcore_out \in Verdict /\ lawcore_out.severity = "None"
=============================================================================
