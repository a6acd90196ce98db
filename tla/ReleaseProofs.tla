---------------------------- MODULE ReleaseProofs ----------------------------
(***************************************************************************)
(* Proofs about ReleasePipeline, for any commands, any intents, sidecars   *)
(* and contents of the Factory partition, and any number of versions of    *)
(* the sources.                                                            *)
(***************************************************************************)
EXTENDS ReleasePipeline, TLAPS

(* The steps of a build rest on what the steps before them have left: a    *)
(* tarball that is unpacked was verified, an image is made in a tree that  *)
(* is there, and the files of a release agree as far as the script has     *)
(* come.                                                                   *)
BuildInv ==
    /\ pc = "extract" => tar = "pinned"
    /\ pc = "image" => ib # Absent
    /\ pc \in {"cp_overlay", "cp_recovery"} => image \in Image
    /\ pc = "cp_recovery" => overlay = image
    /\ pc \in {"quantize", "sign", "released"} =>
          overlay \in Image /\ recovery = overlay
    /\ pc \in {"sign", "released"} => report = overlay
    /\ pc = "released" => sig = overlay

(* Behind bin/law-core its verdict is on disk, and nothing has changed     *)
(* since.                                                                  *)
GateInv ==
    pc \in {"assert", "clean_repo"} =>
        FailedClauses = {} /\ lawcore_out = LawCore

PipelineInv == OnlyPinnedTree /\ BuildInv /\ GateInv

(* The invariant holds before the first command.                           *)
LEMMA PipelineInit == Init => PipelineInv
  BY BoundAssumption
     DEF Init, PipelineInv, OnlyPinnedTree, TypeOK, BuildInv, GateInv, PC,
         AllCommands, File, Verdict, Clauses

(* Every command and every step of a build keeps the invariant.            *)
LEMMA PipelineStep == PipelineInv /\ [Next]_vars => PipelineInv'
<1> SUFFICES ASSUME PipelineInv, [Next]_vars PROVE PipelineInv'
  OBVIOUS
<1> USE BoundAssumption, CommandsAssumption
    DEF PipelineInv, OnlyPinnedTree, TypeOK, BuildInv, GateInv, PC, Goto, Done,
        buildVars, releaseVars, backupVars, evidenceVars, treeVars, File, Image, Tree
<1>1. ASSUME NEW c \in Commands, Run(c) PROVE PipelineInv'
  BY <1>1 DEF Run, Entry, AllCommands
<1>2. CASE FactoryCheck
  BY <1>2 DEF FactoryCheck
<1>3. CASE FetchImageBuilder
  BY <1>3 DEF FetchImageBuilder
<1>4. CASE VerifyTar
  BY <1>4 DEF VerifyTar
<1>5. CASE ExtractTar
  <2>1. ib' = [from |-> "pinned", whole |-> TRUE]
    BY <1>5 DEF ExtractTar
  <2>2. ib' \in Tree /\ ib'.from = "pinned"
    BY <2>1
  <2>3. ib' # Absent
    BY <2>2, TreeAssumption
  <2>4. QED
    BY <1>5, <2>2, <2>3 DEF ExtractTar
<1>6. CASE MakeImage
  BY <1>6 DEF MakeImage
<1>7. CASE CopyOverlay
  BY <1>7 DEF CopyOverlay
<1>8. CASE CopyRecovery
  BY <1>8 DEF CopyRecovery
<1>9. CASE Quantize
  BY <1>9 DEF Quantize
<1>10. CASE Sign
  BY <1>10 DEF Sign
<1>11. CASE Released
  BY <1>11 DEF Released
<1>12. CASE Clean
  BY <1>12 DEF Clean
<1>13. ASSUME NEW i \in 1..2, ReadPass(i) PROVE PipelineInv'
  BY <1>13 DEF ReadPass
<1>14. CASE ComparePasses
  BY <1>14 DEF ComparePasses
<1>15. CASE WriteSha
  BY <1>15 DEF WriteSha
<1>16. CASE Evidence
  BY <1>16 DEF Evidence
<1>17. CASE ValidateIntent
  BY <1>17 DEF ValidateIntent
<1>18. CASE LawCoreCheck
  <2>1. FailedClauses' = FailedClauses /\ LawCore' = LawCore
    BY <1>18 DEF LawCoreCheck, FailedClauses, LawCore
  <2>2. LawCore \in Verdict
    BY DEF LawCore, Verdict, FailedClauses, Clauses
  <2>3. LawCore.overall_pass => FailedClauses = {}
    BY DEF LawCore
  <2>4. QED
    BY <1>18, <2>1, <2>2, <2>3 DEF LawCoreCheck
<1>19. CASE AssertVerdict
  <2>1. FailedClauses' = FailedClauses /\ LawCore' = LawCore
    BY <1>19 DEF AssertVerdict, FailedClauses, LawCore
  <2>2. QED
    BY <1>19, <2>1 DEF AssertVerdict
<1>20. CASE CiPassed
  BY <1>20 DEF CiPassed
<1>21. CASE Abort
  <2>1. ib' \in Tree \cup {Absent} /\ (ib' # Absent => ib'.from = "pinned")
    <3>1. CASE ib' = ib
      BY <3>1
    <3>2. CASE pc = "extract" /\ ib' = [from |-> tar, whole |-> FALSE]
      BY <3>2
    <3>3. QED
      BY <1>21, <3>1, <3>2 DEF Abort, Cut
  <2>2. /\ tar' \in {Absent, "pinned", "other"} /\ image' = Absent
        /\ manifest' \in {Absent, Empty, "written"}
        /\ sha' \in Contents \cup {Absent, Empty}
    BY <1>21 DEF Abort, Cut
  <2>3. /\ overlay' \in File(Image) /\ recovery' \in File(Image)
        /\ report' \in File(Image) /\ sig' \in File(Image)
        /\ lawcore_out' \in File(Verdict)
    BY <1>21 DEF Abort, Cut
  <2>4. TypeOK'
    BY <1>21, <2>1, <2>2, <2>3 DEF Abort
  <2>5. QED
    BY <1>21, <2>1, <2>4 DEF Abort
<1>22. CASE AbortClean
  <2>1. ib' \in Tree \cup {Absent} /\ (ib' # Absent => ib'.from = "pinned")
    <3>1. CASE ib' \in {ib, Absent}
      BY <3>1
    <3>2. CASE ib # Absent /\ ib' = [ib EXCEPT !.whole = FALSE]
      BY <3>2
    <3>3. QED
      BY <1>22, <3>1, <3>2 DEF AbortClean
  <2>2. TypeOK'
    BY <1>22, <2>1 DEF AbortClean
  <2>3. QED
    BY <1>22, <2>1, <2>2 DEF AbortClean
<1>23. CASE EditTree
  BY <1>23 DEF EditTree
<1>24. CASE UNCHANGED vars
  BY <1>24 DEF vars, FailedClauses, LawCore
<1>25. QED
  BY <1>1, <1>2, <1>3, <1>4, <1>5, <1>6, <1>7, <1>8, <1>9, <1>10, <1>11, <1>12,
     <1>13, <1>14, <1>15, <1>16, <1>17, <1>18, <1>19, <1>20, <1>21, <1>22, <1>23,
     <1>24 DEF Next

(* The inductive invariant holds in every state the pipeline can reach.    *)
LEMMA PipelineInvariant == Spec => []PipelineInv
  BY PipelineInit, PipelineStep, PTL DEF Spec

(* The tree that images are built in comes from the pinned tarball,        *)
(* whatever the server sends and wherever build_image.sh is cut short.     *)
THEOREM TreeIsPinned == Spec => []OnlyPinnedTree
<1>1. PipelineInv => OnlyPinnedTree
  BY DEF PipelineInv
<1>2. QED
  BY <1>1, PipelineInvariant, PTL

(* When `make release` is done, both images, the report and the signature  *)
(* are about one whole image, whatever earlier commands left behind.       *)
THEOREM ReleaseCoherent == Spec => []ReleaseIsCoherent
<1>1. PipelineInv => ReleaseIsCoherent
  BY DEF PipelineInv, BuildInv, ReleaseIsCoherent
<1>2. QED
  BY <1>1, PipelineInvariant, PTL

(* When halt-on-critical passes, what bin/law-core asks for is there.      *)
THEOREM GateHolds == Spec => []CiGate
<1>1. PipelineInv => CiGate
  <2> SUFFICES ASSUME PipelineInv, pc = "clean_repo" PROVE CiGate
    BY DEF CiGate
  <2>1. FailedClauses = {} /\ lawcore_out = LawCore
    BY DEF PipelineInv, GateInv
  <2>2. /\ intent # Absent /\ families = Family
        /\ sha \notin {Absent, Empty} /\ manifest \notin {Absent, Empty}
    BY <2>1 DEF FailedClauses
  <2>3. lawcore_out \in Verdict /\ lawcore_out.severity = "None"
    BY <2>1 DEF LawCore, Verdict, Clauses
  <2>4. QED
    BY <2>2, <2>3 DEF CiGate, PipelineInv, OnlyPinnedTree, TypeOK
<1>2. QED
  BY <1>1, PipelineInvariant, PTL
=============================================================================
