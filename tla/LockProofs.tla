----------------------------- MODULE LockProofs -----------------------------
(***************************************************************************)
(* Proofs about the locks. The ones CPUs spin for: Mutex, for any CPUs,    *)
(* mutexes, levels and parking lots, and any number of looks at the word   *)
(* before a CPU parks; MpLock, for any CPUs, number of tickets and depth   *)
(* of calls; PcLock, for any producers and consumers and any number of     *)
(* writes after which the generation comes round. And the one threads      *)
(* sleep for: RwLock, for any finite set of threads and any flags.         *)
(***************************************************************************)
EXTENDS Mutex, MpLock, PcLock, RwLock, SleepQueueProofs

-----------------------------------------------------------------------------
(* Mutexes                                                                 *)

(* A CPU enters mutexes in their order, so it is inside each of them once. *)
Ordered ==
    \A c \in CPU :
        /\ \A i, j \in DOMAIN held[c] : i < j => held[c][i] < held[c][j]
        /\ mpc[c] # "out" => /\ MtxArg(c) \in Mtx
                             /\ \A i \in DOMAIN held[c] : held[c][i] < MtxArg(c)

(* A CPU that will set the parked bit has seen an owner: the bit is never  *)
(* set in a word that is 0.                                                *)
SawOwner ==
    \A c \in CPU :
        mpc[c] \in {"spin", "set_wait", "set_parked"} => call[c].owner # Zero

(* All the mutexes that c has entered are at IPL_NONE.                     *)
Flat(c) == \A i \in DOMAIN held[c] : mtx_wantipl[held[c][i]] = 0

(* The first mutex above IPL_NONE that a CPU has entered, or is entering   *)
(* or leaving, has the level to go back to, which is 0; without one the    *)
(* level is still 0.                                                       *)
MtxLevels ==
    \A c \in CPU :
        /\ Flat(c) /\ mpc[c] = "out" => ipl[c] = 0
        /\ Flat(c) /\ mpc[c] # "out" =>
              IF mtx_wantipl[MtxArg(c)] = 0 THEN ipl[c] = 0 ELSE call[c].s = 0
        /\ \A i \in DOMAIN held[c] :
              /\ mtx_wantipl[held[c][i]] # 0
              /\ \A j \in DOMAIN held[c] : j < i => mtx_wantipl[held[c][j]] = 0
              => mtx_oldipl[held[c][i]] = 0

MtxInv == MtxExclusion /\ Ordered /\ SawOwner /\ MtxLevels

(* The invariant holds before the first mtx_enter().                       *)
LEMMA MtxInitial == MtxInit => MtxInv
  BY MutexAssumption
     DEF MtxInit, MtxInv, MtxExclusion, MtxTypeOK, Has, Ordered, SawOwner, MtxLevels,
         Flat, Words, Zero, Word, Idle, Pcs, Published

-----------------------------------------------------------------------------
(* What append and Front do to the mutexes a CPU has entered.              *)
LEMMA AppendHeld ==
    ASSUME NEW s \in Seq(Mtx), NEW m \in Mtx
    PROVE  /\ Append(s, m) \in Seq(Mtx)
           /\ DOMAIN s = 1 .. Len(s) /\ Len(s) \in Nat
           /\ DOMAIN Append(s, m) = 1 .. Len(s) + 1
           /\ \A i \in DOMAIN s : Append(s, m)[i] = s[i]
           /\ Append(s, m)[Len(s) + 1] = m
  BY AppendProperties

(* A CPU leaves the mutex it entered last.                                 *)
LEMMA FrontHeld ==
    ASSUME NEW s \in Seq(Mtx), s # <<>>
    PROVE  /\ Front(s) \in Seq(Mtx)
           /\ DOMAIN s = 1 .. Len(s) /\ Len(s) \in Nat \ {0}
           /\ DOMAIN Front(s) = 1 .. Len(s) - 1
           /\ \A i \in DOMAIN Front(s) : Front(s)[i] = s[i]
           /\ Last(s) = s[Len(s)] /\ Last(s) \in Mtx
<1>1. Len(s) \in Nat \ {0} /\ DOMAIN s = 1 .. Len(s)
  BY EmptySeq, LenProperties
<1>2. QED
  BY <1>1, SubSeqProperties DEF Front, Last

(* The steps behind the label "locked": c comes to be inside m, where      *)
(* nobody else is, and saves its level.                                    *)
LEMMA Enters ==
    ASSUME MtxInv, MtxTypeOK', NEW c \in CPU, NEW m \in Mtx, NEW s \in Nat,
           Locked(c, m, s),
           mpc[c] = "out" \/ MtxArg(c) = m,
           \A i \in DOMAIN held[c] : held[c][i] < m,
           mtx_owner[m] = Zero \/ Has(c, m),
           mtx_owner'[m].cpu = c,
           \A n \in Mtx \ {m} : mtx_owner'[n] = mtx_owner[n],
           \A d \in CPU \ {c} : ipl'[d] = ipl[d],
           Flat(c) => IF mtx_wantipl[m] = 0 THEN ipl'[c] = 0 ELSE s = 0
    PROVE  MtxInv'
<1> USE MutexAssumption DEF MtxInv
<1>1. /\ held[c] \in Seq(Mtx) /\ held'[c] = Append(held[c], m)
      /\ mpc'[c] = "out"
      /\ \A d \in CPU \ {c} :
            held'[d] = held[d] /\ mpc'[d] = mpc[d] /\ call'[d] = call[d]
  BY DEF Locked, MtxGoto, MtxExclusion, MtxTypeOK
<1>2. /\ DOMAIN held[c] = 1 .. Len(held[c]) /\ Len(held[c]) \in Nat
      /\ DOMAIN held'[c] = 1 .. Len(held[c]) + 1
      /\ \A i \in DOMAIN held[c] : held'[c][i] = held[c][i]
      /\ held'[c][Len(held[c]) + 1] = m
  BY <1>1, AppendHeld
<1>3. \A d \in CPU \ {c} : ~Has(d, m)
  BY DEF MtxExclusion, Zero, Word
<1>4. MtxExclusion'
  <2>1. ASSUME NEW n \in Mtx
        PROVE  Has(c, n)' <=> Has(c, n) \/ n = m
    <3>1. (\E i \in DOMAIN held'[c] : held'[c][i] = n)
             <=> (\E i \in DOMAIN held[c] : held[c][i] = n) \/ n = m
      <4>1. Len(held[c]) + 1 \in DOMAIN held'[c]
            /\ \A i \in DOMAIN held[c] : i \in DOMAIN held'[c]
        BY <1>2
      <4>2. \A i \in DOMAIN held'[c] : i \in DOMAIN held[c] \/ i = Len(held[c]) + 1
        BY <1>2
      <4>3. QED
        BY <1>2, <4>1, <4>2, Zenon
    <3>2. Has(c, n)' <=> \E i \in DOMAIN held'[c] : held'[c][i] = n
      BY <1>1 DEF Has
    <3>3. MtxArg(c) = n /\ mpc[c] # "out" => n = m
      OBVIOUS
    <3>4. Has(c, n) \/ n = m <=> (\E i \in DOMAIN held[c] : held[c][i] = n) \/ n = m
      BY <3>3 DEF Has
    <3>5. QED
      BY <3>1, <3>2, <3>4
  <2>2. \A n \in Mtx, d \in CPU \ {c} : Has(d, n)' <=> Has(d, n)
    BY <1>1 DEF Has, MtxArg
  <2>3. QED
    BY <1>3, <2>1, <2>2 DEF MtxExclusion
<1>5. Ordered'
  <2>1. \A i, j \in DOMAIN held'[c] : i < j => held'[c][i] < held'[c][j]
    BY <1>2 DEF Ordered
  <2>2. QED
    BY <1>1, <2>1 DEF Ordered, MtxArg
<1>6. SawOwner'
  BY <1>1 DEF SawOwner
<1>7. MtxLevels'
  <2>1. \A n \in Mtx \ {m} : mtx_oldipl'[n] = mtx_oldipl[n]
    BY DEF Locked, MtxExclusion, MtxTypeOK
  <2>2. mtx_wantipl[m] # 0 => mtx_oldipl'[m] = s
    BY DEF Locked, MtxExclusion, MtxTypeOK
  <2>3. ASSUME NEW d \in CPU \ {c}, NEW i \in DOMAIN held[d]
        PROVE  held[d][i] \in Mtx \ {m}
    <3>1. held[d] \in Seq(Mtx) /\ held[d][i] # m
      BY <1>3 DEF Has, MtxExclusion, MtxTypeOK
    <3>2. QED
      BY <3>1, LenProperties, ElementOfSeq
  <2>4. Flat(c)' => Flat(c) /\ mtx_wantipl[m] = 0
    BY <1>2 DEF Flat
  <2>5. ASSUME NEW d \in CPU \ {c}
        PROVE  Flat(d)' <=> Flat(d)
    BY <1>1 DEF Flat
  <2>6. ASSUME NEW i \in DOMAIN held'[c], mtx_wantipl[held'[c][i]] # 0,
               \A j \in DOMAIN held'[c] : j < i => mtx_wantipl[held'[c][j]] = 0
        PROVE  mtx_oldipl'[held'[c][i]] = 0
    <3>1. \A j \in DOMAIN held[c] :
             j \in DOMAIN held'[c] /\ held'[c][j] = held[c][j]
      BY <1>2
    <3>2. CASE i \in DOMAIN held[c]
      <4>1. held[c][i] \in Mtx \ {m}
        BY <1>1, <1>2, <3>2, ElementOfSeq
      <4>2. \A j \in DOMAIN held[c] : j < i => mtx_wantipl[held[c][j]] = 0
        BY <2>6, <3>1
      <4>3. mtx_oldipl[held[c][i]] = 0
        BY <2>6, <3>1, <3>2, <4>2 DEF MtxLevels
      <4>4. QED
        BY <2>1, <3>1, <3>2, <4>1, <4>3
    <3>3. CASE i = Len(held[c]) + 1
      <4>1. Flat(c)
        BY <1>2, <2>6, <3>1, <3>3 DEF Flat
      <4>2. QED
        BY <1>2, <2>2, <2>6, <3>3, <4>1
    <3>4. QED
      BY <1>2, <3>2, <3>3
  <2>7. ASSUME NEW d \in CPU \ {c}, NEW i \in DOMAIN held'[d],
               mtx_wantipl[held'[d][i]] # 0,
               \A j \in DOMAIN held'[d] : j < i => mtx_wantipl[held'[d][j]] = 0
        PROVE  mtx_oldipl'[held'[d][i]] = 0
    <3>1. held'[d] = held[d]
      BY <1>1
    <3>2. mtx_oldipl[held[d][i]] = 0
      BY <2>7, <3>1 DEF MtxLevels
    <3>3. QED
      BY <2>1, <2>3, <3>1, <3>2
  <2>8. ASSUME NEW d \in CPU
        PROVE  /\ Flat(d)' /\ mpc'[d] = "out" => ipl'[d] = 0
               /\ Flat(d)' /\ mpc'[d] # "out" =>
                     IF mtx_wantipl[MtxArg(d)'] = 0 THEN ipl'[d] = 0
                     ELSE call'[d].s = 0
    <3>1. CASE d = c
      BY <1>1, <2>4, <3>1
    <3>2. CASE d # c
      BY <1>1, <2>5, <3>2 DEF MtxLevels, MtxArg
    <3>3. QED
      BY <3>1, <3>2
  <2>9. QED
    BY <2>6, <2>7, <2>8 DEF MtxLevels
<1>8. QED
  BY <1>4, <1>5, <1>6, <1>7

(* The steps of a call that neither come to be inside the mutex nor leave  *)
(* it: the word keeps its CPU.                                             *)
LEMMA Waits ==
    ASSUME MtxInv, MtxTypeOK', NEW c \in CPU, NEW l \in Pcs, MtxGoto(c, l),
           UNCHANGED <<held, mtx_oldipl, ipl>>,
           mpc[c] # "out" /\ l # "out",
           mpc[c] \notin {"remove", "unpark"} /\ l \notin {"remove", "unpark"},
           \A n \in Mtx : mtx_owner'[n].cpu = mtx_owner[n].cpu,
           \A d \in CPU \ {c} : call'[d] = call[d],
           call'[c].mtx = call[c].mtx /\ call'[c].s = call[c].s,
           l \in {"spin", "set_wait", "set_parked"} => call'[c].owner # Zero
    PROVE  MtxInv'
<1> USE MutexAssumption DEF MtxInv
<1>1. mpc'[c] = l /\ \A d \in CPU \ {c} : mpc'[d] = mpc[d]
  BY DEF MtxGoto, MtxExclusion, MtxTypeOK
<1>2. \A d \in CPU : MtxArg(d)' = MtxArg(d)
  BY DEF MtxArg
<1>3. MtxExclusion'
  <2>1. \A n \in Mtx, d \in CPU : Has(d, n)' <=> Has(d, n)
    BY <1>1, <1>2 DEF Has
  <2>2. QED
    BY <2>1 DEF MtxExclusion
<1>4. Ordered'
  BY <1>1, <1>2 DEF Ordered
<1>5. SawOwner'
  BY <1>1 DEF SawOwner
<1>6. MtxLevels'
  <2>1. \A d \in CPU : Flat(d)' <=> Flat(d)
    BY DEF Flat
  <2>2. QED
    BY <1>1, <1>2, <2>1 DEF MtxLevels
<1>7. QED
  BY <1>3, <1>4, <1>5, <1>6

-----------------------------------------------------------------------------
(* RemoveAt leaves a sequence of the same kind.                            *)
LEMMA RemoveAtType ==
    ASSUME NEW S, NEW s \in Seq(S), NEW i \in DOMAIN s
    PROVE  RemoveAt(s, i) \in Seq(S)
<1>1. Len(s) \in Nat /\ DOMAIN s = 1 .. Len(s)
  BY LenProperties
<1>2. SubSeq(s, 1, i - 1) \in Seq(S) /\ SubSeq(s, i + 1, Len(s)) \in Seq(S)
  BY <1>1, SubSeqProperties
<1>3. QED
  BY <1>2, ConcatProperties DEF RemoveAt

\* The locals of mtx_enter and mtx_leave.
MtxCalls == [mtx : Mtx \cup {NIL}, owner : Words, spins : Nat, s : Nat]

(* A compare-and-swap of a mutex's word stores words.                      *)
LEMMA CasType ==
    ASSUME mtx_owner \in [Mtx -> Words], NEW m \in Mtx, NEW old, NEW new,
           MtxCas(m, old, new), mtx_owner[m] = old => new \in Words
    PROVE  mtx_owner' \in [Mtx -> Words]
  BY DEF MtxCas

(* The words that the functions build are words of a mutex.                *)
LEMMA WordType == Zero \in Words /\ \A c \in CPU, b \in BOOLEAN : Word(c, b) \in Words
  BY DEF Zero, Word, Words

(* The locals of a CPU that is in no function.                             *)
LEMMA IdleType == Idle \in MtxCalls
  BY WordType DEF Idle, MtxCalls

(* An assignment to the locals of a CPU.                                   *)
LEMMA CallType ==
    ASSUME call \in [CPU -> MtxCalls], NEW c \in CPU, NEW o \in Words, NEW n \in Nat
    PROVE  /\ [call EXCEPT ![c].owner = o] \in [CPU -> MtxCalls]
           /\ [call EXCEPT ![c].owner = o, ![c].spins = n] \in [CPU -> MtxCalls]
<1>1. ASSUME NEW f \in [CPU -> MtxCalls], NEW x \in MtxCalls
      PROVE  [f EXCEPT ![c] = x] \in [CPU -> MtxCalls]
  BY <1>1
<1>2. /\ [call[c] EXCEPT !.owner = o] \in MtxCalls
      /\ [[call[c] EXCEPT !.owner = o] EXCEPT !.spins = n] \in MtxCalls
  BY DEF MtxCalls
<1>3. [call EXCEPT ![c].owner = o] = [call EXCEPT ![c] = [call[c] EXCEPT !.owner = o]]
  OBVIOUS
<1>4. [call EXCEPT ![c].owner = o, ![c].spins = n]
      = [call EXCEPT ![c] = [[call[c] EXCEPT !.owner = o] EXCEPT !.spins = n]]
  OBVIOUS
<1>5. QED
  BY <1>1, <1>2, <1>3, <1>4

(* A CPU that takes a mutex keeps the types.                               *)
LEMMA LockedType ==
    ASSUME MtxTypeOK, NEW c \in CPU, NEW m \in Mtx, NEW s \in Nat, Locked(c, m, s)
    PROVE  /\ mtx_oldipl' \in [Mtx -> Nat] /\ held' \in [CPU -> Seq(Mtx)]
           /\ mpc' \in [CPU -> Pcs] /\ call' \in [CPU -> MtxCalls]
<1>1. mtx_oldipl' \in [Mtx -> Nat] /\ mpc' \in [CPU -> Pcs]
  BY DEF Locked, MtxTypeOK, MtxGoto, Pcs
<1>2. held' \in [CPU -> Seq(Mtx)]
  BY AppendHeld DEF Locked, MtxTypeOK
<1>3. call' \in [CPU -> MtxCalls]
  BY IdleType DEF Locked, MtxTypeOK, MtxCalls
<1>4. QED
  BY <1>1, <1>2, <1>3

(* Every step keeps the types.                                             *)
LEMMA MtxTypes == MtxInv /\ [MtxNext]_mtxVars => MtxTypeOK'
<1> SUFFICES ASSUME MtxInv, [MtxNext]_mtxVars PROVE MtxTypeOK'
  OBVIOUS
<1>0. /\ MtxTypeOK /\ Ordered /\ SawOwner
      /\ mtx_owner \in [Mtx -> Words] /\ call \in [CPU -> MtxCalls]
      /\ mpc \in [CPU -> Pcs] /\ ipl \in [CPU -> Nat]
  BY DEF MtxInv, MtxExclusion, MtxTypeOK, MtxCalls
<1>1. ASSUME users' \in Users, mtx_owner' \in [Mtx -> Words],
             mtx_oldipl' \in [Mtx -> Nat],
             lock' \in [Lot -> CPU \cup {NIL}], waiters' \in [Lot -> Seq(CPU)],
             w_wait' \in [CPU -> BOOLEAN], ipl' \in [CPU -> Nat],
             held' \in [CPU -> Seq(Mtx)], mpc' \in [CPU -> Pcs],
             call' \in [CPU -> MtxCalls]
      PROVE  MtxTypeOK'
  BY <1>1 DEF MtxTypeOK, MtxCalls
<1>2. ASSUME NEW c \in CPU, MtxStep(c), mpc[c] # "out" PROVE MtxTypeOK'
  <2>1. MtxArg(c) \in Mtx /\ call[c].s \in Nat /\ MtxLot(c) \in Lot
    BY <1>0, <1>2, MutexAssumption DEF Ordered, MtxLot, MtxCalls
  <2> USE <1>0, <1>2, <2>1 DEF MtxStep, MtxTypeOK, At, MtxGoto, Pcs, Published
  <2>2. CASE Spin(c)
    <3>1. call' \in [CPU -> MtxCalls]
      <4>1. /\ mtx_owner[MtxArg(c)] \in Words
            /\ call[c].spins \in Nat /\ call[c].spins + 1 \in Nat
        BY DEF MtxCalls
      <4>2. QED
        BY <2>2, <4>1, CallType DEF Spin
    <3>2. QED
      BY <1>1, <2>2, <3>1 DEF Spin
  <2>3. CASE SpinCas(c)
    <3>1. mtx_owner' \in [Mtx -> Words]
      BY <2>3, CasType, WordType DEF SpinCas
    <3>2. call' \in [CPU -> MtxCalls]
      <4>1. mtx_owner[MtxArg(c)] \in Words /\ call[c].spins + 1 \in Nat
        BY DEF MtxCalls
      <4>2. QED
        <5>1. CASE mtx_owner[MtxArg(c)] = Zero
          BY <2>3, <5>1, LockedType DEF SpinCas
        <5>2. CASE mtx_owner[MtxArg(c)] # Zero
          <6>1. call' = [call EXCEPT ![c].owner = mtx_owner[MtxArg(c)],
                                     ![c].spins = call[c].spins + 1]
            BY <2>3, <5>2 DEF SpinCas
          <6>2. QED
            BY <4>1, <6>1, CallType
        <5>3. QED
          BY <5>1, <5>2
    <3>3. /\ mtx_oldipl' \in [Mtx -> Nat] /\ held' \in [CPU -> Seq(Mtx)]
          /\ mpc' \in [CPU -> Pcs]
      BY <2>3, LockedType DEF SpinCas
    <3>4. QED
      BY <1>1, <2>3, <3>1, <3>2, <3>3 DEF SpinCas
  <2>4. CASE Publish(c)
    BY <1>1, <2>4 DEF Publish
  <2>5. CASE SetWait(c)
    BY <1>1, <2>5 DEF SetWait
  <2>6. CASE SetParked(c)
    <3>1. mtx_owner' \in [Mtx -> Words]
      <4>1. call[c].owner \in Words /\ call[c].owner # Zero
        BY <2>6 DEF SetParked, SawOwner, MtxCalls
      <4>2. Word(call[c].owner.cpu, TRUE) \in Words
        BY <4>1 DEF Words, Word
      <4>3. QED
        BY <2>6, <4>2, CasType DEF SetParked
    <3>2. call' \in [CPU -> MtxCalls]
      <4>1. mtx_owner[MtxArg(c)] \in Words /\ call[c].owner \in Words
        BY DEF MtxCalls
      <4>2. QED
        BY <2>6, <4>1, CallType DEF SetParked
    <3>3. QED
      BY <1>1, <2>6, <3>1, <3>2 DEF SetParked
  <2>7. CASE Unwait(c)
    BY <1>1, <2>7 DEF Unwait
  <2>8. CASE Take(c)
    <3>1. mtx_owner' \in [Mtx -> Words]
      BY <2>8, CasType, WordType DEF Take
    <3>2. call' \in [CPU -> MtxCalls]
      <4>1. mtx_owner[MtxArg(c)] \in Words /\ 0 \in Nat
        OBVIOUS
      <4>2. QED
        <5>1. CASE mtx_owner[MtxArg(c)] = Zero
          BY <2>8, <5>1 DEF Take
        <5>2. CASE mtx_owner[MtxArg(c)] # Zero
          <6>1. call' = [call EXCEPT ![c].owner = mtx_owner[MtxArg(c)]]
            BY <2>8, <5>2 DEF Take
          <6>2. QED
            BY <4>1, <6>1, CallType
        <5>3. QED
          BY <5>1, <5>2
    <3>3. QED
      BY <1>1, <2>8, <3>1, <3>2 DEF Take
  <2>9. CASE Unpublish(c)
    <3>1. waiters' \in [Lot -> Seq(CPU)]
      BY <2>9, RemoveAtType DEF Unpublish
    <3>2. QED
      BY <1>1, <2>9, <3>1, LockedType DEF Unpublish
  <2>10. CASE ClearOwner(c)
    <3>1. mtx_owner' \in [Mtx -> Words]
      BY <2>10, WordType DEF ClearOwner
    <3>2. QED
      BY <1>1, <2>10, <3>1 DEF ClearOwner
  <2>11. CASE WakeFirst(c)
    <3>1. call' \in [CPU -> MtxCalls]
      BY <2>11, IdleType DEF WakeFirst
    <3>2. ipl' \in [CPU -> Nat]
      BY <2>11 DEF WakeFirst, Splx
    <3>3. QED
      BY <1>1, <2>11, <3>1, <3>2 DEF WakeFirst
  <2>12. QED
    BY <2>2, <2>3, <2>4, <2>5, <2>6, <2>7, <2>8, <2>9, <2>10, <2>11
<1>3. ASSUME NEW c \in CPU, mtx_leave(c) PROVE MtxTypeOK'
  <2> USE <1>0, <1>3 DEF mtx_leave
  <2>1. Last(held[c]) \in Mtx /\ held' \in [CPU -> Seq(Mtx)]
    BY FrontHeld DEF MtxTypeOK
  <2>2. mtx_owner' \in [Mtx -> Words]
    BY <2>1, CasType, WordType
  <2>3. call' \in [CPU -> MtxCalls]
    <3>1. mtx_oldipl[Last(held[c])] \in Nat
      BY <2>1 DEF MtxTypeOK
    <3>2. [Idle EXCEPT !.mtx = Last(held[c]), !.s = mtx_oldipl[Last(held[c])]] \in MtxCalls
      BY <2>1, <3>1, IdleType DEF MtxCalls
    <3>3. QED
      BY <3>2
  <2>4. ipl' \in [CPU -> Nat] /\ mpc' \in [CPU -> Pcs]
    BY <2>1 DEF Splx, MtxTypeOK, MtxGoto, Pcs
  <2>5. QED
    BY <1>1, <2>1, <2>2, <2>3, <2>4 DEF MtxTypeOK
<1>4. ASSUME NEW c \in CPU, NEW m \in Mtx, mtx_enter(c, m) PROVE MtxTypeOK'
  <2> USE <1>0, <1>4, MutexAssumption DEF mtx_enter
  <2>1. ipl' \in [CPU -> Nat]
    BY DEF Raise
  <2>2. mtx_owner' \in [Mtx -> Words]
    BY CasType, WordType
  <2>3. /\ call' \in [CPU -> MtxCalls] /\ mpc' \in [CPU -> Pcs]
        /\ mtx_oldipl' \in [Mtx -> Nat] /\ held' \in [CPU -> Seq(Mtx)]
    <3>1. [mtx |-> m, owner |-> mtx_owner[m], spins |-> 0, s |-> ipl[c]] \in MtxCalls
      BY DEF MtxCalls
    <3>2. CASE mtx_owner[m] = Zero
      BY <3>2, LockedType
    <3>3. CASE mtx_owner[m] # Zero
      <4>1. /\ mpc' = [mpc EXCEPT ![c] = "spin"] /\ UNCHANGED <<mtx_oldipl, held>>
            /\ call' = [call EXCEPT ![c] =
                  [mtx |-> m, owner |-> mtx_owner[m], spins |-> 0, s |-> ipl[c]]]
        BY <3>3 DEF MtxGoto
      <4>2. call' \in [CPU -> MtxCalls]
        BY <3>1, <4>1
      <4>3. mpc' \in [CPU -> Pcs]
        BY <4>1 DEF Pcs
      <4>4. QED
        BY <4>1, <4>2, <4>3 DEF MtxTypeOK
    <3>4. QED
      BY <3>2, <3>3
  <2>4. QED
    BY <1>1, <2>1, <2>2, <2>3 DEF MtxTypeOK
<1>5. ASSUME NEW c \in CPU, NEW m \in Mtx, mtx_enter_try(c, m) PROVE MtxTypeOK'
  <2> USE <1>0, <1>5, MutexAssumption DEF mtx_enter_try
  <2>1. ipl' \in [CPU -> Nat]
    BY DEF Raise
  <2>2. mtx_owner' \in [Mtx -> Words]
    BY CasType, WordType
  <2>3. /\ call' \in [CPU -> MtxCalls] /\ mpc' \in [CPU -> Pcs]
        /\ mtx_oldipl' \in [Mtx -> Nat] /\ held' \in [CPU -> Seq(Mtx)]
    BY LockedType DEF MtxTypeOK
  <2>4. QED
    BY <1>1, <2>1, <2>2, <2>3 DEF MtxTypeOK
<1>6. CASE UNCHANGED mtxVars
  BY <1>0, <1>6 DEF mtxVars, MtxTypeOK
<1>7. ASSUME NEW c \in CPU, MtxStep(c) PROVE mpc[c] # "out"
  BY <1>7 DEF MtxStep, Spin, SpinCas, Publish, SetWait, SetParked, Unwait, Take,
              Unpublish, ClearOwner, WakeFirst, At
<1>8. QED
  BY <1>2, <1>3, <1>4, <1>5, <1>6, <1>7 DEF MtxNext

-----------------------------------------------------------------------------
(* Every step of a CPU keeps the invariant.                                *)
LEMMA MtxPreserved == MtxInv /\ [MtxNext]_mtxVars => MtxInv'
<1> SUFFICES ASSUME MtxInv, [MtxNext]_mtxVars PROVE MtxInv'
  OBVIOUS
<1>0. /\ MtxTypeOK /\ MtxTypeOK' /\ MtxExclusion /\ Ordered /\ SawOwner /\ MtxLevels
      /\ mtx_owner \in [Mtx -> Words] /\ call \in [CPU -> MtxCalls]
      /\ mpc \in [CPU -> Pcs]
  BY MtxTypes DEF MtxInv, MtxExclusion, MtxTypeOK, MtxCalls
<1>1. ASSUME NEW c \in CPU, MtxStep(c), mpc[c] # "out" PROVE MtxInv'
  <2> DEFINE m == MtxArg(c)
  <2>1. /\ m \in Mtx /\ call[c].s \in Nat
        /\ \A i \in DOMAIN held[c] : held[c][i] < m
        /\ Flat(c) => IF mtx_wantipl[m] = 0 THEN ipl[c] = 0 ELSE call[c].s = 0
    BY <1>0, <1>1 DEF Ordered, MtxLevels, MtxCalls
  <2>2. CASE Spin(c)
    <3>1. PICK l \in {"spin", "spin_cas"} :
             /\ MtxGoto(c, l)
             /\ l = "spin" => mtx_owner[m] # Zero
      BY <2>2 DEF Spin
    <3>2. /\ call'[c].owner = mtx_owner[m]
          /\ call'[c].mtx = call[c].mtx /\ call'[c].s = call[c].s
          /\ \A d \in CPU \ {c} : call'[d] = call[d]
      BY <1>0, <2>2 DEF Spin, MtxCalls
    <3>3. l \in Pcs /\ mpc[c] = "spin" /\ UNCHANGED <<held, mtx_oldipl, ipl, mtx_owner>>
      BY <2>2 DEF Spin, At, Pcs
    <3>4. QED
      BY <1>0, <3>1, <3>2, <3>3, Waits
  <2>3. CASE SpinCas(c)
    <3>1. CASE mtx_owner[m] = Zero
      <4>1. mtx_owner' = [mtx_owner EXCEPT ![m] = Word(c, FALSE)]
        BY <2>3, <3>1 DEF SpinCas, MtxCas
      <4>2. mtx_owner'[m].cpu = c /\ \A n \in Mtx \ {m} : mtx_owner'[n] = mtx_owner[n]
        BY <1>0, <2>1, <4>1 DEF Word
      <4>3. Locked(c, m, call[c].s) /\ UNCHANGED ipl
        BY <2>3, <3>1 DEF SpinCas
      <4>4. QED
        BY <1>0, <2>1, <3>1, <4>2, <4>3, Enters
    <3>2. CASE mtx_owner[m] # Zero
      BY <1>0, <2>1, <2>3, <3>2, Waits
         DEF SpinCas, At, MtxCas, MtxGoto, Pcs, Published, MtxCalls
    <3>3. QED
      BY <3>1, <3>2
  <2>4. CASE Publish(c)
    <3>1. /\ MtxGoto(c, "set_wait") /\ "set_wait" \in Pcs /\ mpc[c] = "spin"
          /\ UNCHANGED <<held, mtx_oldipl, ipl, mtx_owner, call>>
      BY <2>4 DEF Publish, At, Pcs, Published
    <3>2. QED
      BY <1>0, <3>1, Waits DEF SawOwner
  <2>5. CASE SetWait(c)
    <3>1. /\ MtxGoto(c, "set_parked") /\ "set_parked" \in Pcs /\ mpc[c] = "set_wait"
          /\ UNCHANGED <<held, mtx_oldipl, ipl, mtx_owner, call>>
      BY <2>5 DEF SetWait, At, Pcs, Published
    <3>2. QED
      BY <1>0, <3>1, Waits DEF SawOwner
  <2>6. CASE SetParked(c)
    <3>1. \A n \in Mtx : mtx_owner'[n].cpu = mtx_owner[n].cpu
      BY <1>0, <2>1, <2>6 DEF SetParked, MtxCas, Word
    <3>2. PICK l \in {"waiting", "take", "set_wait"} : MtxGoto(c, l)
      BY <2>6 DEF SetParked
    <3>3. call[c].owner # Zero
      BY <1>0, <2>6 DEF SetParked, At, SawOwner
    <3>4. QED
      BY <1>0, <2>1, <2>6, <3>1, <3>2, <3>3, Waits
         DEF SetParked, At, Pcs, Published, MtxCalls
  <2>7. CASE Unwait(c)
    <3>1. /\ MtxGoto(c, "take") /\ "take" \in Pcs /\ mpc[c] = "waiting"
          /\ UNCHANGED <<held, mtx_oldipl, ipl, mtx_owner, call>>
      BY <2>7 DEF Unwait, At, Pcs, Published
    <3>2. QED
      BY <1>0, <3>1, Waits
  <2>8. CASE Take(c)
    <3>1. CASE mtx_owner[m] = Zero
      <4>1. /\ mpc' = [mpc EXCEPT ![c] = "remove"] /\ mpc[c] = "take"
            /\ mtx_owner' = [mtx_owner EXCEPT ![m] = Word(c, TRUE)]
            /\ UNCHANGED <<call, held, mtx_oldipl, ipl>>
        BY <2>8, <3>1 DEF Take, At, MtxCas, MtxGoto
      <4>2. \A d \in CPU : MtxArg(d)' = MtxArg(d) /\ (Flat(d)' <=> Flat(d))
        BY <4>1 DEF MtxArg, Flat
      <4>3. mtx_owner'[m].cpu = c /\ \A n \in Mtx \ {m} : mtx_owner'[n] = mtx_owner[n]
        BY <1>0, <2>1, <4>1 DEF Word
      <4>4. \A n \in Mtx, d \in CPU : Has(d, n)' <=> Has(d, n) \/ (d = c /\ n = m)
        BY <1>0, <4>1, <4>2 DEF Has
      <4>5. \A d \in CPU : ~Has(d, m)
        <5>1. mtx_owner[m].cpu = NIL
          BY <3>1 DEF Zero, Word
        <5>2. QED
          BY <1>0, <2>1, <5>1, MutexAssumption DEF MtxExclusion
      <4>6. MtxExclusion'
        BY <1>0, <4>3, <4>4, <4>5 DEF MtxExclusion
      <4>7. Ordered' /\ SawOwner' /\ MtxLevels'
        BY <1>0, <4>1, <4>2 DEF Ordered, SawOwner, MtxLevels
      <4>8. QED
        BY <4>6, <4>7 DEF MtxInv
    <3>2. CASE mtx_owner[m] # Zero
      BY <1>0, <2>1, <2>8, <3>2, Waits
         DEF Take, At, MtxCas, MtxGoto, Pcs, Published, MtxCalls
    <3>3. QED
      BY <3>1, <3>2
  <2>9. CASE Unpublish(c)
    <3>1. Has(c, m)
      BY <2>9 DEF Unpublish, At, Has
    <3>2. mtx_owner'[m].cpu = c /\ \A n \in Mtx \ {m} : mtx_owner'[n] = mtx_owner[n]
      BY <1>0, <2>1, <2>9, <3>1 DEF Unpublish, MtxExclusion
    <3>3. QED
      BY <1>0, <2>1, <2>9, <3>1, <3>2, Enters DEF Unpublish
  <2>10. CASE ClearOwner(c)
    <3>1. /\ mpc' = [mpc EXCEPT ![c] = "wake"] /\ mpc[c] = "unpark"
          /\ mtx_owner' = [mtx_owner EXCEPT ![m] = Zero]
          /\ UNCHANGED <<call, held, mtx_oldipl, ipl>>
      BY <2>10 DEF ClearOwner, At, MtxGoto
    <3>2. \A d \in CPU : MtxArg(d)' = MtxArg(d) /\ (Flat(d)' <=> Flat(d))
      BY <3>1 DEF MtxArg, Flat
    <3>3. Has(c, m) /\ \A d \in CPU \ {c} : ~Has(d, m)
      BY <1>0, <2>1, <3>1 DEF Has, MtxExclusion
    <3>4. mtx_owner'[m].cpu = NIL /\ \A n \in Mtx \ {m} : mtx_owner'[n] = mtx_owner[n]
      BY <1>0, <2>1, <3>1 DEF Zero, Word
    <3>5. \A i \in DOMAIN held[c] : held[c][i] # m
      <4>1. \A x \in Mtx : ~(x < x)
        BY MutexAssumption
      <4>2. QED
        BY <2>1, <4>1
    <3>6. \A n \in Mtx, d \in CPU : Has(d, n)' <=> Has(d, n) /\ ~(d = c /\ n = m)
      BY <1>0, <3>1, <3>2, <3>5 DEF Has
    <3>7. MtxExclusion'
      BY <1>0, <3>3, <3>4, <3>6, MutexAssumption DEF MtxExclusion
    <3>8. Ordered' /\ SawOwner' /\ MtxLevels'
      BY <1>0, <3>1, <3>2 DEF Ordered, SawOwner, MtxLevels
    <3>9. QED
      BY <3>7, <3>8 DEF MtxInv
  <2>11. CASE WakeFirst(c)
    <3>1. /\ mpc' = [mpc EXCEPT ![c] = "out"] /\ mpc[c] = "wake"
          /\ call' = [call EXCEPT ![c] = Idle]
          /\ ipl' = IF mtx_wantipl[m] = 0 THEN ipl ELSE [ipl EXCEPT ![c] = call[c].s]
          /\ UNCHANGED <<mtx_owner, held, mtx_oldipl>>
      BY <2>11 DEF WakeFirst, At, MtxGoto, Splx
    <3>2. \A d \in CPU : Flat(d)' <=> Flat(d)
      BY <3>1 DEF Flat
    <3>3. \A d \in CPU \ {c} :
             MtxArg(d)' = MtxArg(d) /\ call'[d] = call[d] /\ mpc'[d] = mpc[d]
                /\ ipl'[d] = ipl[d]
      BY <1>0, <3>1 DEF MtxArg, MtxTypeOK
    <3>4. mpc'[c] = "out"
      BY <1>0, <3>1
    <3>5. MtxExclusion'
      <4>1. \A n \in Mtx, d \in CPU : Has(d, n)' <=> Has(d, n)
        BY <3>1, <3>3, <3>4 DEF Has
      <4>2. QED
        BY <1>0, <3>1, <4>1 DEF MtxExclusion
    <3>6. Ordered' /\ SawOwner'
      BY <1>0, <3>1, <3>3, <3>4 DEF Ordered, SawOwner
    <3>7. Flat(c)' => ipl'[c] = 0
      BY <1>0, <2>1, <3>1, <3>2 DEF MtxTypeOK
    <3>8. MtxLevels'
      BY <1>0, <3>1, <3>2, <3>3, <3>4, <3>7 DEF MtxLevels
    <3>9. QED
      BY <3>5, <3>6, <3>8 DEF MtxInv
  <2>12. QED
    BY <1>1, <2>2, <2>3, <2>4, <2>5, <2>6, <2>7, <2>8, <2>9, <2>10, <2>11 DEF MtxStep
<1>2. ASSUME NEW c \in CPU, mtx_leave(c) PROVE MtxInv'
  <2>0. PICK m \in Mtx : m = Last(held[c])
    BY <1>0, <1>2, FrontHeld DEF mtx_leave, MtxTypeOK
  <2>1. /\ mpc[c] = "out" /\ held[c] \in Seq(Mtx) /\ held[c] # <<>>
        /\ held'[c] = Front(held[c]) /\ \A d \in CPU \ {c} : held'[d] = held[d]
        /\ UNCHANGED mtx_oldipl
    BY <1>0, <1>2 DEF mtx_leave, At, MtxTypeOK
  <2>2. /\ DOMAIN held[c] = 1 .. Len(held[c]) /\ Len(held[c]) \in Nat \ {0}
        /\ DOMAIN held'[c] = 1 .. Len(held[c]) - 1
        /\ \A i \in DOMAIN held'[c] : held'[c][i] = held[c][i]
        /\ m = held[c][Len(held[c])]
    BY <2>0, <2>1, FrontHeld
  <2>3. \A i \in DOMAIN held'[c] : held'[c][i] < m
    BY <1>0, <2>2 DEF Ordered
  <2>4. m \in Int /\ ~(m < m)
    BY <2>2, MutexAssumption
  <2>5. Has(c, m) /\ mtx_owner[m].cpu = c
    BY <1>0, <2>2 DEF Has, MtxExclusion
  <2>6. \A d \in CPU \ {c} : Flat(d)' <=> Flat(d)
    BY <2>1 DEF Flat
  <2>7. Flat(c)' => IF mtx_wantipl[m] = 0 THEN ipl[c] = 0 ELSE mtx_oldipl[m] = 0
    <3> SUFFICES ASSUME Flat(c)'
                 PROVE  IF mtx_wantipl[m] = 0 THEN ipl[c] = 0 ELSE mtx_oldipl[m] = 0
      OBVIOUS
    <3>1. \A i \in DOMAIN held[c] : i < Len(held[c]) => mtx_wantipl[held[c][i]] = 0
      BY <2>2 DEF Flat
    <3>2. CASE mtx_wantipl[m] = 0
      <4>1. Flat(c)
        BY <2>2, <3>1, <3>2 DEF Flat
      <4>2. QED
        BY <1>0, <2>1, <3>2, <4>1 DEF MtxLevels
    <3>3. CASE mtx_wantipl[m] # 0
      BY <1>0, <2>2, <3>1, <3>3 DEF MtxLevels
    <3>4. QED
      BY <3>2, <3>3
  <2>8. ASSUME NEW d \in CPU, NEW i \in DOMAIN held'[d], mtx_wantipl[held'[d][i]] # 0,
               \A j \in DOMAIN held'[d] : j < i => mtx_wantipl[held'[d][j]] = 0
        PROVE  mtx_oldipl'[held'[d][i]] = 0
    <3>1. CASE d # c
      BY <1>0, <2>1, <2>8, <3>1 DEF MtxLevels
    <3>2. CASE d = c
      <4>1. i \in DOMAIN held[c] /\ held'[c][i] = held[c][i]
        BY <2>2, <2>8, <3>2
      <4>2. \A j \in DOMAIN held[c] : j < i => mtx_wantipl[held[c][j]] = 0
        BY <2>2, <2>8, <3>2
      <4>3. QED
        BY <1>0, <2>1, <2>8, <3>2, <4>1, <4>2 DEF MtxLevels
    <3>3. QED
      BY <3>1, <3>2
  <2>9. \A i, j \in DOMAIN held'[c] : i < j => held'[c][i] < held'[c][j]
    BY <1>0, <2>2 DEF Ordered
  <2>10. CASE mtx_owner[m] = Word(c, FALSE)
    <3>1. /\ mtx_owner' = [mtx_owner EXCEPT ![m] = Zero]
          /\ ipl' = IF mtx_wantipl[m] = 0 THEN ipl
                    ELSE [ipl EXCEPT ![c] = mtx_oldipl[m]]
          /\ UNCHANGED <<mpc, call>>
      BY <1>2, <2>0, <2>10 DEF mtx_leave, MtxCas, Splx
    <3>2. mtx_owner'[m].cpu = NIL /\ \A n \in Mtx \ {m} : mtx_owner'[n] = mtx_owner[n]
      BY <1>0, <2>2, <3>1 DEF Zero, Word
    <3>3. \A n \in Mtx \ {m} : Has(c, n)' <=> Has(c, n)
      BY <2>1, <2>2, <3>1 DEF Has, MtxArg
    <3>4. ~Has(c, m)'
      BY <2>1, <2>3, <2>4, <3>1 DEF Has
    <3>5. \A n \in Mtx, d \in CPU \ {c} : Has(d, n)' <=> Has(d, n)
      BY <2>1, <3>1 DEF Has, MtxArg
    <3>6. MtxExclusion'
      BY <1>0, <2>5, <3>2, <3>3, <3>4, <3>5, MutexAssumption DEF MtxExclusion
    <3>7. Ordered' /\ SawOwner'
      BY <1>0, <2>1, <2>9, <3>1 DEF Ordered, SawOwner, MtxArg
    <3>8. Flat(c)' => ipl'[c] = 0
      BY <1>0, <2>7, <3>1 DEF MtxTypeOK
    <3>9. \A d \in CPU \ {c} : ipl'[d] = ipl[d]
      BY <1>0, <3>1 DEF MtxTypeOK
    <3>10. MtxLevels'
      BY <1>0, <2>1, <2>6, <2>8, <3>1, <3>8, <3>9 DEF MtxLevels, MtxArg
    <3>11. QED
      BY <3>6, <3>7, <3>10 DEF MtxInv
  <2>11. CASE mtx_owner[m] # Word(c, FALSE)
    <3>1. /\ call' = [call EXCEPT ![c] = [Idle EXCEPT !.mtx = m, !.s = mtx_oldipl[m]]]
          /\ mpc' = [mpc EXCEPT ![c] = "unpark"]
          /\ UNCHANGED ipl
      BY <1>2, <2>0, <2>11 DEF mtx_leave, MtxGoto
    <3>2. \A n \in Mtx : mtx_owner'[n] = mtx_owner[n]
      BY <1>0, <1>2, <2>0, <2>11 DEF mtx_leave, MtxCas
    <3>3. /\ call'[c].mtx = m /\ call'[c].s = mtx_oldipl[m] /\ mpc'[c] = "unpark"
          /\ \A d \in CPU \ {c} : call'[d] = call[d] /\ mpc'[d] = mpc[d]
      BY <1>0, <3>1 DEF Idle
    <3>4. \A n \in Mtx : Has(c, n)' <=> Has(c, n)
      BY <2>1, <2>2, <2>5, <3>3 DEF Has, MtxArg
    <3>5. \A n \in Mtx, d \in CPU \ {c} : Has(d, n)' <=> Has(d, n)
      BY <2>1, <3>3 DEF Has, MtxArg
    <3>6. MtxExclusion'
      BY <1>0, <3>2, <3>4, <3>5 DEF MtxExclusion
    <3>7. Ordered' /\ SawOwner'
      BY <1>0, <2>1, <2>2, <2>3, <2>9, <3>3 DEF Ordered, SawOwner, MtxArg
    <3>8. MtxLevels'
      BY <1>0, <2>1, <2>6, <2>7, <2>8, <3>1, <3>3 DEF MtxLevels, MtxArg
    <3>9. QED
      BY <3>6, <3>7, <3>8 DEF MtxInv
  <2>12. QED
    BY <2>10, <2>11
<1>3. ASSUME NEW c \in CPU, NEW m \in Mtx, Enterable(c, m), mtx_owner[m] = Zero,
             MtxCas(m, Zero, Word(c, FALSE)), Locked(c, m, ipl[c]),
             ipl' = [ipl EXCEPT ![c] = Raise(m, @)]
      PROVE  MtxInv'
  <2>1. mtx_owner'[m].cpu = c /\ \A n \in Mtx \ {m} : mtx_owner'[n] = mtx_owner[n]
    BY <1>0, <1>3 DEF MtxCas, Word
  <2>2. ipl[c] \in Nat /\ mtx_wantipl[m] \in Nat /\ mpc[c] = "out"
    BY <1>0, <1>3, MutexAssumption DEF MtxTypeOK, Enterable, At
  <2>3. /\ \A d \in CPU \ {c} : ipl'[d] = ipl[d]
        /\ Flat(c) => IF mtx_wantipl[m] = 0 THEN ipl'[c] = 0 ELSE ipl[c] = 0
    BY <1>0, <1>3, <2>2 DEF MtxTypeOK, MtxLevels, Raise
  <2>4. QED
    BY <1>0, <1>3, <2>1, <2>2, <2>3, Enters DEF Enterable
<1>4. ASSUME NEW c \in CPU, NEW m \in Mtx, mtx_enter(c, m), mtx_owner[m] # Zero
      PROVE  MtxInv'
  <2>1. /\ mpc[c] = "out" /\ mpc' = [mpc EXCEPT ![c] = "spin"]
        /\ call' = [call EXCEPT ![c] =
              [mtx |-> m, owner |-> mtx_owner[m], spins |-> 0, s |-> ipl[c]]]
        /\ ipl' = [ipl EXCEPT ![c] = Raise(m, @)]
        /\ \A i \in DOMAIN held[c] : held[c][i] < m
        /\ UNCHANGED <<mtx_oldipl, held>>
    BY <1>4 DEF mtx_enter, Enterable, At, MtxGoto
  <2>2. \A n \in Mtx : mtx_owner'[n] = mtx_owner[n]
    BY <1>0, <1>4 DEF mtx_enter, MtxCas
  <2>3. /\ call'[c].mtx = m /\ call'[c].s = ipl[c] /\ call'[c].owner # Zero
        /\ mpc'[c] = "spin"
        /\ \A d \in CPU \ {c} :
              call'[d] = call[d] /\ mpc'[d] = mpc[d] /\ ipl'[d] = ipl[d]
    BY <1>0, <1>4, <2>1 DEF MtxTypeOK
  <2>4. MtxExclusion'
    <3>1. \A n \in Mtx, d \in CPU : Has(d, n)' <=> Has(d, n)
      BY <2>1, <2>3 DEF Has, MtxArg
    <3>2. QED
      BY <1>0, <2>2, <3>1 DEF MtxExclusion
  <2>5. Ordered' /\ SawOwner'
    BY <1>0, <2>1, <2>3 DEF Ordered, SawOwner, MtxArg
  <2>6. MtxLevels'
    <3>1. \A d \in CPU : Flat(d)' <=> Flat(d)
      BY <2>1 DEF Flat
    <3>2. ipl[c] \in Nat /\ mtx_wantipl[m] \in Nat
      BY <1>0, MutexAssumption DEF MtxTypeOK
    <3>3. Flat(c) => IF mtx_wantipl[m] = 0 THEN ipl'[c] = 0 ELSE call'[c].s = 0
      BY <1>0, <2>1, <2>3, <3>2 DEF MtxTypeOK, MtxLevels, Raise
    <3>4. QED
      BY <1>0, <2>1, <2>3, <3>1, <3>3 DEF MtxLevels, MtxArg
  <2>7. QED
    BY <2>4, <2>5, <2>6 DEF MtxInv
<1>5. ASSUME NEW c \in CPU, NEW m \in Mtx, mtx_enter_try(c, m), mtx_owner[m] # Zero
       PROVE  MtxInv'
  <2>1. UNCHANGED <<mtx_oldipl, ipl, held, mpc, call>>
    BY <1>5 DEF mtx_enter_try
  <2>2. \A n \in Mtx : mtx_owner'[n] = mtx_owner[n]
    BY <1>0, <1>5 DEF mtx_enter_try, MtxCas
  <2>3. /\ \A d \in CPU : MtxArg(d)' = MtxArg(d) /\ (Flat(d)' <=> Flat(d))
        /\ \A d \in CPU, n \in Mtx : Has(d, n)' <=> Has(d, n)
    BY <2>1 DEF MtxArg, Flat, Has
  <2>4. QED
    BY <1>0, <2>1, <2>2, <2>3 DEF MtxInv, MtxExclusion, Ordered, SawOwner, MtxLevels
<1>6. CASE UNCHANGED mtxVars
  <2>1. /\ \A c \in CPU : MtxArg(c)' = MtxArg(c) /\ (Flat(c)' <=> Flat(c))
        /\ \A c \in CPU, n \in Mtx : Has(c, n)' <=> Has(c, n)
    BY <1>6 DEF mtxVars, MtxArg, Flat, Has
  <2>2. QED
    BY <1>0, <1>6, <2>1 DEF mtxVars, MtxInv, MtxExclusion, Ordered, SawOwner, MtxLevels
<1>7. ASSUME NEW c \in CPU, MtxStep(c) PROVE mpc[c] # "out"
  BY <1>7 DEF MtxStep, Spin, SpinCas, Publish, SetWait, SetParked, Unwait, Take,
              Unpublish, ClearOwner, WakeFirst, At
<1>8. QED
  BY <1>1, <1>2, <1>3, <1>4, <1>6, <1>7, <1>5 DEF MtxNext, mtx_enter, mtx_enter_try

-----------------------------------------------------------------------------
(* The inductive invariant holds in every state the mutexes can reach.     *)
LEMMA MtxInvariant == MtxSpec => []MtxInv
  BY MtxInitial, MtxPreserved, PTL DEF MtxSpec

(* Any number of CPUs in mtx_enter, mtx_enter_try and mtx_leave, parked or *)
(* not: no two are inside a mutex, and the word names the one that is.     *)
THEOREM MtxExcludes == MtxSpec => []MtxExclusion
<1>1. MtxInv => MtxExclusion
  BY DEF MtxInv
<1>2. QED
  BY <1>1, MtxInvariant, PTL

(* However mutexes of different levels are nested, a CPU that has left all *)
(* of them is back at the level it came with.                              *)
THEOREM LevelRestored == MtxSpec => []IplRestored
<1>1. MtxInv => IplRestored
  <2> SUFFICES ASSUME MtxInv, NEW c \in CPU, At(c, "out"), held[c] = <<>>
               PROVE  ipl[c] = 0
    BY DEF IplRestored
  <2>1. Flat(c)
    BY DEF Flat
  <2>2. QED
    BY <2>1 DEF MtxInv, MtxLevels, At
<1>2. QED
  BY <1>1, MtxInvariant, PTL


-----------------------------------------------------------------------------
(* The kernel lock *)

(* How far behind the ticket s the ticket t is, and how many tickets there *)
(* are from s to u.                                                        *)
Dist(s, t) == (t - s) % Tickets
Line(s, u) == (u - s + 1) % Tickets

InLine == {c \in Processor : mplc_depth[c] > 0}

(* A CPU has one level of the lock for each of its calls, and a CPU that   *)
(* is behind a call of __mp_lock() is served.                              *)
Levels ==
    \A c \in Processor :
        /\ mplc_depth[c] = Len(frames[c])
        /\ mplc_depth[c] + hold_count[c] <= MaxDepth
        /\ \A i \in DOMAIN frames[c] : frames[c][i] = "in" => mp_lock_held(c)

(* Those in line have different tickets, as many as were given out and not *)
(* served yet, and none that was not given out.                            *)
Numbered ==
    /\ Cardinality(InLine) = Line(mpl_ticket, mpl_users)
    /\ \A c \in InLine : Dist(mpl_ticket, mplc_ticket[c]) < Line(mpl_ticket, mpl_users)
    /\ \A c, d \in InLine : mplc_ticket[c] = mplc_ticket[d] => c = d

MpInv == MpTypeOK /\ Levels /\ Numbered

(* The remainder of what is less than a lap away from a ticket.            *)
LEMMA Wraps ==
    ASSUME NEW x \in Int, -Tickets < x, x < 2 * Tickets
    PROVE  /\ x % Tickets \in Ticket
           /\ x % Tickets = IF x < 0 THEN x + Tickets
                            ELSE IF x < Tickets THEN x ELSE x - Tickets
<1>1. CASE x < 0
  BY <1>1, MpAssumption DEF Ticket
<1>2. CASE x >= 0 /\ x < Tickets
  BY <1>2, MpAssumption DEF Ticket
<1>3. CASE x >= Tickets
  BY <1>3, MpAssumption DEF Ticket
<1>4. QED
  BY <1>1, <1>2, <1>3, MpAssumption

(* The distances, without remainders.                                      *)
LEMMA Distance ==
    ASSUME NEW s \in Ticket, NEW t \in Ticket
    PROVE  /\ Dist(s, t) \in Ticket
           /\ Dist(s, t) = IF t < s THEN t - s + Tickets ELSE t - s
           /\ Line(s, t) \in Ticket
           /\ Line(s, t) = IF t + 1 < s THEN t + 1 - s + Tickets
                           ELSE IF t + 1 - s < Tickets THEN t + 1 - s ELSE 0
           /\ NextTicket(t) \in Ticket
           /\ NextTicket(t) = IF t + 1 < Tickets THEN t + 1 ELSE 0
<1>1. s \in Nat /\ t \in Nat /\ s < Tickets /\ t < Tickets /\ Tickets \in Nat
  BY MpAssumption DEF Ticket
<1>2. /\ Dist(s, t) \in Ticket
      /\ Dist(s, t) = IF t < s THEN t - s + Tickets ELSE t - s
  <2>1. PICK x \in Int : x = t - s
    BY <1>1
  <2>2. -Tickets < x /\ x < 2 * Tickets
    BY <1>1, <2>1
  <2>3. /\ x % Tickets \in Ticket
        /\ x % Tickets = IF x < 0 THEN x + Tickets
                         ELSE IF x < Tickets THEN x ELSE x - Tickets
    BY <2>2, Wraps
  <2>4. QED
    BY <1>1, <2>1, <2>3 DEF Dist
<1>3. /\ Line(s, t) \in Ticket
      /\ Line(s, t) = IF t + 1 < s THEN t + 1 - s + Tickets
                      ELSE IF t + 1 - s < Tickets THEN t + 1 - s ELSE 0
  <2>1. PICK x \in Int : x = t - s + 1
    BY <1>1
  <2>2. -Tickets < x /\ x < 2 * Tickets
    BY <1>1, <2>1
  <2>3. /\ x % Tickets \in Ticket
        /\ x % Tickets = IF x < 0 THEN x + Tickets
                         ELSE IF x < Tickets THEN x ELSE x - Tickets
    BY <2>2, Wraps
  <2>4. QED
    BY <1>1, <2>1, <2>3 DEF Line
<1>4. /\ NextTicket(t) \in Ticket
      /\ NextTicket(t) = IF t + 1 < Tickets THEN t + 1 ELSE 0
  <2>1. PICK x \in Int : x = t + 1
    BY <1>1
  <2>2. -Tickets < x /\ x < 2 * Tickets
    BY <1>1, <2>1
  <2>3. /\ x % Tickets \in Ticket
        /\ x % Tickets = IF x < 0 THEN x + Tickets
                         ELSE IF x < Tickets THEN x ELSE x - Tickets
    BY <2>2, Wraps
  <2>4. QED
    BY <1>1, <2>1, <2>3 DEF NextTicket
<1>5. QED
  BY <1>2, <1>3, <1>4

(* A ticket that is given out is the last of the line, which it makes      *)
(* longer by one.                                                          *)
LEMMA Draws ==
    ASSUME NEW s \in Ticket, NEW u \in Ticket, Line(s, u) + 1 < Tickets
    PROVE  /\ Line(s, NextTicket(u)) = Line(s, u) + 1
           /\ Dist(s, NextTicket(u)) = Line(s, u)
<1>1. NextTicket(u) \in Ticket /\ NextTicket(u) = IF u + 1 < Tickets THEN u + 1 ELSE 0
  BY Distance
<1>2. Line(s, u) = IF u + 1 < s THEN u + 1 - s + Tickets
                   ELSE IF u + 1 - s < Tickets THEN u + 1 - s ELSE 0
  BY Distance
<1>3. PICK v \in Ticket : v = NextTicket(u)
  BY <1>1
<1>4. /\ Dist(s, v) = IF v < s THEN v - s + Tickets ELSE v - s
      /\ Line(s, v) = IF v + 1 < s THEN v + 1 - s + Tickets
                      ELSE IF v + 1 - s < Tickets THEN v + 1 - s ELSE 0
  BY Distance
<1>5. QED
  BY <1>1, <1>2, <1>3, <1>4, MpAssumption DEF Ticket

(* Serving the next ticket makes the line shorter by one, at its head.     *)
LEMMA Serves ==
    ASSUME NEW s \in Ticket, NEW u \in Ticket, Line(s, u) # 0
    PROVE  /\ Line(NextTicket(s), u) = Line(s, u) - 1
           /\ \A t \in Ticket \ {s} : Dist(NextTicket(s), t) = Dist(s, t) - 1
<1>1. PICK v \in Ticket : v = NextTicket(s)
  BY Distance
<1>2. v = IF s + 1 < Tickets THEN s + 1 ELSE 0
  BY <1>1, Distance
<1>3. Line(v, u) = Line(s, u) - 1
  <2>1. /\ Line(s, u) = IF u + 1 < s THEN u + 1 - s + Tickets
                        ELSE IF u + 1 - s < Tickets THEN u + 1 - s ELSE 0
        /\ Line(v, u) = IF u + 1 < v THEN u + 1 - v + Tickets
                        ELSE IF u + 1 - v < Tickets THEN u + 1 - v ELSE 0
    BY Distance
  <2>2. QED
    BY <1>2, <2>1, MpAssumption DEF Ticket
<1>4. ASSUME NEW t \in Ticket \ {s} PROVE Dist(v, t) = Dist(s, t) - 1
  <2>1. /\ Dist(s, t) = IF t < s THEN t - s + Tickets ELSE t - s
        /\ Dist(v, t) = IF t < v THEN t - v + Tickets ELSE t - v
    BY Distance
  <2>2. QED
    BY <1>2, <2>1, MpAssumption DEF Ticket
<1>5. QED
  BY <1>1, <1>3, <1>4

-----------------------------------------------------------------------------
(* What the calls of a CPU look like after one of them is made or ends.    *)
Calls == Seq({"spin", "in"})

(* A call of the kernel lock begins.                                       *)
LEMMA Pushed ==
    ASSUME NEW s \in Calls, NEW x \in {"spin", "in"}
    PROVE  /\ Append(s, x) \in Calls
           /\ Len(s) \in Nat /\ Len(Append(s, x)) = Len(s) + 1
           /\ DOMAIN s = 1 .. Len(s) /\ DOMAIN Append(s, x) = 1 .. Len(s) + 1
           /\ \A i \in DOMAIN s : Append(s, x)[i] = s[i]
           /\ Append(s, x)[Len(s) + 1] = x
  BY AppendProperties DEF Calls

(* A call of the kernel lock ends.                                         *)
LEMMA Popped ==
    ASSUME NEW s \in Calls, s # <<>>
    PROVE  /\ Front(s) \in Calls
           /\ Len(s) \in Nat \ {0} /\ Len(Front(s)) = Len(s) - 1
           /\ DOMAIN s = 1 .. Len(s) /\ DOMAIN Front(s) = 1 .. Len(s) - 1
           /\ \A i \in DOMAIN Front(s) : Front(s)[i] = s[i]
           /\ Last(s) = s[Len(s)] /\ Last(s) \in {"spin", "in"}
<1>1. Len(s) \in Nat \ {0} /\ DOMAIN s = 1 .. Len(s)
  BY EmptySeq, LenProperties DEF Calls
<1>2. QED
  BY <1>1, SubSeqProperties DEF Front, Last, Calls

(* At the start nobody is in line.                                         *)
LEMMA MpInitial == MpInit => MpInv
<1> SUFFICES ASSUME MpInit PROVE MpInv
  OBVIOUS
<1>1. 0 \in Ticket /\ 1 \in Ticket
  BY MpAssumption DEF Ticket
<1>2. MpTypeOK
  BY <1>1, MpAssumption DEF MpInit, MpTypeOK
<1>3. Levels
  BY MpAssumption DEF MpInit, Levels
<1>4. Numbered
  <2>1. InLine = {}
    BY DEF InLine, MpInit
  <2>2. Line(mpl_ticket, mpl_users) = 0
    BY <1>1, Distance DEF MpInit
  <2>3. QED
    BY <2>1, <2>2, FS_EmptySet DEF Numbered
<1>5. QED
  BY <1>2, <1>3, <1>4 DEF MpInv

(* The line is shorter than the CPUs are many.                             *)
LEMMA LineBound ==
    ASSUME MpInv
    PROVE  /\ IsFiniteSet(InLine)
           /\ Line(mpl_ticket, mpl_users) \in Nat
           /\ \A c \in Processor \ InLine : Line(mpl_ticket, mpl_users) + 1 < Tickets
<1>1. IsFiniteSet(InLine) /\ InLine \in SUBSET Processor
  BY MpAssumption, FS_Subset DEF InLine
<1>2. Cardinality(InLine) \in Nat
  BY <1>1, FS_CardinalityType
<1>3. ASSUME NEW c \in Processor \ InLine PROVE Cardinality(InLine) + 1 < Tickets
  <2>1. Cardinality(InLine \cup {c}) = Cardinality(InLine) + 1
    BY <1>1, FS_AddElement
  <2>2. InLine \cup {c} \in SUBSET Processor
    BY <1>1
  <2>3. Cardinality(InLine \cup {c}) <= Cardinality(Processor)
    BY <2>2, MpAssumption, FS_Subset
  <2>4. Cardinality(Processor) \in Nat
    BY MpAssumption, FS_CardinalityType
  <2>5. QED
    BY <1>2, <2>1, <2>3, <2>4, MpAssumption
<1>4. QED
  BY <1>1, <1>2, <1>3 DEF MpInv, Numbered

(* A call of __mp_lock(), from outside or from __mp_acquire_count().       *)
LEMMA EnterPreserves ==
    ASSUME MpInv, NEW c \in Processor, EnterMp(c), UNCHANGED mpl_ticket,
           hold_count' \in [Processor -> 0 .. MaxDepth],
           \A d \in Processor \ {c} : hold_count'[d] = hold_count[d],
           mplc_depth[c] + 1 + hold_count'[c] <= MaxDepth
    PROVE  MpInv'
<1> USE MpAssumption
<1>1. /\ frames[c] \in Calls /\ mplc_depth[c] = Len(frames[c])
      /\ mplc_depth[c] \in Nat /\ mpl_users \in Ticket /\ mpl_ticket \in Ticket
  BY DEF MpInv, MpTypeOK, Levels, Calls
<1>2. /\ mplc_depth' = [mplc_depth EXCEPT ![c] = mplc_depth[c] + 1]
      /\ frames' = [frames EXCEPT ![c] = Append(frames[c], "spin")]
      /\ Append(frames[c], "spin") \in Calls
  BY <1>1, Pushed DEF EnterMp
<1>3. mpl_users' \in Ticket /\ mplc_ticket' \in [Processor -> Ticket]
  BY <1>1, Distance DEF EnterMp, MpInv, MpTypeOK
<1>4. MpTypeOK'
  <2>1. mplc_depth' \in [Processor -> 0 .. MaxDepth]
    <3>1. hold_count'[c] \in Nat /\ mplc_depth[c] + 1 \in 0 .. MaxDepth
      BY <1>1
    <3>2. QED
      BY <1>2, <3>1 DEF MpInv, MpTypeOK
  <2>2. frames' \in [Processor -> Calls]
    BY <1>2 DEF MpInv, MpTypeOK, Calls
  <2>3. QED
    BY <1>1, <1>3, <2>1, <2>2 DEF MpTypeOK, Calls
<1>5. \A d \in Processor \ {c} : /\ mplc_depth'[d] = mplc_depth[d]
                                 /\ mplc_ticket'[d] = mplc_ticket[d]
                                 /\ frames'[d] = frames[d]
  BY <1>2 DEF EnterMp, MpInv, MpTypeOK
<1>6. /\ mplc_depth'[c] = mplc_depth[c] + 1
      /\ frames'[c] = Append(frames[c], "spin")
  BY <1>2 DEF MpInv, MpTypeOK
<1>7. Levels'
  <2>1. /\ mplc_depth'[c] = Len(frames'[c])
        /\ mplc_depth'[c] + hold_count'[c] <= MaxDepth
    BY <1>1, <1>6, Pushed
  <2>2. ASSUME NEW i \in DOMAIN frames'[c], frames'[c][i] = "in"
        PROVE  mp_lock_held(c)'
    <3>1. i \in DOMAIN frames[c] /\ frames[c][i] = "in"
      <4>1. /\ DOMAIN frames[c] = 1 .. Len(frames[c])
            /\ DOMAIN frames'[c] = 1 .. Len(frames[c]) + 1
            /\ \A k \in DOMAIN frames[c] : frames'[c][k] = frames[c][k]
            /\ frames'[c][Len(frames[c]) + 1] = "spin" /\ Len(frames[c]) \in Nat
        BY <1>1, <1>6, Pushed
      <4>2. QED
        BY <2>2, <4>1
    <3>2. mp_lock_held(c)
      BY <3>1 DEF MpInv, Levels
    <3>3. QED
      BY <1>1, <1>6, <3>2 DEF mp_lock_held, EnterMp
  <2>3. ASSUME NEW d \in Processor \ {c}
        PROVE  /\ mplc_depth'[d] = Len(frames'[d])
               /\ mplc_depth'[d] + hold_count'[d] <= MaxDepth
               /\ \A i \in DOMAIN frames'[d] : frames'[d][i] = "in" => mp_lock_held(d)'
    BY <1>5 DEF MpInv, Levels, mp_lock_held
  <2>4. QED
    BY <2>1, <2>2, <2>3 DEF Levels
<1>8. CASE mplc_depth[c] # 0
  <2>1. InLine' = InLine
    BY <1>1, <1>5, <1>6, <1>8 DEF InLine
  <2>2. UNCHANGED <<mpl_users, mplc_ticket>>
    BY <1>8 DEF EnterMp
  <2>3. QED
    BY <1>4, <1>7, <2>1, <2>2 DEF MpInv, Numbered
<1>9. CASE mplc_depth[c] = 0
  <2>1. /\ InLine' = InLine \cup {c} /\ c \notin InLine
    BY <1>1, <1>5, <1>6, <1>9 DEF InLine
  <2>2. /\ mpl_users' = NextTicket(mpl_users)
        /\ mplc_ticket'[c] = NextTicket(mpl_users)
    BY <1>9 DEF EnterMp, MpInv, MpTypeOK
  <2>3. /\ Line(mpl_ticket, NextTicket(mpl_users)) = Line(mpl_ticket, mpl_users) + 1
        /\ Dist(mpl_ticket, NextTicket(mpl_users)) = Line(mpl_ticket, mpl_users)
        /\ Line(mpl_ticket, mpl_users) \in Nat
    BY <1>1, <2>1, LineBound, Draws
  <2>4. Cardinality(InLine') = Line(mpl_ticket, mpl_users)'
    <3>1. Cardinality(InLine \cup {c}) = Cardinality(InLine) + 1
      BY <2>1, LineBound, FS_AddElement
    <3>2. QED
      BY <2>1, <2>2, <2>3, <3>1 DEF MpInv, Numbered
  <2>5. ASSUME NEW d \in InLine
        PROVE  /\ Dist(mpl_ticket, mplc_ticket'[d]) < Line(mpl_ticket, mpl_users)
               /\ Dist(mpl_ticket, mplc_ticket'[d]) \in Nat
               /\ mplc_ticket'[d] # mplc_ticket'[c]
    <3>1. d \in Processor \ {c} /\ mplc_ticket[d] \in Ticket
      BY <2>1 DEF InLine, MpInv, MpTypeOK
    <3>2. Dist(mpl_ticket, mplc_ticket'[d]) \in Nat
      <4>1. Dist(mpl_ticket, mplc_ticket'[d]) \in Ticket
        BY <1>1, <1>5, <3>1, Distance
      <4>2. QED
        BY <4>1 DEF Ticket
    <3>3. QED
      BY <1>5, <2>2, <2>3, <3>1, <3>2 DEF MpInv, Numbered
  <2>6. ASSUME NEW d \in InLine, NEW e \in InLine, mplc_ticket'[d] = mplc_ticket'[e]
        PROVE  d = e
    BY <1>5, <2>1, <2>6 DEF InLine, MpInv, Numbered
  <2>7. Numbered'
    <3>1. \A d \in InLine' : Dist(mpl_ticket, mplc_ticket[d])' < Line(mpl_ticket, mpl_users)'
      BY <2>1, <2>2, <2>3, <2>5
    <3>2. \A d, e \in InLine' : mplc_ticket'[d] = mplc_ticket'[e] => d = e
      BY <2>1, <2>5, <2>6
    <3>3. QED
      BY <2>4, <3>1, <3>2 DEF Numbered
  <2>8. QED
    BY <1>4, <1>7, <2>7 DEF MpInv
<1>10. QED
  BY <1>8, <1>9

(* The CPU that is served gives the lock up: the last __mp_unlock() or     *)
(* __mp_release_all().                                                     *)
LEMMA ReleasePreserves ==
    ASSUME MpInv, NEW c \in Processor, mp_lock_held(c),
           mplc_depth' = [mplc_depth EXCEPT ![c] = 0],
           mpl_ticket' = NextTicket(mpl_ticket),
           frames' = [frames EXCEPT ![c] = <<>>],
           UNCHANGED <<mpl_users, mplc_ticket>>,
           hold_count' \in [Processor -> 0 .. MaxDepth],
           \A d \in Processor \ {c} : hold_count'[d] = hold_count[d]
    PROVE  MpInv'
<1> USE MpAssumption
<1>1. /\ mpl_users \in Ticket /\ mpl_ticket \in Ticket
      /\ \A d \in Processor : mplc_ticket[d] \in Ticket /\ mplc_depth[d] \in Nat
  BY DEF MpInv, MpTypeOK
<1>2. \A d \in Processor \ {c} : mplc_depth'[d] = mplc_depth[d] /\ frames'[d] = frames[d]
  BY DEF MpInv, MpTypeOK
<1>3. mplc_depth'[c] = 0 /\ frames'[c] = <<>>
  BY DEF MpInv, MpTypeOK
<1>4. InLine' = InLine \ {c} /\ c \in InLine
  BY <1>1, <1>2, <1>3 DEF InLine, mp_lock_held
<1>5. /\ Line(mpl_ticket, mpl_users) # 0 /\ Line(mpl_ticket, mpl_users) \in Nat
      /\ Dist(mpl_ticket, mplc_ticket[c]) = 0
  <2>1. Dist(mpl_ticket, mplc_ticket[c]) = 0
    <3>1. mplc_ticket[c] = mpl_ticket
      BY DEF mp_lock_held
    <3>2. Dist(mpl_ticket, mpl_ticket) = IF mpl_ticket < mpl_ticket
              THEN mpl_ticket - mpl_ticket + Tickets ELSE mpl_ticket - mpl_ticket
      BY <1>1, Distance
    <3>3. QED
      BY <1>1, <3>1, <3>2 DEF Ticket
  <2>2. QED
    BY <1>4, <2>1, LineBound DEF MpInv, Numbered
<1>6. ASSUME NEW d \in InLine \ {c} PROVE mplc_ticket[d] \in Ticket \ {mpl_ticket}
  BY <1>1, <1>4, <1>6 DEF InLine, MpInv, Numbered, mp_lock_held
<1>7. /\ Line(mpl_ticket', mpl_users) = Line(mpl_ticket, mpl_users) - 1
      /\ \A t \in Ticket \ {mpl_ticket} : Dist(mpl_ticket', t) = Dist(mpl_ticket, t) - 1
  BY <1>1, <1>5, Serves
<1>8. MpTypeOK'
  <2>1. mpl_ticket' \in Ticket
    BY <1>1, Distance
  <2>2. frames' \in [Processor -> Seq({"spin", "in"})]
    BY DEF MpInv, MpTypeOK
  <2>3. QED
    BY <2>1, <2>2 DEF MpInv, MpTypeOK
<1>9. Levels'
  <2>1. /\ mplc_depth'[c] = Len(frames'[c])
        /\ mplc_depth'[c] + hold_count'[c] <= MaxDepth
        /\ DOMAIN frames'[c] = {}
    BY <1>3
  <2>2. ASSUME NEW d \in Processor \ {c}
        PROVE  /\ mplc_depth'[d] = Len(frames'[d])
               /\ mplc_depth'[d] + hold_count'[d] <= MaxDepth
               /\ \A i \in DOMAIN frames'[d] : frames'[d][i] # "in"
    <3>1. ASSUME mp_lock_held(d) PROVE FALSE
      BY <1>4, <1>6, <3>1 DEF mp_lock_held, InLine
    <3>2. QED
      BY <1>2, <3>1 DEF MpInv, Levels
  <2>3. QED
    BY <2>1, <2>2 DEF Levels
<1>10. Numbered'
  <2>1. Cardinality(InLine') = Line(mpl_ticket, mpl_users)'
    <3>1. Cardinality(InLine \ {c}) = Cardinality(InLine) - 1
      BY <1>4, LineBound, FS_RemoveElement
    <3>2. QED
      BY <1>4, <1>7, <3>1 DEF MpInv, Numbered
  <2>2. ASSUME NEW d \in InLine \ {c}
        PROVE  Dist(mpl_ticket', mplc_ticket[d]) < Line(mpl_ticket', mpl_users)
    <3>1. Dist(mpl_ticket, mplc_ticket[d]) < Line(mpl_ticket, mpl_users)
      BY DEF MpInv, Numbered
    <3>2. Dist(mpl_ticket, mplc_ticket[d]) \in Ticket
      BY <1>1, <1>6, Distance
    <3>3. QED
      BY <1>5, <1>6, <1>7, <3>1, <3>2 DEF Ticket
  <2>3. QED
    BY <1>4, <2>1, <2>2 DEF MpInv, Numbered
<1>11. QED
  BY <1>8, <1>9, <1>10 DEF MpInv

(* Every step keeps the invariant.                                         *)
LEMMA MpPreserved == MpInv /\ [MpNext]_mpVars => MpInv'
<1> SUFFICES ASSUME MpInv, [MpNext]_mpVars PROVE MpInv'
  OBVIOUS
<1> USE MpAssumption
<1>0. ASSUME NEW c \in Processor
      PROVE  /\ frames[c] \in Calls /\ Len(frames[c]) \in Nat
             /\ mplc_depth[c] = Len(frames[c])
             /\ hold_count[c] \in 0 .. MaxDepth
             /\ mplc_depth[c] + hold_count[c] <= MaxDepth
  BY DEF MpInv, MpTypeOK, Levels, Calls
<1>1. ASSUME NEW c \in Processor, mp_lock(c) PROVE MpInv'
  <2>1. hold_count' = hold_count /\ hold_count \in [Processor -> 0 .. MaxDepth]
    BY <1>1 DEF mp_lock, MpInv, MpTypeOK
  <2>2. mplc_depth[c] + 1 + hold_count'[c] <= MaxDepth
    BY <1>0, <1>1 DEF mp_lock
  <2>3. EnterMp(c) /\ UNCHANGED mpl_ticket
    BY <1>1 DEF mp_lock
  <2>4. QED
    BY <2>1, <2>2, <2>3, EnterPreserves
<1>2. ASSUME NEW c \in Processor, mp_acquire_count(c) PROVE MpInv'
  <2>1. /\ hold_count'[c] = hold_count[c] - 1 /\ hold_count[c] > 0
        /\ \A d \in Processor \ {c} : hold_count'[d] = hold_count[d]
        /\ hold_count' \in [Processor -> 0 .. MaxDepth]
    BY <1>2 DEF mp_acquire_count, MpInv, MpTypeOK
  <2>2. mplc_depth[c] + 1 + hold_count'[c] <= MaxDepth
    BY <1>0, <2>1
  <2>3. EnterMp(c) /\ UNCHANGED mpl_ticket
    BY <1>2 DEF mp_acquire_count
  <2>4. QED
    BY <2>1, <2>2, <2>3, EnterPreserves
<1>3. ASSUME NEW c \in Processor, mp_lock_spin(c) PROVE MpInv'
  <2>1. /\ UNCHANGED <<mpl_users, mpl_ticket, mplc_depth, mplc_ticket, hold_count>>
        /\ frames[c] # <<>> /\ mpl_ticket = mplc_ticket[c]
        /\ frames' = [frames EXCEPT ![c] = Append(Front(frames[c]), "in")]
    BY <1>3 DEF mp_lock_spin, Spinning
  <2>2. /\ Append(Front(frames[c]), "in") \in Calls
        /\ Len(Append(Front(frames[c]), "in")) = Len(frames[c])
        /\ Len(frames[c]) > 0
    <3>1. /\ Front(frames[c]) \in Calls /\ Len(Front(frames[c])) = Len(frames[c]) - 1
          /\ Len(frames[c]) \in Nat \ {0}
      BY <1>0, <2>1, Popped
    <3>2. /\ Append(Front(frames[c]), "in") \in Calls
          /\ Len(Append(Front(frames[c]), "in")) = Len(Front(frames[c])) + 1
      BY <3>1, Pushed
    <3>3. QED
      BY <3>1, <3>2
  <2>3. MpTypeOK'
    <3>1. frames' \in [Processor -> Calls]
      BY <2>1, <2>2 DEF MpInv, MpTypeOK, Calls
    <3>2. QED
      BY <2>1, <3>1 DEF MpInv, MpTypeOK, Calls
  <2>4. Levels'
    <3>1. Len(frames'[c]) = Len(frames[c])
      BY <2>1, <2>2 DEF MpInv, MpTypeOK
    <3>2. mp_lock_held(c)'
      BY <1>0, <2>1, <2>2 DEF mp_lock_held
    <3>3. \A d \in Processor \ {c} : frames'[d] = frames[d]
      BY <2>1 DEF MpInv, MpTypeOK
    <3>4. QED
      BY <2>1, <3>1, <3>2, <3>3 DEF MpInv, Levels, mp_lock_held
  <2>5. Numbered'
    BY <2>1 DEF MpInv, Numbered, InLine
  <2>6. QED
    BY <2>3, <2>4, <2>5 DEF MpInv
<1>4. ASSUME NEW c \in Processor, mp_unlock(c) PROVE MpInv'
  <2>1. /\ frames[c] # <<>> /\ Last(frames[c]) = "in"
        /\ UNCHANGED <<mpl_users, mplc_ticket, hold_count>>
        /\ mplc_depth' = [mplc_depth EXCEPT ![c] = mplc_depth[c] - 1]
        /\ frames' = [frames EXCEPT ![c] = Front(frames[c])]
    BY <1>4 DEF mp_unlock, Inside
  <2>2. /\ Front(frames[c]) \in Calls /\ Len(Front(frames[c])) = Len(frames[c]) - 1
        /\ DOMAIN frames[c] = 1 .. Len(frames[c]) /\ Len(frames[c]) \in Nat \ {0}
        /\ DOMAIN Front(frames[c]) = 1 .. Len(frames[c]) - 1
        /\ \A i \in DOMAIN Front(frames[c]) : Front(frames[c])[i] = frames[c][i]
        /\ frames[c][Len(frames[c])] = "in"
    BY <1>0, <2>1, Popped
  <2>3. mp_lock_held(c)
    BY <2>2 DEF MpInv, Levels
  <2>4. CASE mplc_depth[c] = 1
    <3>1. Front(frames[c]) = <<>>
      BY <1>0, <2>2, <2>4, EmptySeq DEF Calls
    <3>2. mpl_ticket' = NextTicket(mpl_ticket)
      BY <1>4, <2>4 DEF mp_unlock
    <3>3. /\ mplc_depth' = [mplc_depth EXCEPT ![c] = 0]
          /\ frames' = [frames EXCEPT ![c] = <<>>]
          /\ hold_count' \in [Processor -> 0 .. MaxDepth]
      BY <2>1, <2>4, <3>1 DEF MpInv, MpTypeOK
    <3>4. QED
      BY <2>1, <2>3, <3>2, <3>3, ReleasePreserves
  <2>5. CASE mplc_depth[c] # 1
    <3>1. UNCHANGED mpl_ticket
      BY <1>4, <2>5 DEF mp_unlock
    <3>2. /\ mplc_depth[c] - 1 \in 0 .. MaxDepth /\ mplc_depth[c] - 1 > 0
          /\ mplc_depth'[c] = mplc_depth[c] - 1 /\ frames'[c] = Front(frames[c])
      BY <1>0, <2>1, <2>2, <2>5 DEF MpInv, MpTypeOK
    <3>3. \A d \in Processor \ {c} : mplc_depth'[d] = mplc_depth[d] /\ frames'[d] = frames[d]
      BY <2>1 DEF MpInv, MpTypeOK
    <3>4. MpTypeOK'
      <4>1. frames' \in [Processor -> Calls]
        BY <2>1, <2>2 DEF MpInv, MpTypeOK, Calls
      <4>2. mplc_depth' \in [Processor -> 0 .. MaxDepth]
        BY <2>1, <3>2 DEF MpInv, MpTypeOK
      <4>3. QED
        BY <2>1, <3>1, <4>1, <4>2 DEF MpInv, MpTypeOK, Calls
    <3>5. Levels'
      <4>1. mp_lock_held(c)'
        BY <2>1, <2>3, <3>1, <3>2 DEF mp_lock_held
      <4>2. /\ mplc_depth'[c] = Len(frames'[c])
            /\ mplc_depth'[c] + hold_count'[c] <= MaxDepth
        BY <1>0, <2>1, <2>2, <3>2
      <4>3. QED
        BY <2>1, <3>1, <3>3, <4>1, <4>2 DEF MpInv, Levels, mp_lock_held
    <3>6. Numbered'
      <4>1. InLine' = InLine
        BY <1>0, <3>2, <3>3 DEF InLine
      <4>2. QED
        BY <2>1, <3>1, <4>1 DEF MpInv, Numbered
    <3>7. QED
      BY <3>4, <3>5, <3>6 DEF MpInv
  <2>6. QED
    BY <2>4, <2>5
<1>5. ASSUME NEW c \in Processor, mp_release_all(c) PROVE MpInv'
  <2>1. /\ mp_lock_held(c)
        /\ mplc_depth' = [mplc_depth EXCEPT ![c] = 0]
        /\ mpl_ticket' = NextTicket(mpl_ticket)
        /\ frames' = [frames EXCEPT ![c] = <<>>]
        /\ UNCHANGED <<mpl_users, mplc_ticket>>
    BY <1>5 DEF mp_release_all
  <2>2. /\ hold_count' \in [Processor -> 0 .. MaxDepth]
        /\ \A d \in Processor \ {c} : hold_count'[d] = hold_count[d]
    BY <1>5 DEF mp_release_all, MpInv, MpTypeOK
  <2>3. QED
    BY <2>1, <2>2, ReleasePreserves
<1>6. CASE UNCHANGED mpVars
  BY <1>6 DEF mpVars, MpInv, MpTypeOK, Levels, Numbered, InLine, mp_lock_held
<1>7. QED
  BY <1>1, <1>2, <1>3, <1>4, <1>5, <1>6 DEF MpNext

(* The inductive invariant holds in every state the lock can reach.        *)
LEMMA MpInvariant == MpSpec => []MpInv
  BY MpInitial, MpPreserved, PTL DEF MpSpec

(* Different tickets that are as many as the line is long, and within it,  *)
(* are all the tickets of the line.                                        *)
LEMMA LineFilled ==
    ASSUME MpInv
    PROVE  {mplc_ticket[c] : c \in InLine} =
               {(mpl_ticket + i) % Tickets : i \in 0 .. Line(mpl_ticket, mpl_users) - 1}
<1> DEFINE n == Line(mpl_ticket, mpl_users)
           place == [c \in InLine |-> Dist(mpl_ticket, mplc_ticket[c])]
<1> USE MpAssumption
<1>1. /\ n \in Ticket /\ mpl_ticket \in Ticket
      /\ \A c \in InLine : mplc_ticket[c] \in Ticket
  BY Distance DEF MpInv, MpTypeOK, InLine
<1>2. \A c \in InLine : Dist(mpl_ticket, mplc_ticket[c]) \in 0 .. n - 1
  <2>1. \A c \in InLine : Dist(mpl_ticket, mplc_ticket[c]) \in Ticket
    BY <1>1, Distance
  <2>2. QED
    BY <1>1, <2>1 DEF Ticket, MpInv, Numbered
<1>3. ASSUME NEW s \in Ticket, NEW t \in Ticket
      PROVE  (s + Dist(s, t)) % Tickets = t
  <2>0. Dist(s, t) = IF t < s THEN t - s + Tickets ELSE t - s
    BY Distance
  <2>1. PICK x \in Int : x = s + Dist(s, t)
    BY <2>0 DEF Ticket
  <2>2. x = t \/ x = t + Tickets
    BY <2>0, <2>1 DEF Ticket
  <2>3. t \in Nat /\ t < Tickets
    BY DEF Ticket
  <2>4. x % Tickets = t
    BY <2>2, <2>3, Wraps
  <2>5. QED
    BY <2>1, <2>4
<1>4. place \in Injection(InLine, 0 .. n - 1)
  <2>1. place \in [InLine -> 0 .. n - 1]
    BY <1>2
  <2>2. ASSUME NEW c \in InLine, NEW d \in InLine, place[c] = place[d] PROVE c = d
    <3>1. Dist(mpl_ticket, mplc_ticket[c]) = Dist(mpl_ticket, mplc_ticket[d])
      BY <2>2
    <3>2. mplc_ticket[c] = mplc_ticket[d]
      BY <1>1, <1>3, <3>1
    <3>3. QED
      BY <3>2 DEF MpInv, Numbered
  <2>3. QED
    BY <2>1, <2>2 DEF Injection, IsInjective
<1>5. IsFiniteSet(0 .. n - 1) /\ Cardinality(0 .. n - 1) = n
  <2>1. PICK m \in Int : m = n - 1 /\ m >= -1
    BY <1>1 DEF Ticket
  <2>2. IsFiniteSet(0 .. m) /\ Cardinality(0 .. m) = IF 0 > m THEN 0 ELSE m - 0 + 1
    BY FS_Interval
  <2>3. QED
    BY <1>1, <2>1, <2>2 DEF Ticket
<1>6. place \in Surjection(InLine, 0 .. n - 1)
  BY <1>4, <1>5, FS_Injection DEF MpInv, Numbered
<1>7. ASSUME NEW i \in 0 .. n - 1
      PROVE  \E c \in InLine : mplc_ticket[c] = (mpl_ticket + i) % Tickets
  <2>1. PICK c \in InLine : place[c] = i
    BY <1>6 DEF Surjection
  <2>2. (mpl_ticket + Dist(mpl_ticket, mplc_ticket[c])) % Tickets = mplc_ticket[c]
    BY <1>1, <1>3
  <2>3. QED
    BY <2>1, <2>2
<1>8. ASSUME NEW c \in InLine
      PROVE  \E i \in 0 .. n - 1 : mplc_ticket[c] = (mpl_ticket + i) % Tickets
  BY <1>1, <1>2, <1>3
<1>9. QED
  BY <1>7, <1>8

(* One CPU at a time is behind __mp_lock(), in the order in which they     *)
(* came, and the ticket that is served is always somebody's: for any       *)
(* number of CPUs below that of the tickets and any depth of calls.        *)
THEOREM LockServes == MpSpec => []TicketsServed
<1>1. MpInv => TicketsServed
  <2> SUFFICES ASSUME MpInv PROVE TicketsServed
    OBVIOUS
  <2>1. ASSUME NEW c \in Processor, "in" \in Range(frames[c]) PROVE mp_lock_held(c)
    BY <2>1 DEF MpInv, Levels, Range
  <2>2. QED
    BY <2>1, LineFilled DEF MpInv, Numbered, TicketsServed, InLine, Line
<1>2. QED
  BY <1>1, MpInvariant, PTL

-----------------------------------------------------------------------------
(* The producer/consumer locks *)

\* A producer between its enter and its leave.
WriterPC == {"first", "second", "leave"}
Writes(t) == pcpc[t] \in WriterPC

(* One producer writes while the generation, which it knows, is odd, and   *)
(* none while it is even; and what it has written of its value so far.     *)
OneWriter ==
    /\ \A t, u \in Producer : Writes(t) /\ Writes(u) => t = u
    /\ \A t \in Producer : Writes(t) => Odd(pcl_gen) /\ gen[t] = pcl_gen
    /\ Odd(pcl_gen) => \E t \in Producer : Writes(t)
    /\ (\A t \in Producer : pcpc[t] # "second") => data[1] = data[2]
    /\ \A t \in Producer : pcpc[t] = "second" => data[1] = (data[2] + 1) % Lap
    /\ \A t \in Producer : pcpc[t] \in WriterPC \cup {"out", "cas"}
    /\ \A t \in Consumer : pcpc[t] \notin WriterPC \cup {"cas"}

\* A consumer that has got its generation and has not compared it yet.
Reads(t) == pcpc[t] \in {"read1", "read2", "check"}

\* 1 while a producer writes.
Busy == IF Odd(pcl_gen) THEN 1 ELSE 0

(* By how much a generation p is ahead of g, w writes earlier, of which one *)
(* may not have ended: b is 1 then.                                        *)
Ahead(p, g, w, b) == p = g + 2 * w - b \/ p = g + 2 * w - b - GenBound

(* The generation has moved by two for every write begun since a consumer  *)
(* got it, less one for the write that has not ended; and if there was no  *)
(* such write the consumer has read what is there.                         *)
Behind(t) ==
    /\ ~Odd(gen[t])
    /\ Ahead(pcl_gen, gen[t], writes[t], Busy)
    /\ writes[t] = 0 =>
          /\ pcl_gen = gen[t]
          /\ pcpc[t] \in {"read2", "check"} => tmp[t][1] = data[1]
          /\ pcpc[t] = "check" => tmp[t][2] = data[2]

ConsumersBehind ==
    \A t \in Consumer :
        /\ Reads(t) => Behind(t)
        /\ pcpc[t] = "done" => tmp[t][1] = tmp[t][2]

PcInv == PcTypeOK /\ OneWriter /\ ConsumersBehind

(* The generation goes from odd to even and back, also where it wraps.     *)
LEMMA IncValue ==
    ASSUME NEW g \in 0 .. GenBound - 1
    PROVE  /\ Inc(g) \in 0 .. GenBound - 1
           /\ Inc(g) = IF g = GenBound - 1 THEN 0 ELSE g + 1
           /\ Odd(Inc(g)) <=> ~Odd(g)
<1>1. Inc(g) = IF g = GenBound - 1 THEN 0 ELSE g + 1
  BY PcAssumption DEF GenBound, Inc
<1>2. QED
  BY <1>1, PcAssumption DEF GenBound, Odd

(* How the distance of two generations grows.                              *)
LEMMA AheadStep ==
    ASSUME NEW p \in 0 .. GenBound - 1, NEW g \in 0 .. GenBound - 1,
           NEW w \in 0 .. Lap - 1, NEW b \in {0, 1}, Ahead(p, g, w, b)
    PROVE  /\ b = 1 => Ahead(Inc(p), g, w, 0)
           /\ b = 0 => Ahead(Inc(p), g, w + 1, 1)
           /\ b = 0 /\ p = g => w = 0
<1>1. Inc(p) = IF p = GenBound - 1 THEN 0 ELSE p + 1
  BY IncValue
<1>2. QED
  BY <1>1, PcAssumption DEF Ahead, GenBound

(* The invariant of the pc locks holds at first.                           *)
LEMMA PcInitial == PcInit => PcInv
  BY PcAssumption
     DEF PcInit, PcInv, PcTypeOK, OneWriter, ConsumersBehind, Writes, WriterPC, Odd,
         Reads, GenBound

(* A new value for a word of the data.                                     *)
LEMMA NewValue == \A x \in 0 .. Lap - 1 : (x + 1) % Lap \in 0 .. Lap - 1
  BY PcAssumption

(* Assignments to a word of a pair keep it a pair of values.               *)
LEMMA PairType ==
    ASSUME NEW d \in (0 .. Lap - 1) \X (0 .. Lap - 1), NEW x \in 0 .. Lap - 1
    PROVE  /\ d[1] \in 0 .. Lap - 1 /\ d[2] \in 0 .. Lap - 1
           /\ [d EXCEPT ![1] = x] \in (0 .. Lap - 1) \X (0 .. Lap - 1)
           /\ [d EXCEPT ![2] = x] \in (0 .. Lap - 1) \X (0 .. Lap - 1)
           /\ [d EXCEPT ![1] = x][1] = x /\ [d EXCEPT ![1] = x][2] = d[2]
           /\ [d EXCEPT ![2] = x][2] = x /\ [d EXCEPT ![2] = x][1] = d[1]
  OBVIOUS

(* Every step keeps the types of the pc locks.                             *)
LEMMA PcTypes == PcInv /\ [PcNext]_pcVars => PcTypeOK'
<1> SUFFICES ASSUME PcInv, [PcNext]_pcVars PROVE PcTypeOK'
  OBVIOUS
<1> USE PcAssumption DEF PcInv, PcTypeOK, PcAt, PcGoto
<1>1. ASSUME NEW t \in Producer, NEW g \in 0 .. GenBound - 1, Begin(t, g)
      PROVE  PcTypeOK'
  BY <1>1, IncValue DEF Begin
<1>2. ASSUME NEW t \in Producer, pc_sprod_enter(t) PROVE PcTypeOK'
  BY <1>1, <1>2 DEF pc_sprod_enter
<1>3. ASSUME NEW t \in Producer, pc_mprod_enter(t) PROVE PcTypeOK'
  BY <1>3 DEF pc_mprod_enter
<1>4. ASSUME NEW t \in Producer, MprodSpin(t) PROVE PcTypeOK'
  BY <1>4 DEF MprodSpin
<1>5. ASSUME NEW t \in Producer, MprodCas(t) PROVE PcTypeOK'
  BY <1>1, <1>5 DEF MprodCas
<1>6. ASSUME NEW t \in Producer, WriteFirst(t) PROVE PcTypeOK'
  <2>1. data' \in (0 .. Lap - 1) \X (0 .. Lap - 1)
    BY <1>6, NewValue, PairType DEF WriteFirst
  <2>2. QED
    BY <1>6, <2>1 DEF WriteFirst
<1>7. ASSUME NEW t \in Producer, WriteSecond(t) PROVE PcTypeOK'
  <2>1. data' \in (0 .. Lap - 1) \X (0 .. Lap - 1)
    BY <1>7, NewValue, PairType DEF WriteSecond
  <2>2. QED
    BY <1>7, <2>1 DEF WriteSecond
<1>8. ASSUME NEW t \in Producer, pc_prod_leave(t) PROVE PcTypeOK'
  BY <1>8, IncValue DEF pc_prod_leave
<1>9. ASSUME NEW t \in Consumer, pc_cons_enter(t) PROVE PcTypeOK'
  BY <1>9 DEF pc_cons_enter
<1>10. ASSUME NEW t \in Consumer, NEW i \in 1 .. 2, NEW from, NEW to \in {"read2", "check"},
              ReadWord(t, i, from, to)
       PROVE  PcTypeOK'
  <2>1. tmp' \in [Consumer -> (0 .. Lap - 1) \X (0 .. Lap - 1)]
    BY <1>10, PairType DEF ReadWord
  <2>2. QED
    BY <1>10, <2>1 DEF ReadWord
<1>11. ASSUME NEW t \in Consumer, pc_cons_leave(t) PROVE PcTypeOK'
  BY <1>11 DEF pc_cons_leave
<1>12. ASSUME NEW t \in Consumer, ConsWait(t) PROVE PcTypeOK'
  BY <1>12 DEF ConsWait
<1>13. ASSUME NEW t \in Consumer, ConsDone(t) PROVE PcTypeOK'
  BY <1>13 DEF ConsDone
<1>14. CASE UNCHANGED pcVars
  BY <1>14 DEF pcVars
<1>15. QED
  BY <1>2, <1>3, <1>4, <1>5, <1>6, <1>7, <1>8, <1>9, <1>10, <1>11, <1>12, <1>13,
     <1>14 DEF PcNext, Read

-----------------------------------------------------------------------------
(* A producer begins to write, from the generation it takes for current:   *)
(* the consumers that have got theirs fall behind by one write.            *)
LEMMA BeginPreserves ==
    ASSUME PcInv, PcTypeOK', NEW t \in Producer, ~Odd(pcl_gen), Begin(t, pcl_gen)
    PROVE  PcInv'
<1> USE PcAssumption DEF PcInv, PcTypeOK
<1>1. /\ Odd(pcl_gen)' /\ pcl_gen' = gen'[t] /\ pcpc'[t] = "first"
      /\ \A u \in Producer \ {t} : pcpc'[u] = pcpc[u] /\ gen'[u] = gen[u]
      /\ \A u \in Consumer : pcpc'[u] = pcpc[u] /\ gen'[u] = gen[u]
      /\ UNCHANGED <<data, tmp>>
  BY IncValue DEF Begin, PcGoto, Odd
<1>2. \A u \in Producer : ~Writes(u)
  BY DEF OneWriter
<1>3. OneWriter'
  BY <1>1, <1>2 DEF OneWriter, Writes, WriterPC
<1>4. ConsumersBehind'
  <2>1. ASSUME NEW u \in Consumer, Reads(u)' PROVE Behind(u)'
    <3>1. Reads(u) /\ writes'[u] = writes[u] + 1 /\ writes[u] \in Nat
      BY <1>1, <2>1 DEF Begin, Reads, PcAt
    <3>2. Behind(u)
      BY <3>1 DEF ConsumersBehind
    <3>3. /\ pcl_gen' = Inc(pcl_gen) /\ Busy = 0 /\ Busy' = 1
          /\ writes[u] \in 0 .. Lap - 1 /\ gen[u] \in 0 .. GenBound - 1
      BY <1>1 DEF Begin, Busy
    <3>4. Ahead(Inc(pcl_gen), gen[u], writes[u] + 1, 1)
      BY <3>2, <3>3, AheadStep DEF Behind
    <3>5. gen'[u] = gen[u] /\ ~Odd(gen[u])'
      BY <1>1, <3>2 DEF Behind, Odd
    <3>6. Ahead(pcl_gen, gen[u], writes[u], Busy)'
      BY <3>1, <3>3, <3>4, <3>5 DEF Ahead
    <3>7. QED
      BY <3>1, <3>5, <3>6 DEF Behind
  <2>2. QED
    BY <1>1, <2>1 DEF ConsumersBehind
<1>5. QED
  BY <1>3, <1>4

(* A step of a thread that leaves the generation and the data alone, and   *)
(* is no step of a reading consumer.                                       *)
LEMMA AsidePreserves ==
    ASSUME PcInv, PcTypeOK', NEW t \in Producer \cup Consumer, NEW l, PcGoto(t, l),
           UNCHANGED <<pcl_gen, data, tmp>>,
           \A u \in (Producer \cup Consumer) \ {t} : gen'[u] = gen[u],
           \A u \in Consumer \ {t} : writes'[u] = writes[u],
           t \in Producer => pcpc[t] \in {"out", "cas"} /\ l \in {"out", "cas"},
           t \in Consumer =>
               /\ l \notin WriterPC \cup {"cas"}
               /\ l \in {"read1", "read2", "check"} => Behind(t)'
               /\ l = "done" => tmp[t][1] = tmp[t][2]
    PROVE  PcInv'
<1> USE PcAssumption DEF PcInv, PcTypeOK
<1>1. pcpc'[t] = l /\ \A u \in (Producer \cup Consumer) \ {t} : pcpc'[u] = pcpc[u]
  BY DEF PcGoto
<1>2. OneWriter'
  <2>1. \A u \in Producer :
           /\ Writes(u)' <=> Writes(u)
           /\ pcpc'[u] = "second" <=> pcpc[u] = "second"
           /\ Writes(u) => gen'[u] = gen[u]
    BY <1>1 DEF Writes, WriterPC
  <2>2. Odd(pcl_gen)' <=> Odd(pcl_gen)
    BY DEF Odd
  <2>3. /\ \A u \in Producer : pcpc'[u] \in WriterPC \cup {"out", "cas"}
        /\ \A u \in Consumer : pcpc'[u] \notin WriterPC \cup {"cas"}
    BY <1>1 DEF OneWriter
  <2>4. QED
    BY <2>1, <2>2, <2>3 DEF OneWriter
<1>3. ConsumersBehind'
  <2>1. ASSUME NEW u \in Consumer, u # t, Reads(u)' PROVE Behind(u)'
    BY <1>1, <2>1 DEF ConsumersBehind, Behind, Reads, Busy, Odd
  <2>2. ASSUME NEW u \in Consumer, u = t, Reads(u)' PROVE Behind(u)'
    BY <1>1, <2>2 DEF Reads
  <2>3. QED
    BY <1>1, <2>1, <2>2 DEF ConsumersBehind
<1>4. QED
  BY <1>2, <1>3

(* Every step of a producer or a consumer keeps the invariant.             *)
LEMMA PcPreserved == PcInv /\ [PcNext]_pcVars => PcInv'
<1> SUFFICES ASSUME PcInv, [PcNext]_pcVars PROVE PcInv'
  OBVIOUS
<1>0. /\ PcTypeOK /\ PcTypeOK' /\ OneWriter /\ ConsumersBehind
      /\ pcl_gen \in 0 .. GenBound - 1
  BY PcTypes DEF PcInv, PcTypeOK
<1>1. ASSUME NEW t \in Producer, pc_sprod_enter(t) PROVE PcInv'
  <2>1. ~Odd(pcl_gen)
    BY <1>0, <1>1 DEF pc_sprod_enter, OneWriter, PcAt, Writes, WriterPC
  <2>2. QED
    BY <1>0, <1>1, <2>1, BeginPreserves DEF pc_sprod_enter
<1>2. ASSUME NEW t \in Producer, pc_mprod_enter(t) PROVE PcInv'
  BY <1>0, <1>2, PcAssumption, AsidePreserves DEF pc_mprod_enter, PcAt, PcTypeOK
<1>3. ASSUME NEW t \in Producer, MprodSpin(t) PROVE PcInv'
  <2>1. PcGoto(t, "cas")
    BY <1>0, <1>3 DEF MprodSpin, PcGoto, PcAt, PcTypeOK
  <2>2. QED
    BY <1>0, <1>3, <2>1, PcAssumption, AsidePreserves DEF MprodSpin, PcAt, PcTypeOK
<1>4. ASSUME NEW t \in Producer, MprodCas(t) PROVE PcInv'
  <2>1. CASE pcl_gen = gen[t] /\ Begin(t, gen[t])
    BY <1>0, <1>4, <2>1, BeginPreserves DEF MprodCas
  <2>2. CASE pcl_gen # gen[t]
    <3>1. PcGoto(t, "cas")
      BY <1>0, <1>4, <2>2 DEF MprodCas, PcGoto, PcAt, PcTypeOK
    <3>2. QED
      BY <1>0, <1>4, <2>2, <3>1, PcAssumption, AsidePreserves
         DEF MprodCas, PcAt, PcTypeOK
  <2>3. QED
    BY <1>4, <2>1, <2>2 DEF MprodCas
<1>5. ASSUME NEW t \in Producer, WriteFirst(t) \/ WriteSecond(t) PROVE PcInv'
  <2>1. /\ Writes(t) /\ Writes(t)' /\ Odd(pcl_gen) /\ Odd(pcl_gen)'
        /\ \A u \in (Producer \cup Consumer) \ {t} : pcpc'[u] = pcpc[u]
        /\ UNCHANGED <<pcl_gen, gen, tmp, writes>>
    BY <1>0, <1>5
       DEF WriteFirst, WriteSecond, PcAt, PcGoto, PcTypeOK, OneWriter, Writes, WriterPC, Odd
  <2>2. /\ data[1] \in 0 .. Lap - 1 /\ data[2] \in 0 .. Lap - 1
        /\ (data[1] + 1) % Lap \in 0 .. Lap - 1 /\ (data[2] + 1) % Lap \in 0 .. Lap - 1
    BY <1>0, PairType, NewValue DEF PcTypeOK
  <2>3. OneWriter'
    <3>1. CASE WriteFirst(t)
      <4>1. pcpc[t] = "first" /\ pcpc'[t] = "second"
        BY <1>0, <3>1 DEF WriteFirst, PcAt, PcGoto, PcTypeOK
      <4>2. data[1] = data[2]
        BY <1>0, <2>1, <4>1 DEF OneWriter, Writes, WriterPC
      <4>3. data'[1] = (data[1] + 1) % Lap /\ data'[2] = data[2]
        BY <1>0, <2>2, <3>1, PairType DEF WriteFirst, PcTypeOK
      <4>4. QED
        BY <1>0, <2>1, <4>1, <4>2, <4>3, PcAssumption DEF OneWriter, Writes, WriterPC
    <3>2. CASE WriteSecond(t)
      <4>1. pcpc[t] = "second" /\ pcpc'[t] = "leave"
        BY <1>0, <3>2 DEF WriteSecond, PcAt, PcGoto, PcTypeOK
      <4>2. data'[2] = (data[2] + 1) % Lap /\ data'[1] = data[1]
        BY <1>0, <2>2, <3>2, PairType DEF WriteSecond, PcTypeOK
      <4>3. data'[1] = data'[2]
        BY <1>0, <4>1, <4>2 DEF OneWriter
      <4>4. QED
        BY <1>0, <2>1, <4>1, <4>3, PcAssumption DEF OneWriter, Writes, WriterPC
    <3>3. QED
      BY <1>5, <3>1, <3>2
  <2>4. ConsumersBehind'
    <3>1. ASSUME NEW u \in Consumer, Reads(u)' PROVE Behind(u)'
      <4>1. u # t /\ pcpc'[u] = pcpc[u]
        BY <2>1, PcAssumption
      <4>2. Behind(u) /\ writes[u] # 0
        BY <1>0, <2>1, <3>1, <4>1 DEF ConsumersBehind, Reads, Behind
      <4>3. QED
        BY <2>1, <4>2 DEF Behind, Busy
    <3>2. QED
      BY <1>0, <2>1, <3>1, PcAssumption DEF ConsumersBehind
  <2>5. QED
    BY <1>0, <2>3, <2>4 DEF PcInv
<1>6. ASSUME NEW t \in Producer, pc_prod_leave(t) PROVE PcInv'
  <2>1. /\ pcpc[t] = "leave" /\ pcpc'[t] = "out" /\ Odd(pcl_gen) /\ gen[t] = pcl_gen
        /\ \A u \in (Producer \cup Consumer) \ {t} : pcpc'[u] = pcpc[u]
        /\ pcl_gen' = Inc(pcl_gen)
        /\ UNCHANGED <<data, gen, tmp, writes>>
    BY <1>0, <1>6 DEF pc_prod_leave, PcAt, PcGoto, PcTypeOK, OneWriter, Writes, WriterPC
  <2>2. /\ ~Odd(pcl_gen)'
        /\ pcl_gen' = IF pcl_gen = GenBound - 1 THEN 0 ELSE pcl_gen + 1
    BY <1>0, <2>1, IncValue DEF Odd
  <2>3. OneWriter'
    BY <1>0, <2>1, <2>2, PcAssumption DEF OneWriter, Writes, WriterPC
  <2>4. ConsumersBehind'
    <3>1. ASSUME NEW u \in Consumer, Reads(u)' PROVE Behind(u)'
      <4>1. u # t /\ pcpc'[u] = pcpc[u] /\ writes[u] \in Nat
        BY <1>0, <2>1, PcAssumption DEF PcTypeOK
      <4>2. Behind(u) /\ writes[u] # 0
        BY <1>0, <2>1, <3>1, <4>1 DEF ConsumersBehind, Reads, Behind
      <4>3. /\ Busy = 1 /\ Busy' = 0
            /\ writes[u] \in 0 .. Lap - 1 /\ gen[u] \in 0 .. GenBound - 1
        BY <1>0, <2>1, <2>2, PcAssumption DEF Busy, PcTypeOK
      <4>4. Ahead(Inc(pcl_gen), gen[u], writes[u], 0)
        BY <1>0, <4>2, <4>3, AheadStep DEF Behind
      <4>5. QED
        BY <2>1, <4>2, <4>3, <4>4 DEF Behind, Ahead
    <3>2. QED
      BY <1>0, <2>1, <3>1, PcAssumption DEF ConsumersBehind
  <2>5. QED
    BY <1>0, <2>3, <2>4 DEF PcInv
<1>7. ASSUME NEW t \in Consumer, pc_cons_enter(t) \/ ConsWait(t) PROVE PcInv'
  <2>1. /\ PcGoto(t, "read1") /\ pcpc'[t] = "read1" /\ ~Odd(pcl_gen)
        /\ gen'[t] = pcl_gen /\ writes'[t] = 0
        /\ UNCHANGED <<pcl_gen, data, tmp>>
        /\ \A u \in (Producer \cup Consumer) \ {t} : gen'[u] = gen[u]
        /\ \A u \in Consumer \ {t} : writes'[u] = writes[u]
    BY <1>0, <1>7 DEF pc_cons_enter, ConsWait, PcGoto, PcTypeOK
  <2>2. Behind(t)'
    <3>1. pcl_gen \in Nat /\ ~Odd(pcl_gen')
      BY <1>0, <2>1, PcAssumption DEF PcTypeOK, GenBound
    <3>2. Busy' = 0 /\ Ahead(pcl_gen, pcl_gen, 0, 0)
      BY <3>1 DEF Busy, Ahead
    <3>3. QED
      BY <2>1, <3>1, <3>2 DEF Behind
  <2>3. QED
    BY <1>0, <2>1, <2>2, PcAssumption, AsidePreserves DEF WriterPC
<1>8. ASSUME NEW t \in Consumer, Read(t) PROVE PcInv'
  <2>1. Behind(t)
    BY <1>0, <1>8 DEF Read, ReadWord, PcAt, ConsumersBehind, Reads
  <2>2. ASSUME NEW u \in Consumer \ {t} PROVE tmp'[u] = tmp[u] /\ pcpc'[u] = pcpc[u]
    BY <1>0, <1>8 DEF Read, ReadWord, PcGoto, PcTypeOK
  <2>3. OneWriter'
    <3>1. /\ \A u \in Producer : pcpc'[u] = pcpc[u]
          /\ pcpc'[t] \in {"read2", "check"}
          /\ UNCHANGED <<pcl_gen, data, gen>>
      BY <1>0, <1>8, PcAssumption DEF Read, ReadWord, PcGoto, PcTypeOK
    <3>2. QED
      BY <1>0, <2>2, <3>1, PcAssumption DEF OneWriter, Writes, WriterPC, Odd
  <2>4. tmp[t] \in (0 .. Lap - 1) \X (0 .. Lap - 1)
        /\ data[1] \in 0 .. Lap - 1 /\ data[2] \in 0 .. Lap - 1
    BY <1>0, PairType DEF PcTypeOK
  <2>5. Behind(t)'
    <3>1. CASE ReadWord(t, 1, "read1", "read2")
      <4>1. tmp'[t][1] = data[1] /\ pcpc'[t] = "read2"
            /\ UNCHANGED <<pcl_gen, data, gen, writes>>
        BY <1>0, <2>4, <3>1, PairType DEF ReadWord, PcGoto, PcTypeOK
      <4>2. QED
        BY <2>1, <4>1 DEF Behind, Busy, Odd
    <3>2. CASE ReadWord(t, 2, "read2", "check")
      <4>1. /\ tmp'[t][2] = data[2] /\ tmp'[t][1] = tmp[t][1]
            /\ pcpc[t] = "read2" /\ pcpc'[t] = "check"
            /\ UNCHANGED <<pcl_gen, data, gen, writes>>
        BY <1>0, <2>4, <3>2, PairType DEF ReadWord, PcAt, PcGoto, PcTypeOK
      <4>2. QED
        BY <2>1, <4>1 DEF Behind, Busy, Odd
    <3>3. QED
      BY <1>8, <3>1, <3>2 DEF Read
  <2>6. ConsumersBehind'
    <3>1. /\ pcpc'[t] \in {"read2", "check"}
          /\ UNCHANGED <<pcl_gen, data, gen, writes>>
      BY <1>0, <1>8 DEF Read, ReadWord, PcGoto, PcTypeOK
    <3>2. ASSUME NEW u \in Consumer \ {t}, Reads(u)' PROVE Behind(u)'
      BY <1>0, <2>2, <3>1, <3>2 DEF ConsumersBehind, Reads, Behind, Busy, Odd
    <3>3. QED
      BY <1>0, <2>2, <2>5, <3>1, <3>2 DEF ConsumersBehind
  <2>7. QED
    BY <1>0, <2>3, <2>6 DEF PcInv
<1>9. ASSUME NEW t \in Consumer, pc_cons_leave(t) PROVE PcInv'
  <2>1. /\ pcpc[t] = "check" /\ Behind(t)
        /\ UNCHANGED <<pcl_gen, data, tmp>>
        /\ \A u \in (Producer \cup Consumer) \ {t} : gen'[u] = gen[u]
        /\ \A u \in Consumer \ {t} : writes'[u] = writes[u]
    BY <1>0, <1>9 DEF pc_cons_leave, PcAt, ConsumersBehind, Reads, PcTypeOK
  <2>2. CASE Odd(pcl_gen)
    <3>1. PcGoto(t, "wait")
      BY <1>9, <2>2 DEF pc_cons_leave
    <3>2. QED
      BY <1>0, <2>1, <3>1, PcAssumption, AsidePreserves DEF WriterPC
  <2>3. CASE ~Odd(pcl_gen) /\ pcl_gen = gen[t]
    <3>1. PcGoto(t, "done")
      BY <1>9, <2>3 DEF pc_cons_leave
    <3>2. writes[t] = 0
      <4>1. /\ Busy = 0 /\ writes[t] \in 0 .. Lap - 1
            /\ gen[t] \in 0 .. GenBound - 1
        BY <1>0, <2>3 DEF Busy, PcTypeOK
      <4>2. QED
        BY <1>0, <2>1, <2>3, <4>1, AheadStep DEF Behind
    <3>3. data[1] = data[2]
      BY <1>0, <2>3 DEF OneWriter, Writes, WriterPC
    <3>4. tmp[t][1] = tmp[t][2]
      BY <2>1, <3>2, <3>3 DEF Behind
    <3>5. QED
      BY <1>0, <2>1, <3>1, <3>4, PcAssumption, AsidePreserves DEF WriterPC
  <2>4. CASE ~Odd(pcl_gen) /\ pcl_gen # gen[t]
    <3>1. PcGoto(t, "read1") /\ pcpc'[t] = "read1" /\ gen'[t] = pcl_gen /\ writes'[t] = 0
      BY <1>0, <1>9, <2>4 DEF pc_cons_leave, PcGoto, PcTypeOK
    <3>2. Behind(t)'
      <4>1. pcl_gen \in Nat /\ ~Odd(pcl_gen')
        BY <1>0, <2>1, <2>4, PcAssumption DEF PcTypeOK, GenBound
      <4>2. Busy' = 0 /\ Ahead(pcl_gen, pcl_gen, 0, 0)
        BY <4>1 DEF Busy, Ahead
      <4>3. QED
        BY <2>1, <2>4, <3>1, <4>1, <4>2 DEF Behind
    <3>3. QED
      BY <1>0, <2>1, <3>1, <3>2, PcAssumption, AsidePreserves DEF WriterPC
  <2>5. QED
    BY <2>2, <2>3, <2>4
<1>10. ASSUME NEW t \in Consumer, ConsDone(t) PROVE PcInv'
  BY <1>0, <1>10, PcAssumption, AsidePreserves DEF ConsDone, WriterPC
<1>11. CASE UNCHANGED pcVars
  BY <1>0, <1>11
     DEF pcVars, PcInv, OneWriter, ConsumersBehind, Writes, Reads, Behind, Busy, Odd
<1>12. QED
  BY <1>1, <1>2, <1>3, <1>4, <1>5, <1>6, <1>7, <1>8, <1>9, <1>10, <1>11 DEF PcNext

-----------------------------------------------------------------------------
(* The inductive invariant holds in every state the lock can reach.        *)
LEMMA PcInvariant == PcSpec => []PcInv
  BY PcInitial, PcPreserved, PTL DEF PcSpec

(* What pc_cons_leave() lets a consumer keep are the words of one write,   *)
(* and pc_mprod_enter() lets one producer write at a time, for any number  *)
(* of both and while the generation wraps, as long as no consumer is held  *)
(* up for a whole lap of it.                                               *)
THEOREM ConsumerSnapshot == PcSpec => []Snapshot
<1>1. PcInv => Snapshot
  BY DEF PcInv, OneWriter, ConsumersBehind, Snapshot, Writes, WriterPC, PcAt
<1>2. QED
  BY <1>1, PcInvariant, PTL

-----------------------------------------------------------------------------
(* Reader/writer locks                                                     *)

\* The threads that the program counters f place in S.
PlacedIn(f, S) == {q \in Thread : f[q] \in S}

\* Thread p moves to l: f and g are the program counters before and after.
IsMove(f, g, p, l) ==
    /\ f \in [Thread -> PC] /\ p \in Thread /\ l \in PC
    /\ g = [f EXCEPT ![p] = l]

\* What the move does to the threads in S and to their number.
Moved(f, g, p, l, S) ==
    /\ Cardinality(PlacedIn(f, S)) \in Nat
    /\ Cardinality(PlacedIn(g, S)) \in Nat
    /\ (f[p] \in S <=> l \in S) => PlacedIn(g, S) = PlacedIn(f, S)
    /\ f[p] \notin S /\ l \in S =>
         /\ PlacedIn(g, S) = PlacedIn(f, S) \cup {p}
         /\ Cardinality(PlacedIn(g, S)) = Cardinality(PlacedIn(f, S)) + 1
    /\ f[p] \in S /\ l \notin S =>
         /\ PlacedIn(g, S) = PlacedIn(f, S) \ {p}
         /\ Cardinality(PlacedIn(g, S)) = Cardinality(PlacedIn(f, S)) - 1

(* Moving one thread from one place to another changes the number of       *)
(* threads in a set S of places by at most one.  This is the arithmetic    *)
(* behind the reader count of the lock word and behind rwl_waiters and     *)
(* rwl_readers.                                                            *)
LEMMA CountMove ==
    ASSUME NEW f, NEW g, NEW p, NEW l, NEW S, IsMove(f, g, p, l)
    PROVE  Moved(f, g, p, l, S)
<1>1. IsFiniteSet(PlacedIn(f, S)) /\ IsFiniteSet(PlacedIn(g, S))
  BY FS_Subset, ThreadAssumption DEF PlacedIn, IsMove
<1>2. Cardinality(PlacedIn(f, S)) \in Nat /\ Cardinality(PlacedIn(g, S)) \in Nat
  BY <1>1, FS_CardinalityType
<1>3. (f[p] \in S <=> l \in S) => PlacedIn(g, S) = PlacedIn(f, S)
  BY DEF PlacedIn, IsMove
<1>4. ASSUME f[p] \notin S, l \in S
      PROVE  /\ PlacedIn(g, S) = PlacedIn(f, S) \cup {p}
             /\ Cardinality(PlacedIn(g, S)) = Cardinality(PlacedIn(f, S)) + 1
  <2>1. PlacedIn(g, S) = PlacedIn(f, S) \cup {p} /\ p \notin PlacedIn(f, S)
    BY <1>4 DEF PlacedIn, IsMove
  <2>2. QED
    BY <2>1, <1>1, FS_AddElement
<1>5. ASSUME f[p] \in S, l \notin S
      PROVE  /\ PlacedIn(g, S) = PlacedIn(f, S) \ {p}
             /\ Cardinality(PlacedIn(g, S)) = Cardinality(PlacedIn(f, S)) - 1
  <2>1. PlacedIn(g, S) = PlacedIn(f, S) \ {p} /\ p \in PlacedIn(f, S)
    BY <1>5 DEF PlacedIn, IsMove
  <2>2. QED
    BY <2>1, <1>1, FS_RemoveElement
<1>6. QED
  BY <1>2, <1>3, <1>4, <1>5 DEF Moved

-----------------------------------------------------------------------------
(* The inductive invariant.  OwnerWord alone is not inductive: that an     *)
(* rw_dec does not take a counter below zero needs WaitCounters, and both  *)
(* need the types.  Nothing is needed about the sleep queues: the lock is  *)
(* safe however its sleepers are woken.                                    *)
LockInv == LockTypeOK /\ OwnerWord /\ WaitCounters

WriteWaiting == {q \in Thread : pc[q] \in WriteWaitPC}
ReadWaiting == {q \in Thread : pc[q] \in ReadWaitPC}

(* CountMove for the four sets of places the invariant counts.             *)
LEMMA Move ==
    ASSUME LockTypeOK, NEW p \in Thread, NEW l \in PC, Goto(p, l)
    PROVE  /\ Cardinality(Reading) \in Nat /\ Cardinality(Reading)' \in Nat
           /\ Cardinality(WriteWaiting) \in Nat
           /\ Cardinality(ReadWaiting) \in Nat
           /\ (pc[p] \in ReadPC <=> l \in ReadPC) => Reading' = Reading
           /\ pc[p] \notin ReadPC /\ l \in ReadPC =>
                /\ Reading' = Reading \cup {p}
                /\ Cardinality(Reading)' = Cardinality(Reading) + 1
           /\ pc[p] \in ReadPC /\ l \notin ReadPC =>
                /\ Reading' = Reading \ {p}
                /\ Cardinality(Reading)' = Cardinality(Reading) - 1
           /\ (pc[p] \in WritePC <=> l \in WritePC) => Writing' = Writing
           /\ pc[p] \notin WritePC /\ l \in WritePC =>
                Writing' = Writing \cup {p}
           /\ pc[p] \in WritePC /\ l \notin WritePC =>
                Writing' = Writing \ {p}
           /\ (pc[p] \in WriteWaitPC <=> l \in WriteWaitPC) =>
                WriteWaiting' = WriteWaiting
           /\ pc[p] \notin WriteWaitPC /\ l \in WriteWaitPC =>
                Cardinality(WriteWaiting)' = Cardinality(WriteWaiting) + 1
           /\ pc[p] \in WriteWaitPC /\ l \notin WriteWaitPC =>
                Cardinality(WriteWaiting)' = Cardinality(WriteWaiting) - 1
           /\ (pc[p] \in ReadWaitPC <=> l \in ReadWaitPC) =>
                ReadWaiting' = ReadWaiting
           /\ pc[p] \notin ReadWaitPC /\ l \in ReadWaitPC =>
                Cardinality(ReadWaiting)' = Cardinality(ReadWaiting) + 1
           /\ pc[p] \in ReadWaitPC /\ l \notin ReadWaitPC =>
                Cardinality(ReadWaiting)' = Cardinality(ReadWaiting) - 1
<1>1. IsMove(pc, pc', p, l)
  BY DEF LockTypeOK, Goto, IsMove
<1>2. /\ Reading = PlacedIn(pc, ReadPC) /\ Reading' = PlacedIn(pc', ReadPC)
      /\ Writing = PlacedIn(pc, WritePC) /\ Writing' = PlacedIn(pc', WritePC)
      /\ WriteWaiting = PlacedIn(pc, WriteWaitPC) /\ WriteWaiting' = PlacedIn(pc', WriteWaitPC)
      /\ ReadWaiting = PlacedIn(pc, ReadWaitPC) /\ ReadWaiting' = PlacedIn(pc', ReadWaitPC)
  BY DEF Reading, Writing, WriteWaiting, ReadWaiting, PlacedIn
<1>3. Moved(pc, pc', p, l, ReadPC)
  BY <1>1, CountMove
<1>4. Moved(pc, pc', p, l, WritePC)
  BY <1>1, CountMove
<1>5. Moved(pc, pc', p, l, WriteWaitPC)
  BY <1>1, CountMove
<1>6. Moved(pc, pc', p, l, ReadWaitPC)
  BY <1>1, CountMove
<1>7. QED
  BY <1>2, <1>3, <1>4, <1>5, <1>6 DEF Moved

FlagsOK == flags \in [Thread -> SUBSET {"RW_NOSLEEP", "RW_INTR"}]

(* A step that leaves the lock's words alone and takes its thread neither  *)
(* into the lock, nor out of it, nor past an rw_inc or an rw_dec.          *)
LEMMA PureMove ==
    ASSUME LockInv, NEW p \in Thread, NEW l \in PC, Goto(p, l),
           UNCHANGED lockVars, FlagsOK',
           pc[p] \in ReadPC <=> l \in ReadPC,
           pc[p] \in WritePC <=> l \in WritePC,
           pc[p] \in WriteWaitPC <=> l \in WriteWaitPC,
           pc[p] \in ReadWaitPC <=> l \in ReadWaitPC
    PROVE  LockInv'
<1>1. LockTypeOK'
  BY DEF LockInv, LockTypeOK, Goto, lockVars, FlagsOK
<1>2. /\ Reading' = Reading /\ Writing' = Writing
      /\ WriteWaiting' = WriteWaiting /\ ReadWaiting' = ReadWaiting
  BY Move DEF LockInv
<1>3. OwnerWord'
  BY <1>2 DEF LockInv, OwnerWord, lockVars, Readers, Self
<1>4. WaitCounters'
  BY <1>2 DEF LockInv, WaitCounters, lockVars, WriteWaiting, ReadWaiting
<1>5. QED
  BY <1>1, <1>3, <1>4 DEF LockInv

(* A free lock has nobody inside.                                          *)
LEMMA FreeIsEmpty ==
    ASSUME LockInv, rwl_owner = Unlocked
    PROVE  Writing = {} /\ Reading = {} /\ Cardinality(Reading) = 0
<1>1. IsFiniteSet(Reading)
  BY FS_Subset, ThreadAssumption DEF Reading
<1>2. Writing = {} /\ rwl_owner = Readers(Cardinality(Reading))
  <2>1. ASSUME NEW q \in Writing, rwl_owner = Self(q)
        PROVE  FALSE
    BY <2>1, ThreadAssumption DEF Self, Unlocked, Readers, Writing
  <2>2. QED
    BY <2>1 DEF LockInv, OwnerWord
<1>3. Cardinality(Reading) = 0
  BY <1>2 DEF Unlocked, Readers
<1>4. QED
  BY <1>1, <1>2, <1>3, FS_EmptySet

(* A thread that writes owns the word, alone.                              *)
LEMMA WriterOwns ==
    ASSUME LockInv, NEW p \in Writing
    PROVE  Writing = {p} /\ Reading = {} /\ rwl_owner = Self(p)
  BY DEF LockInv, OwnerWord

(* While somebody reads, the word is the number of readers.                *)
LEMMA ReaderCounted ==
    ASSUME LockInv, NEW p \in Reading
    PROVE  /\ Writing = {}
           /\ rwl_owner = Readers(Cardinality(Reading))
           /\ Cardinality(Reading) \in Nat \ {0}
<1>1. IsFiniteSet(Reading)
  BY FS_Subset, ThreadAssumption DEF Reading
<1>2. Cardinality(Reading) \in Nat /\ Cardinality(Reading) # 0
  BY <1>1, FS_CardinalityType, FS_EmptySet
<1>3. QED
  BY <1>2 DEF LockInv, OwnerWord

(* When RWLOCK_WRLOCK is clear the word is the number of readers.          *)
LEMMA NotWriteLocked ==
    ASSUME LockInv, ~WRLOCK
    PROVE  Writing = {} /\ rwl_owner = Readers(Cardinality(Reading))
<1>1. ASSUME NEW q \in Writing, rwl_owner = Self(q)
      PROVE  FALSE
  BY <1>1, ThreadAssumption DEF Self, WRLOCK, Writing
<1>2. QED
  BY <1>1 DEF LockInv, OwnerWord

-----------------------------------------------------------------------------
(* The invariant holds of a lock that was just initialised.                *)
LEMMA LockInit == Init => LockInv
<1> SUFFICES ASSUME Init PROVE LockInv
  OBVIOUS
<1>1. LockTypeOK
  BY DEF Init, LockTypeOK, Unlocked, Readers, PC
<1>2. /\ Reading = {} /\ Writing = {}
      /\ {p \in Thread : pc[p] \in WriteWaitPC} = {}
      /\ {p \in Thread : pc[p] \in ReadWaitPC} = {}
  BY DEF Init, Reading, Writing, ReadPC, WritePC, WriteWaitPC, ReadWaitPC
<1>3. QED
  BY <1>1, <1>2, FS_EmptySet
     DEF LockInv, OwnerWord, WaitCounters, Init, Unlocked

(* A compare-and-swap that finds the lock free makes p its writer.         *)
LEMMA TakeWrite ==
    ASSUME LockInv, NEW p \in Thread, NEW l \in WritePC, Goto(p, l),
           rwl_owner = Unlocked, rwl_owner' = Self(p),
           UNCHANGED <<rwl_waiters, rwl_readers, flags>>,
           pc[p] \notin ReadPC \cup WritePC \cup ReadWaitPC,
           pc[p] \in WriteWaitPC <=> l \in WriteWaitPC
    PROVE  LockInv'
<1>1. l \in PC /\ l \notin ReadPC \cup ReadWaitPC
  BY DEF PC, WritePC, ReadPC, ReadWaitPC
<1>2. LockTypeOK'
  BY <1>1 DEF LockInv, LockTypeOK, Goto, Self
<1>3. Writing' = {p} /\ Reading' = {}
  BY <1>1, Move, FreeIsEmpty DEF LockInv
<1>4. OwnerWord'
  BY <1>3 DEF OwnerWord, Self
<1>5. WaitCounters'
  BY <1>1, Move DEF LockInv, WaitCounters, WriteWaiting, ReadWaiting
<1>6. QED
  BY <1>2, <1>4, <1>5 DEF LockInv

(* rw_read_incr that finds WRLOCK clear counts one reader more.            *)
LEMMA TakeRead ==
    ASSUME LockInv, NEW p \in Thread, NEW l \in ReadPC, Goto(p, l),
           ~WRLOCK, rwl_owner' = Readers(rwl_owner.count + 1),
           UNCHANGED <<rwl_waiters, rwl_readers, flags>>,
           pc[p] \notin ReadPC \cup WritePC \cup WriteWaitPC,
           pc[p] \in ReadWaitPC <=> l \in ReadWaitPC
    PROVE  LockInv'
<1>1. l \in PC /\ l \notin WritePC \cup WriteWaitPC
  BY DEF PC, WritePC, ReadPC, WriteWaitPC
<1>2. LockTypeOK'
  BY <1>1 DEF LockInv, LockTypeOK, Goto, Readers
<1>3. /\ Writing' = Writing
      /\ Cardinality(Reading)' = Cardinality(Reading) + 1
  BY <1>1, Move DEF LockInv
<1>4. OwnerWord'
  BY <1>3, NotWriteLocked DEF OwnerWord, Readers
<1>5. WaitCounters'
  BY <1>1, Move DEF LockInv, WaitCounters, WriteWaiting, ReadWaiting
<1>6. QED
  BY <1>2, <1>4, <1>5 DEF LockInv

(* rw_inc and rw_dec of rwl_waiters, with the move of the thread that did  *)
(* them.                                                                   *)
LEMMA WaitersMove ==
    ASSUME LockInv, NEW p \in Thread, NEW l \in PC, Goto(p, l),
           UNCHANGED <<rwl_owner, rwl_readers, flags>>,
           pc[p] \in ReadPC <=> l \in ReadPC,
           pc[p] \in WritePC <=> l \in WritePC,
           pc[p] \in ReadWaitPC <=> l \in ReadWaitPC,
           \/ /\ pc[p] \notin WriteWaitPC /\ l \in WriteWaitPC
              /\ rwl_waiters' = rwl_waiters + 1
           \/ /\ pc[p] \in WriteWaitPC /\ l \notin WriteWaitPC
              /\ rwl_waiters' = rwl_waiters - 1
    PROVE  LockInv'
<1>1. WaitCounters'
  BY Move DEF LockInv, WaitCounters, WriteWaiting, ReadWaiting
<1>2. rwl_waiters' \in Nat
  <2>1. IsFiniteSet(WriteWaiting')
    BY FS_Subset, ThreadAssumption DEF WriteWaiting
  <2>2. QED
    BY <1>1, <2>1, FS_CardinalityType DEF WaitCounters, WriteWaiting
<1>3. LockTypeOK'
  BY <1>2 DEF LockInv, LockTypeOK, Goto
<1>4. Reading' = Reading /\ Writing' = Writing
  BY Move DEF LockInv
<1>5. OwnerWord'
  BY <1>4 DEF LockInv, OwnerWord, Readers, Self
<1>6. QED
  BY <1>1, <1>3, <1>5 DEF LockInv

(* The same for rwl_readers.                                               *)
LEMMA ReadersMove ==
    ASSUME LockInv, NEW p \in Thread, NEW l \in PC, Goto(p, l),
           UNCHANGED <<rwl_owner, rwl_waiters, flags>>,
           pc[p] \in ReadPC <=> l \in ReadPC,
           pc[p] \in WritePC <=> l \in WritePC,
           pc[p] \in WriteWaitPC <=> l \in WriteWaitPC,
           \/ /\ pc[p] \notin ReadWaitPC /\ l \in ReadWaitPC
              /\ rwl_readers' = rwl_readers + 1
           \/ /\ pc[p] \in ReadWaitPC /\ l \notin ReadWaitPC
              /\ rwl_readers' = rwl_readers - 1
    PROVE  LockInv'
<1>1. WaitCounters'
  BY Move DEF LockInv, WaitCounters, WriteWaiting, ReadWaiting
<1>2. rwl_readers' \in Nat
  <2>1. IsFiniteSet(ReadWaiting')
    BY FS_Subset, ThreadAssumption DEF ReadWaiting
  <2>2. QED
    BY <1>1, <2>1, FS_CardinalityType DEF WaitCounters, ReadWaiting
<1>3. LockTypeOK'
  BY <1>2 DEF LockInv, LockTypeOK, Goto
<1>4. Reading' = Reading /\ Writing' = Writing
  BY Move DEF LockInv
<1>5. OwnerWord'
  BY <1>4 DEF LockInv, OwnerWord, Readers, Self
<1>6. QED
  BY <1>1, <1>3, <1>5 DEF LockInv

(* A holder changes how it holds the lock, or leaves it.                   *)
LEMMA HolderMove ==
    ASSUME LockInv, NEW p \in Thread,
           Downgrade(p) \/ Upgrade(p) \/ ExitWrite(p) \/ ExitRead(p)
    PROVE  LockInv'
<1> USE DEF WritePC, ReadPC, WriteWaitPC, ReadWaitPC
<1>1. CASE Downgrade(p)
  <2>1. Goto(p, "d_waiters") /\ "d_waiters" \in PC /\ pc[p] = "write"
    BY <1>1 DEF Downgrade, PC
  <2>2. Writing = {p} /\ Reading = {}
    BY <2>1, WriterOwns DEF Writing
  <2>3. Writing' = {} /\ Reading' = {p} /\ WriteWaiting' = WriteWaiting
        /\ ReadWaiting' = ReadWaiting
    BY <2>1, <2>2, Move DEF LockInv
  <2>4. Cardinality(Reading') = 1
    BY <2>3, FS_Singleton
  <2>5. LockTypeOK'
    BY <1>1, <2>1 DEF LockInv, LockTypeOK, Downgrade, Goto, Readers
  <2>6. OwnerWord'
    BY <1>1, <2>3, <2>4 DEF OwnerWord, Downgrade, Readers
  <2>7. WaitCounters'
    BY <1>1, <2>3 DEF LockInv, WaitCounters, WriteWaiting, ReadWaiting, Downgrade
  <2>8. QED
    BY <2>5, <2>6, <2>7 DEF LockInv
<1>2. CASE Upgrade(p) /\ rwl_owner = Readers(1)
  <2>1. Goto(p, "write") /\ "write" \in PC /\ pc[p] = "read"
    BY <1>2 DEF Upgrade, PC
  <2>2. p \in Reading /\ IsFiniteSet(Reading)
    BY <2>1, FS_Subset, ThreadAssumption DEF Reading
  <2>3. Writing = {} /\ Cardinality(Reading) = 1
    BY <1>2, <2>2, ReaderCounted DEF Readers
  <2>4. Reading = {p}
    BY <2>2, <2>3, FS_Singleton
  <2>5. Writing' = {p} /\ Reading' = {} /\ WriteWaiting' = WriteWaiting
        /\ ReadWaiting' = ReadWaiting
    BY <2>1, <2>3, <2>4, Move DEF LockInv
  <2>6. LockTypeOK'
    BY <1>2, <2>1 DEF LockInv, LockTypeOK, Upgrade, Goto, Self
  <2>7. OwnerWord'
    BY <1>2, <2>5 DEF OwnerWord, Upgrade, Self
  <2>8. WaitCounters'
    BY <1>2, <2>5 DEF LockInv, WaitCounters, WriteWaiting, ReadWaiting, Upgrade
  <2>9. QED
    BY <2>6, <2>7, <2>8 DEF LockInv
<1>3. CASE Upgrade(p) /\ rwl_owner # Readers(1)
  <2>1. UNCHANGED <<rwl_owner, rwl_waiters, rwl_readers, pc, flags>>
    BY <1>3 DEF Upgrade
  <2>2. QED
    BY <2>1 DEF LockInv, LockTypeOK, OwnerWord, WaitCounters, Reading, Writing,
                Readers, Self
<1>4. CASE ExitWrite(p)
  <2>1. Goto(p, "x_waiters") /\ "x_waiters" \in PC /\ pc[p] = "write"
    BY <1>4 DEF ExitWrite, PC
  <2>2. Writing = {p} /\ Reading = {}
    BY <2>1, WriterOwns DEF Writing
  <2>3. Writing' = {} /\ Reading' = {} /\ WriteWaiting' = WriteWaiting
        /\ ReadWaiting' = ReadWaiting
    BY <2>1, <2>2, Move DEF LockInv
  <2>4. Cardinality(Reading') = 0
    BY <2>3, FS_EmptySet
  <2>5. LockTypeOK'
    BY <1>4, <2>1 DEF LockInv, LockTypeOK, ExitWrite, Goto, Unlocked, Readers
  <2>6. OwnerWord'
    BY <1>4, <2>3, <2>4 DEF OwnerWord, ExitWrite, Unlocked, Readers
  <2>7. WaitCounters'
    BY <1>4, <2>3 DEF LockInv, WaitCounters, WriteWaiting, ReadWaiting, ExitWrite
  <2>8. QED
    BY <2>5, <2>6, <2>7 DEF LockInv
<1>5. CASE ExitRead(p)
  <2>1. PICK l \in {"x_waiters", "idle"} : Goto(p, l)
    BY <1>5 DEF ExitRead
  <2>2. l \in PC /\ pc[p] = "read"
    BY <1>5 DEF ExitRead, PC
  <2>3. p \in Reading
    BY <2>2 DEF Reading
  <2>4. /\ Writing = {}
        /\ rwl_owner = Readers(Cardinality(Reading))
        /\ Cardinality(Reading) \in Nat \ {0}
    BY <2>3, ReaderCounted
  <2>5. /\ Writing' = {} /\ Cardinality(Reading)' = Cardinality(Reading) - 1
        /\ WriteWaiting' = WriteWaiting /\ ReadWaiting' = ReadWaiting
    BY <2>1, <2>2, <2>4, Move DEF LockInv
  <2>6. rwl_owner' = Readers(Cardinality(Reading) - 1)
    BY <1>5, <2>4 DEF ExitRead, Readers
  <2>7. LockTypeOK'
    BY <1>5, <2>1, <2>2, <2>4, <2>6 DEF LockInv, LockTypeOK, ExitRead, Goto, Readers
  <2>8. OwnerWord'
    BY <2>5, <2>6 DEF OwnerWord, Readers
  <2>9. WaitCounters'
    BY <1>5, <2>5 DEF LockInv, WaitCounters, WriteWaiting, ReadWaiting, ExitRead
  <2>10. QED
    BY <2>7, <2>8, <2>9 DEF LockInv
<1>6. QED
  BY <1>1, <1>2, <1>3, <1>4, <1>5

-----------------------------------------------------------------------------
(* Steps of the sleep queues, of signals and of the return to user mode    *)
(* leave the lock alone.                                                   *)
LEMMA LockUnchanged ==
    ASSUME LockInv, UNCHANGED <<rwl_owner, rwl_waiters, rwl_readers, pc, flags>>
    PROVE  LockInv'
  BY DEF LockInv, LockTypeOK, OwnerWord, WaitCounters, Reading, Writing,
         Readers, Self

(* The steps that begin rw_enter() keep the invariant.                     *)
LEMMA EnterStep ==
    ASSUME LockInv, NEW p \in Thread, EnterWrite(p) \/ EnterRead(p)
    PROVE  LockInv'
<1>1. PICK l \in {"w_cas", "r_cas"} : Goto(p, l)
  BY DEF EnterWrite, EnterRead
<1>2. pc[p] = "idle" /\ UNCHANGED lockVars /\ FlagsOK'
  BY FlagsAssumption
     DEF EnterWrite, EnterRead, LockInv, LockTypeOK, FlagsOK
<1>3. l \in PC
  BY DEF PC
<1>4. QED
  BY <1>1, <1>2, <1>3, PureMove DEF ReadPC, WritePC, WriteWaitPC, ReadWaitPC

(* The steps of rw_do_enter_write.                                         *)
LEMMA WriteStep ==
    ASSUME LockInv, NEW p \in Thread,
           \/ WriteCas(p) \/ WriteSpin(p) \/ WriteSetup(p) \/ WriteLoad(p)
           \/ WriteWoken(p) \/ WriteCas2(p) \/ WriteDec(p)
    PROVE  LockInv'
<1> USE DEF WritePC, ReadPC, WriteWaitPC, ReadWaitPC, PC
<1>1. FlagsOK
  BY DEF LockInv, LockTypeOK, FlagsOK
<1>2. ASSUME NEW l \in WritePC, NEW m \in PC, TryWrite(p, l, m),
             pc[p] \notin ReadPC \cup WritePC \cup ReadWaitPC,
             m \notin ReadPC \cup WritePC \cup ReadWaitPC,
             pc[p] \in WriteWaitPC <=> l \in WriteWaitPC,
             pc[p] \in WriteWaitPC <=> m \in WriteWaitPC
      PROVE  LockInv'
  <2>1. CASE rwl_owner = Unlocked
    BY <1>2, <2>1, TakeWrite DEF TryWrite
  <2>2. CASE rwl_owner # Unlocked
    BY <1>1, <1>2, <2>2, PureMove DEF TryWrite, lockVars, FlagsOK
  <2>3. QED
    BY <2>1, <2>2
<1>3. CASE WriteCas(p)
  BY <1>2, <1>3 DEF WriteCas
<1>4. CASE WriteCas2(p)
  BY <1>2, <1>4 DEF WriteCas2
<1>5. CASE WriteSpin(p)
  <2>1. CASE rwl_owner = Unlocked /\ rwl_owner' = Self(p) /\ Goto(p, "write")
             /\ UNCHANGED rwl_waiters
    BY <1>5, <2>1, TakeWrite DEF WriteSpin
  <2>2. CASE Goto(p, "idle") /\ UNCHANGED <<rwl_owner, rwl_waiters>>
    BY <1>1, <1>5, <2>2, PureMove DEF WriteSpin, lockVars, FlagsOK
  <2>3. CASE Goto(p, "w_setup") /\ rwl_waiters' = rwl_waiters + 1
             /\ UNCHANGED rwl_owner
    BY <1>5, <2>3, WaitersMove DEF WriteSpin
  <2>4. QED
    BY <1>5, <2>1, <2>2, <2>3 DEF WriteSpin
<1>6. CASE WriteSetup(p)
  BY <1>1, <1>6, PureMove DEF WriteSetup, FlagsOK
<1>7. CASE WriteLoad(p)
  BY <1>1, <1>7, PureMove DEF WriteLoad, FlagsOK
<1>8. CASE WriteWoken(p)
  <2>1. PICK l \in {"w_intr", "w_cas2"} : Goto(p, l)
    BY <1>8 DEF WriteWoken
  <2>2. QED
    BY <1>1, <1>8, <2>1, PureMove DEF WriteWoken, FlagsOK
<1>9. CASE WriteDec(p)
  <2>1. CASE pc[p] = "w_dec"
    BY <1>9, <2>1, WaitersMove DEF WriteDec
  <2>2. CASE pc[p] = "w_intr"
    BY <1>9, <2>2, WaitersMove DEF WriteDec
  <2>3. QED
    BY <1>9, <2>1, <2>2 DEF WriteDec
<1>10. QED
  BY <1>3, <1>4, <1>5, <1>6, <1>7, <1>8, <1>9

(* The steps of rw_do_enter_read.                                          *)
LEMMA ReadStep ==
    ASSUME LockInv, NEW p \in Thread,
           \/ ReadCas(p) \/ ReadWaiters(p) \/ ReadIncr(p) \/ ReadBlock(p)
           \/ ReadSetup(p) \/ ReadLoad(p) \/ ReadLoadOwner(p) \/ ReadWoken(p)
           \/ ReadIncr2(p) \/ ReadDec(p)
    PROVE  LockInv'
<1> USE DEF WritePC, ReadPC, WriteWaitPC, ReadWaitPC, PC
<1>1. FlagsOK
  BY DEF LockInv, LockTypeOK, FlagsOK
<1>2. ASSUME NEW l \in ReadPC, NEW m \in PC, rw_read_incr(p, l, m),
             pc[p] \notin ReadPC \cup WritePC \cup WriteWaitPC,
             m \notin ReadPC \cup WritePC \cup WriteWaitPC,
             pc[p] \in ReadWaitPC <=> l \in ReadWaitPC,
             pc[p] \in ReadWaitPC <=> m \in ReadWaitPC
      PROVE  LockInv'
  <2>1. CASE ~WRLOCK
    BY <1>2, <2>1, TakeRead DEF rw_read_incr
  <2>2. CASE WRLOCK
    BY <1>1, <1>2, <2>2, PureMove DEF rw_read_incr, lockVars, FlagsOK
  <2>3. QED
    BY <2>1, <2>2
<1>3. CASE ReadIncr(p)
  BY <1>2, <1>3 DEF ReadIncr
<1>4. CASE ReadIncr2(p)
  BY <1>2, <1>4 DEF ReadIncr2
<1>5. CASE ReadCas(p)
  <2>1. CASE rwl_owner = Unlocked
    <3>1. ~WRLOCK /\ rwl_owner' = Readers(rwl_owner.count + 1)
      BY <1>5, <2>1 DEF ReadCas, WRLOCK, Unlocked, Readers
    <3>2. QED
      BY <1>5, <2>1, <3>1, TakeRead DEF ReadCas
  <2>2. CASE rwl_owner # Unlocked
    <3>1. PICK l \in {"r_block", "r_waiters"} : Goto(p, l)
      BY <1>5, <2>2 DEF ReadCas
    <3>2. QED
      BY <1>1, <1>5, <2>2, <3>1, PureMove DEF ReadCas, lockVars, FlagsOK
  <2>3. QED
    BY <2>1, <2>2
<1>6. CASE ReadWaiters(p)
  <2>1. PICK l \in {"r_incr", "r_block"} : Goto(p, l)
    BY <1>6 DEF ReadWaiters
  <2>2. QED
    BY <1>1, <1>6, <2>1, PureMove DEF ReadWaiters, FlagsOK
<1>7. CASE ReadBlock(p)
  <2>1. CASE "RW_NOSLEEP" \in flags[p]
    BY <1>1, <1>7, <2>1, PureMove DEF ReadBlock, lockVars, FlagsOK
  <2>2. CASE "RW_NOSLEEP" \notin flags[p]
    BY <1>7, <2>2, ReadersMove DEF ReadBlock
  <2>3. QED
    BY <2>1, <2>2
<1>8. CASE ReadSetup(p)
  BY <1>1, <1>8, PureMove DEF ReadSetup, FlagsOK
<1>9. CASE ReadLoad(p)
  <2>1. PICK l \in {"r_sleep", "r_load2"} : Goto(p, l)
    BY <1>9 DEF ReadLoad
  <2>2. QED
    BY <1>1, <1>9, <2>1, PureMove DEF ReadLoad, FlagsOK
<1>10. CASE ReadLoadOwner(p)
  BY <1>1, <1>10, PureMove DEF ReadLoadOwner, FlagsOK
<1>11. CASE ReadWoken(p)
  <2>1. PICK l \in {"r_intr", "r_incr2"} : Goto(p, l)
    BY <1>11 DEF ReadWoken
  <2>2. QED
    BY <1>1, <1>11, <2>1, PureMove DEF ReadWoken, FlagsOK
<1>12. CASE ReadDec(p)
  <2>1. CASE pc[p] = "r_dec"
    BY <1>12, <2>1, ReadersMove DEF ReadDec
  <2>2. CASE pc[p] = "r_intr"
    BY <1>12, <2>2, ReadersMove DEF ReadDec
  <2>3. QED
    BY <1>12, <2>1, <2>2 DEF ReadDec
<1>13. QED
  BY <1>3, <1>4, <1>5, <1>6, <1>7, <1>8, <1>9, <1>10, <1>11, <1>12

(* The steps of rw_downgrade and rw_exited after the lock word is written. *)
LEMMA WakeStep ==
    ASSUME LockInv, NEW p \in Thread,
           DowngradeLoad(p) \/ DowngradeWake(p) \/ ExitedLoad(p) \/ ExitedWake(p)
    PROVE  LockInv'
<1> USE DEF WritePC, ReadPC, WriteWaitPC, ReadWaitPC, PC
<1>1. FlagsOK
  BY DEF LockInv, LockTypeOK, FlagsOK
<1>2. CASE DowngradeLoad(p)
  <2>1. PICK l \in {"d_readers", "d_wake", "read"} : Goto(p, l)
    BY <1>2 DEF DowngradeLoad
  <2>2. QED
    BY <1>1, <1>2, <2>1, PureMove DEF DowngradeLoad, FlagsOK
<1>3. CASE DowngradeWake(p)
  BY <1>1, <1>3, PureMove DEF DowngradeWake, FlagsOK
<1>4. CASE ExitedLoad(p)
  <2>1. PICK l \in {"x_wakeone", "x_readers", "x_wakeup", "idle"} : Goto(p, l)
    BY <1>4 DEF ExitedLoad
  <2>2. QED
    BY <1>1, <1>4, <2>1, PureMove DEF ExitedLoad, FlagsOK
<1>5. CASE ExitedWake(p)
  BY <1>1, <1>5, PureMove DEF ExitedWake, FlagsOK
<1>6. QED
  BY <1>2, <1>3, <1>4, <1>5

(* Every step of a thread keeps the invariant.                             *)
LEMMA LockNext == LockInv /\ [Next]_vars => LockInv'
<1> SUFFICES ASSUME LockInv, [Next]_vars PROVE LockInv'
  OBVIOUS
<1>1. CASE UNCHANGED vars
  BY <1>1, LockUnchanged DEF vars, lockVars
<1>2. ASSUME NEW p \in Thread, Start(p) PROVE LockInv'
  BY <1>2, EnterStep, HolderMove DEF Start
<1>3. ASSUME NEW p \in Thread, Go(p) PROVE LockInv'
  <2>1. CASE \/ SleepStep(p) /\ UNCHANGED <<lockVars, pc, flags>>
             \/ Userret(p)
    BY <2>1, LockUnchanged DEF Userret, lockVars
  <2>2. CASE ~(\/ SleepStep(p) /\ UNCHANGED <<lockVars, pc, flags>>
               \/ Userret(p))
    BY <1>3, <2>2, WriteStep, ReadStep, HolderMove, WakeStep DEF Go
  <2>3. QED
    BY <2>1, <2>2
<1>4. ASSUME NEW p \in Thread, NEW s \in Signals, Kill(p, s) PROVE LockInv'
  BY <1>4, LockUnchanged DEF Kill, lockVars
<1>5. QED
  BY <1>1, <1>2, <1>3, <1>4 DEF Next

(* Type correctness of the lock, the meaning of its word and of its two    *)
(* counters: kern_rwlock.c keeps them for any number of threads.           *)
THEOREM LockInvariant == Spec => []LockInv
<1>1. Init => LockInv
  BY LockInit
<1>2. LockInv /\ [Next]_vars => LockInv'
  BY LockNext
<1>3. QED
  BY <1>1, <1>2, PTL DEF Spec

(* The lock word names the only writer or counts the readers: no panic of  *)
(* rw_exit, rw_downgrade or rw_upgrade is reachable.                       *)
THEOREM LockWordCorrect == Spec => []OwnerWord
<1>1. LockInv => OwnerWord
  BY DEF LockInv
<1>2. QED
  BY <1>1, LockInvariant, PTL

(* rwl_waiters and rwl_readers are exact for every interleaving, so        *)
(* neither wraps below zero.                                               *)
THEOREM CountersCorrect == Spec => []WaitCounters
<1>1. LockInv => WaitCounters
  BY DEF LockInv
<1>2. QED
  BY <1>1, LockInvariant, PTL

(* The lock of kern_rwlock.c excludes: a writer is alone in it.            *)
THEOREM LockExcludes == Spec => []MutualExclusion
<1>1. LockInv => MutualExclusion
  BY DEF LockInv, OwnerWord, MutualExclusion
<1>2. QED
  BY <1>1, LockInvariant, PTL

-----------------------------------------------------------------------------
(* Refinement of RwLockSpec.  A step moves at most one thread; that the    *)
(* guards of the abstract step hold follows from mutual exclusion before   *)
(* and after it.                                                           *)

(* A step moves one thread, or none.                                       *)
LEMMA StepMoves ==
    ASSUME [Next]_vars
    PROVE  pc' = pc \/ \E p \in Thread, l \in PC : Goto(p, l)
<1> USE DEF PC, WritePC, ReadPC, WriteWaitPC, ReadWaitPC
<1>1. CASE UNCHANGED vars
  BY <1>1 DEF vars
<1>2. ASSUME NEW p \in Thread, Start(p)
      PROVE  pc' = pc \/ \E l \in PC : Goto(p, l)
  BY <1>2 DEF Start, EnterWrite, EnterRead, Downgrade, Upgrade
<1>3. ASSUME NEW p \in Thread, Go(p)
      PROVE  pc' = pc \/ \E l \in PC : Goto(p, l)
  <2>1. CASE \/ WriteCas(p) \/ WriteSpin(p) \/ WriteSetup(p) \/ WriteLoad(p)
             \/ WriteWoken(p) \/ WriteCas2(p) \/ WriteDec(p)
    BY <2>1 DEF WriteCas, WriteSpin, WriteSetup, WriteLoad, WriteWoken,
                WriteCas2, WriteDec, TryWrite
  <2>2. CASE \/ ReadCas(p) \/ ReadWaiters(p) \/ ReadIncr(p) \/ ReadBlock(p)
             \/ ReadSetup(p) \/ ReadLoad(p) \/ ReadLoadOwner(p)
             \/ ReadWoken(p) \/ ReadIncr2(p) \/ ReadDec(p)
    BY <2>2 DEF ReadCas, ReadWaiters, ReadIncr, ReadBlock, ReadSetup, ReadLoad,
                ReadLoadOwner, ReadWoken, ReadIncr2, ReadDec, rw_read_incr
  <2>3. CASE \/ DowngradeLoad(p) \/ DowngradeWake(p) \/ ExitWrite(p)
             \/ ExitRead(p) \/ ExitedLoad(p) \/ ExitedWake(p)
    BY <2>3 DEF DowngradeLoad, DowngradeWake, ExitWrite, ExitRead, ExitedLoad,
                ExitedWake
  <2>4. CASE \/ SleepStep(p) /\ UNCHANGED <<lockVars, pc, flags>>
             \/ Userret(p)
    BY <2>4 DEF Userret
  <2>5. QED
    BY <1>3, <2>1, <2>2, <2>3, <2>4 DEF Go
<1>4. ASSUME NEW p \in Thread, NEW s \in Signals, Kill(p, s)
      PROVE  pc' = pc
  BY <1>4 DEF Kill
<1>5. QED
  BY <1>1, <1>2, <1>3, <1>4 DEF Next

(* A move of one thread is a step of the abstract lock, or none.           *)
LEMMA MoveRefines ==
    ASSUME LockTypeOK, MutualExclusion, MutualExclusion',
           NEW p \in Thread, NEW l \in PC, Goto(p, l)
    PROVE  [Abs!Next]_Hold
<1> DEFINE Class(k) == IF k \in WritePC THEN "write"
                       ELSE IF k \in ReadPC THEN "read" ELSE "none"
<1>1. /\ pc \in [Thread -> PC]
      /\ pc' = [pc EXCEPT ![p] = l]
  BY DEF LockTypeOK, Goto
<1>2. /\ Hold = [q \in Thread |-> Class(pc[q])]
      /\ Hold' = [q \in Thread |-> Class(pc'[q])]
  BY DEF Hold, Writing, Reading
<1>3. Hold' = [Hold EXCEPT ![p] = Class(l)]
  BY <1>1, <1>2
<1>4. \A q \in Thread : q # p => Hold'[q] = Hold[q]
  BY <1>2, <1>3
<1>5. /\ Hold[p] \in {"none", "read", "write"}
      /\ Class(l) \in {"none", "read", "write"}
      /\ Hold'[p] = Class(l)
  BY <1>2, <1>3
<1>6. \A q, r \in Thread :
          Hold'[q] = "write" /\ Hold'[r] # "none" => q = r
  <2>1. \A q \in Thread : /\ Hold'[q] = "write" => q \in Writing'
                          /\ Hold'[q] # "none" => q \in Writing' \cup Reading'
    BY <1>2 DEF Writing, Reading
  <2>2. QED
    BY <2>1 DEF MutualExclusion
<1> HIDE DEF Class
<1>7. CASE Class(l) = Hold[p]
  BY <1>2, <1>3, <1>7
<1>8. CASE Hold[p] = "none" /\ Class(l) = "read"
  <2>1. \A q \in Thread : Hold[q] # "write"
    BY <1>4, <1>5, <1>6, <1>8
  <2>2. Abs!AcquireRead(p)
    BY <1>3, <1>8, <2>1 DEF Abs!AcquireRead
  <2>3. QED
    BY <2>2 DEF Abs!Next
<1>9. CASE Hold[p] # "write" /\ Class(l) = "write"
  <2>1. Abs!Alone(p)
    BY <1>4, <1>5, <1>6, <1>9 DEF Abs!Alone
  <2>2. Abs!AcquireWrite(p) \/ Abs!Upgrade(p)
    BY <1>3, <1>5, <1>9, <2>1 DEF Abs!AcquireWrite, Abs!Upgrade
  <2>3. QED
    BY <2>2 DEF Abs!Next
<1>10. CASE Hold[p] # "none" /\ Class(l) = "none"
  <2>1. Abs!Release(p)
    BY <1>3, <1>10 DEF Abs!Release
  <2>2. QED
    BY <2>1 DEF Abs!Next
<1>11. CASE Hold[p] = "write" /\ Class(l) = "read"
  <2>1. Abs!Downgrade(p)
    BY <1>3, <1>11 DEF Abs!Downgrade
  <2>2. QED
    BY <2>1 DEF Abs!Next
<1>12. QED
  BY <1>5, <1>7, <1>8, <1>9, <1>10, <1>11

(* kern_rwlock.c implements the abstract lock: every step of its code, the *)
(* sleeping and waking included, is a step of RwLockSpec or none.          *)
THEOREM LockRefines == Spec => ImplementsRwLockSpec
<1>1. Init => Abs!Init
  <2> SUFFICES ASSUME Init PROVE Abs!Init
    OBVIOUS
  <2>1. Writing = {} /\ Reading = {}
    BY DEF Init, Writing, Reading, WritePC, ReadPC
  <2>2. QED
    BY <2>1 DEF Abs!Init, Hold
<1>2. LockInv /\ MutualExclusion /\ MutualExclusion' /\ [Next]_vars
      => [Abs!Next]_Hold
  <2> SUFFICES ASSUME LockInv, MutualExclusion, MutualExclusion',
                      [Next]_vars
               PROVE  [Abs!Next]_Hold
    OBVIOUS
  <2>1. CASE pc' = pc
    BY <2>1 DEF Hold, Writing, Reading
  <2>2. CASE \E p \in Thread, l \in PC : Goto(p, l)
    BY <2>2, MoveRefines DEF LockInv
  <2>3. QED
    BY <2>1, <2>2, StepMoves
<1>3. QED
  BY <1>1, <1>2, LockInvariant, LockExcludes, PTL
     DEF Spec, ImplementsRwLockSpec, Abs!Spec

-----------------------------------------------------------------------------
(* Nobody is stranded, if no wait can be interrupted.  Once the lock is    *)
(* free, somebody is on the way for every thread that sleeps: for a writer *)
(* the thread that will wake one, or a writer that is awake and will take  *)
(* the lock; for a reader the thread that will wake all, or a writer.      *)

\* The thread will sleep, or sleeps, until it is taken off its queue.
Down(p) ==
    pc[p] \in {"w_sleep", "r_sleep"} /\ p_wchan[p] # NULL /\ sf[p].do_sleep

\* The writers between their rw_inc and the lock.
WantWrite == {"w_setup", "w_load", "w_sleep", "w_cas2"}

ForWriters(q) == pc[q] \in {"x_waiters", "x_wakeone"} \/ (pc[q] \in WantWrite /\ ~Down(q))
ForReaders(q) == pc[q] \in {"x_waiters", "x_readers", "x_wakeup"} \cup WantWrite

WritersHelped ==
    /\ rwl_owner = Unlocked
    /\ \E p \in Thread : pc[p] = "w_sleep" /\ Down(p)
    => \E q \in Thread : ForWriters(q)
ReadersHelped ==
    /\ rwl_owner = Unlocked
    /\ \E p \in Thread : pc[p] = "r_sleep" /\ Down(p)
    => \E q \in Thread : ForReaders(q)

\* Nothing but a wakeup ends a sleep.
Uninterrupted(p) ==
    /\ "RW_INTR" \notin flags[p] /\ "P_SINTR" \notin p_flag[p] /\ ~sf[p].catch
    /\ pc[p] \notin {"w_intr", "r_intr"}
    /\ sf[p].pc \notin {"check", "stopself", "recheck"}

\* The place in the lock's code and the place in the code of the sleep.
InSleep(p) ==
    /\ pc[p] \in {"w_load", "r_load", "r_load2"} <=> sf[p].pc = "setup"
    /\ pc[p] \in {"w_sleep", "r_sleep"} <=>
          sf[p].pc \in {"lock", "switched", "timeout", "done"}
    /\ pc[p] # "idle" => sf[p].pc \notin {"userstop", "userswtch"}
    /\ p_wchan[p] = "waiters" => pc[p] \in {"w_load", "w_sleep"}
    /\ p_wchan[p] = "readers" => pc[p] \in {"r_load", "r_load2", "r_sleep"}
    /\ p_wchan[p] # NULL => /\ sf[p].pc \in {"setup", "lock", "switched"}
                            /\ sf[p].pc = "switched" => sf[p].do_sleep
                            /\ p_stat[p] # "SRUN"

\* A thread is on the queue of its channel, once.
QueuesExact ==
    \A c \in Chan : /\ NoDup(slpque[c])
                    /\ Elements(slpque[c]) = {p \in Thread : p_wchan[p] = c}

SleepFrame == [pc : SleepPC, timed : BOOLEAN, do_sleep : BOOLEAN, catch : BOOLEAN,
               error : Error]
SleepShape ==
    /\ slpque \in [Chan -> Seq(Thread)]
    /\ p_wchan \in [Thread -> Chan \cup {NULL}]
    /\ p_stat \in [Thread -> Stat]
    /\ p_flag \in [Thread -> SUBSET Flag]
    /\ sf \in [Thread -> SleepFrame]

SleepersInv ==
    /\ SleepShape /\ QueuesExact
    /\ \A p \in Thread : Uninterrupted(p) /\ InSleep(p)

StrandInv == LockInv /\ SleepersInv /\ WritersHelped /\ ReadersHelped

\* The sleep of a thread is left as it is.
Alone(q) ==
    /\ p_wchan'[q] = p_wchan[q] /\ p_stat'[q] = p_stat[q] /\ p_flag'[q] = p_flag[q]
    /\ sf'[q] = sf[q]
AloneBut(p) == \A q \in Thread \ {p} : Alone(q)

-----------------------------------------------------------------------------
(* What the code of the sleep does to its thread.                          *)

\* The thread is put on the queue of the channel.
LEMMA SetupEffect ==
    ASSUME SleepShape, QueuesExact, NEW p \in Thread, NEW c \in Chan,
           sleep_setup(p, c, FALSE), p_wchan[p] = NULL
    PROVE  /\ SleepShape' /\ QueuesExact' /\ AloneBut(p)
           /\ p_wchan'[p] = c /\ p_stat'[p] # "SRUN"
           /\ p_flag'[p] = p_flag[p] \cup {"P_INSCHED"}
           /\ sf[p].pc = "run" /\ sf'[p].pc = "setup" /\ sf'[p].catch = sf[p].catch
<1> USE NULLAssumption
<1>1. /\ p_wchan' = [p_wchan EXCEPT ![p] = c]
      /\ slpque' = [slpque EXCEPT ![c] = Append(slpque[c], p)]
      /\ p_flag' = [p_flag EXCEPT ![p] = p_flag[p] \cup {"P_INSCHED"}]
      /\ sf[p].pc = "run" /\ sf' = [sf EXCEPT ![p].pc = "setup"]
  BY DEF sleep_setup, SleepShape
<1>2. /\ p_stat' \in [Thread -> Stat] /\ p_stat'[p] # "SRUN"
      /\ \A q \in Thread \ {p} : p_stat'[q] = p_stat[q]
  BY DEF sleep_setup, SleepShape, Stat
<1>3. sf' \in [Thread -> SleepFrame] /\ sf'[p].pc = "setup" /\ sf'[p].catch = sf[p].catch
      /\ \A q \in Thread \ {p} : sf'[q] = sf[q]
  BY <1>1 DEF SleepShape, SleepFrame, SleepPC
<1>4. /\ slpque[c] \in Seq(Thread) /\ NoDup(slpque[c]) /\ p \notin Elements(slpque[c])
      /\ Elements(slpque[c]) = {q \in Thread : p_wchan[q] = c}
  BY DEF SleepShape, QueuesExact
<1>5. /\ Append(slpque[c], p) \in Seq(Thread) /\ NoDup(Append(slpque[c], p))
      /\ Elements(Append(slpque[c], p)) = Elements(slpque[c]) \cup {p}
  BY <1>4, AppendFacts
<1>6. /\ p_wchan' \in [Thread -> Chan \cup {NULL}] /\ p_wchan'[p] = c
      /\ \A q \in Thread \ {p} : p_wchan'[q] = p_wchan[q]
  BY <1>1 DEF SleepShape
<1>7. /\ slpque' \in [Chan -> Seq(Thread)] /\ slpque'[c] = Append(slpque[c], p)
      /\ \A d \in Chan \ {c} : slpque'[d] = slpque[d]
  BY <1>1, <1>5 DEF SleepShape
<1>8. /\ p_flag' \in [Thread -> SUBSET Flag] /\ p_flag'[p] = p_flag[p] \cup {"P_INSCHED"}
      /\ \A q \in Thread \ {p} : p_flag'[q] = p_flag[q]
  BY <1>1 DEF SleepShape, Flag
<1>9. QueuesExact'
  <2>1. ASSUME NEW d \in Chan
        PROVE  NoDup(slpque'[d]) /\ Elements(slpque'[d]) = {q \in Thread : p_wchan'[q] = d}
    <3>1. CASE d = c
      <4>1. {q \in Thread : p_wchan'[q] = c} = {q \in Thread : p_wchan[q] = c} \cup {p}
        BY <1>6
      <4>2. QED
        BY <1>4, <1>5, <1>7, <3>1, <4>1
    <3>2. CASE d # c
      <4>1. {q \in Thread : p_wchan'[q] = d} = {q \in Thread : p_wchan[q] = d}
        BY <1>6, <3>2
      <4>2. QED
        BY <1>7, <3>2, <4>1 DEF QueuesExact
    <3>3. QED
      BY <3>1, <3>2
  <2>2. QED
    BY <2>1 DEF QueuesExact
<1>10. QED
  BY <1>1, <1>2, <1>3, <1>6, <1>7, <1>8, <1>9 DEF SleepShape, AloneBut, Alone

\* sleep_finish() is called; nothing is caught.
LEMMA FinishEffect ==
    ASSUME SleepShape, QueuesExact, NEW p \in Thread, NEW b \in BOOLEAN,
           sleep_finish(p, FALSE, b), "P_SINTR" \notin p_flag[p]
    PROVE  /\ SleepShape' /\ QueuesExact' /\ AloneBut(p)
           /\ UNCHANGED <<p_wchan, p_stat, p_flag>>
           /\ sf[p].pc = "setup" /\ sf'[p].pc = "lock" /\ sf'[p].do_sleep = b
           /\ ~sf'[p].catch
<1>1. UNCHANGED <<slpque, p_wchan, p_stat, p_flag>> /\ sf[p].pc = "setup"
  BY DEF sleep_finish
<1>2. /\ sf' \in [Thread -> SleepFrame] /\ sf'[p].pc = "lock" /\ sf'[p].do_sleep = b
      /\ ~sf'[p].catch /\ \A q \in Thread \ {p} : sf'[q] = sf[q]
  <2>1. sf' \in [Thread -> SleepFrame]
    BY DEF sleep_finish, SleepShape, SleepFrame, SleepPC, Error
  <2>2. /\ sf'[p].pc = IF "P_SINTR" \in p_flag[p] THEN "check" ELSE "lock"
        /\ sf'[p].do_sleep = b /\ (sf'[p].catch <=> "P_SINTR" \in p_flag[p])
        /\ \A q \in Thread \ {p} : sf'[q] = sf[q]
    BY DEF sleep_finish, SleepShape
  <2>3. QED
    BY <2>1, <2>2
<1>3. QED
  BY <1>1, <1>2 DEF SleepShape, QueuesExact, AloneBut, Alone

\* unsleep() takes the thread off the queue it is on.
LEMMA UnsleepShared ==
    ASSUME SleepShape, QueuesExact, NEW p \in Thread, unsleep(p)
    PROVE  /\ slpque' \in [Chan -> Seq(Thread)]
           /\ p_wchan' \in [Thread -> Chan \cup {NULL}]
           /\ QueuesExact' /\ p_wchan'[p] = NULL
           /\ \A q \in Thread \ {p} : p_wchan'[q] = p_wchan[q]
<1> USE NULLAssumption
<1>1. /\ p_wchan' \in [Thread -> Chan \cup {NULL}] /\ p_wchan'[p] = NULL
      /\ \A q \in Thread \ {p} : p_wchan'[q] = p_wchan[q]
  BY DEF unsleep, SleepShape
<1>2. CASE p_wchan[p] = NULL
  <2>1. slpque' = slpque /\ \A q \in Thread : p_wchan'[q] = p_wchan[q]
    BY <1>1, <1>2 DEF unsleep, UnsleepQueue
  <2>2. QED
    BY <1>1, <2>1 DEF SleepShape, QueuesExact
<1>3. CASE p_wchan[p] # NULL
  <2>1. PICK c \in Chan : c = p_wchan[p]
    BY <1>3 DEF SleepShape
  <2>2. slpque' = [slpque EXCEPT ![c] = Without(slpque[c], p)]
    BY <1>3, <2>1 DEF unsleep, UnsleepQueue
  <2>3. /\ slpque[c] \in Seq(Thread) /\ NoDup(slpque[c])
        /\ Elements(slpque[c]) = {q \in Thread : p_wchan[q] = c}
    BY DEF SleepShape, QueuesExact
  <2>4. /\ Without(slpque[c], p) \in Seq(Thread) /\ NoDup(Without(slpque[c], p))
        /\ Elements(Without(slpque[c], p)) = Elements(slpque[c]) \ {p}
    BY <2>3, WithoutFacts
  <2>5. /\ slpque' \in [Chan -> Seq(Thread)] /\ slpque'[c] = Without(slpque[c], p)
        /\ \A d \in Chan \ {c} : slpque'[d] = slpque[d]
    BY <2>2, <2>4 DEF SleepShape
  <2>6. ASSUME NEW d \in Chan
        PROVE  NoDup(slpque'[d]) /\ Elements(slpque'[d]) = {q \in Thread : p_wchan'[q] = d}
    <3>1. CASE d = c
      <4>1. {q \in Thread : p_wchan'[q] = c} = {q \in Thread : p_wchan[q] = c} \ {p}
        BY <1>1
      <4>2. QED
        BY <2>3, <2>4, <2>5, <3>1, <4>1
    <3>2. CASE d # c
      <4>1. {q \in Thread : p_wchan'[q] = d} = {q \in Thread : p_wchan[q] = d}
        BY <1>1, <2>1, <3>2
      <4>2. QED
        BY <2>5, <3>2, <4>1 DEF QueuesExact
    <3>3. QED
      BY <3>1, <3>2
  <2>7. QED
    BY <1>1, <2>5, <2>6 DEF QueuesExact
<1>4. QED
  BY <1>2, <1>3

\* A step of sleep_finish() that the thread takes: it leaves the queue only
\* if it was not to sleep, or was woken before.
LEMMA SleepStepEffect ==
    ASSUME SleepShape, QueuesExact, NEW p \in Thread, Uninterrupted(p), InSleep(p),
           SleepStep(p)
    PROVE  /\ SleepShape' /\ QueuesExact' /\ AloneBut(p)
           /\ "P_SINTR" \notin p_flag'[p] /\ ~sf'[p].catch
           /\ sf'[p].do_sleep = sf[p].do_sleep
           /\ \/ sf[p].pc = "userswtch" /\ sf'[p].pc = "run"
              \/ /\ sf[p].pc \in {"lock", "switched", "timeout", "done"}
                 /\ sf'[p].pc \in {"switched", "timeout", "done"}
           /\ \/ p_wchan'[p] = p_wchan[p]
              \/ p_wchan'[p] = NULL /\ ~sf[p].do_sleep
           /\ p_wchan'[p] # NULL =>
                 sf'[p].pc = "switched" /\ sf'[p].do_sleep /\ p_stat'[p] # "SRUN"
<1>1. CASE FinishLocked(p)
  <2>1. /\ sf[p].pc = "lock"
        /\ IF sf[p].do_sleep /\ p_wchan[p] # NULL THEN UNCHANGED <<slpque, p_wchan>>
           ELSE unsleep(p)
    BY <1>1 DEF FinishLocked
  <2>2. PICK l \in {"switched", "timeout"} :
           /\ sf' = [sf EXCEPT ![p].pc = l]
           /\ sf[p].do_sleep /\ p_wchan[p] # NULL => l = "switched"
    BY <1>1 DEF FinishLocked
  <2>3. /\ sf' \in [Thread -> SleepFrame] /\ sf'[p].pc = l
        /\ sf'[p].do_sleep = sf[p].do_sleep /\ sf'[p].catch = sf[p].catch
        /\ \A q \in Thread \ {p} : sf'[q] = sf[q]
    BY <2>2 DEF SleepShape, SleepFrame, SleepPC
  <2>4. /\ p_stat' \in [Thread -> Stat] /\ p_stat'[p] # "SRUN"
        /\ \A q \in Thread \ {p} : p_stat'[q] = p_stat[q]
    BY <1>1 DEF FinishLocked, SleepShape, Stat
  <2>5. /\ p_flag' \in [Thread -> SUBSET Flag] /\ p_flag'[p] \subseteq p_flag[p]
        /\ \A q \in Thread \ {p} : p_flag'[q] = p_flag[q]
    BY <1>1 DEF FinishLocked, SleepShape, Flag
  <2>6. /\ slpque' \in [Chan -> Seq(Thread)]
        /\ p_wchan' \in [Thread -> Chan \cup {NULL}] /\ QueuesExact'
        /\ \A q \in Thread \ {p} : p_wchan'[q] = p_wchan[q]
        /\ p_wchan'[p] = IF sf[p].do_sleep /\ p_wchan[p] # NULL THEN p_wchan[p] ELSE NULL
    <3>1. CASE sf[p].do_sleep /\ p_wchan[p] # NULL
      BY <2>1, <3>1 DEF SleepShape, QueuesExact
    <3>2. CASE ~(sf[p].do_sleep /\ p_wchan[p] # NULL)
      BY <2>1, <3>2, UnsleepShared
    <3>3. QED
      BY <3>1, <3>2
  <2>7. SleepShape' /\ AloneBut(p)
    BY <2>3, <2>4, <2>5, <2>6 DEF SleepShape, AloneBut, Alone
  <2>8. "P_SINTR" \notin p_flag'[p] /\ ~sf'[p].catch
    BY <2>3, <2>5 DEF Uninterrupted
  <2>9. QED
    BY <2>1, <2>2, <2>3, <2>4, <2>6, <2>7, <2>8
<1>2. CASE Switchto(p)
  <2>1. /\ sf[p].pc \in {"switched", "userswtch"} /\ p_stat[p] = "SRUN"
        /\ p_stat' = [p_stat EXCEPT ![p] = "SONPROC"]
        /\ sf' = [sf EXCEPT ![p].pc = IF sf[p].pc = "switched" THEN "timeout" ELSE "run"]
        /\ UNCHANGED <<slpque, p_wchan, p_flag>>
    BY <1>2 DEF Switchto, SleepShape
  <2>2. /\ sf' \in [Thread -> SleepFrame]
        /\ sf'[p].pc = IF sf[p].pc = "switched" THEN "timeout" ELSE "run"
        /\ sf'[p].do_sleep = sf[p].do_sleep /\ sf'[p].catch = sf[p].catch
        /\ \A q \in Thread \ {p} : sf'[q] = sf[q]
    BY <2>1 DEF SleepShape, SleepFrame, SleepPC
  <2>3. p_stat' \in [Thread -> Stat] /\ \A q \in Thread \ {p} : p_stat'[q] = p_stat[q]
    BY <2>1 DEF SleepShape, Stat
  <2>4. p_wchan[p] = NULL
    BY <2>1 DEF InSleep
  <2>5. SleepShape' /\ QueuesExact' /\ AloneBut(p)
    BY <2>1, <2>2, <2>3 DEF SleepShape, QueuesExact, AloneBut, Alone
  <2>6. QED
    BY <2>1, <2>2, <2>4, <2>5 DEF Uninterrupted
<1>3. CASE CancelTimeout(p)
  <2>1. sf[p].pc = "timeout" /\ UNCHANGED <<slpque, p_wchan, p_stat>>
    BY <1>3 DEF CancelTimeout
  <2>2. /\ sf' \in [Thread -> SleepFrame] /\ sf'[p].pc = "done"
        /\ sf'[p].do_sleep = sf[p].do_sleep /\ sf'[p].catch = sf[p].catch
        /\ \A q \in Thread \ {p} : sf'[q] = sf[q]
    <3>1. ~sf[p].catch /\ AfterTimeout(p) = "done"
      BY DEF Uninterrupted, AfterTimeout
    <3>2. CASE sf' = [sf EXCEPT ![p].pc = AfterTimeout(p)]
      BY <3>1, <3>2 DEF SleepShape, SleepFrame, SleepPC
    <3>3. CASE \E e \in Error :
                  sf' = [sf EXCEPT ![p] = [sf[p] EXCEPT !.pc = AfterTimeout(p), !.error = e]]
      <4>1. PICK e \in Error :
               sf' = [sf EXCEPT ![p] = [sf[p] EXCEPT !.pc = "done", !.error = e]]
        BY <3>1, <3>3
      <4>2. sf[p] \in SleepFrame /\ "done" \in SleepPC
        BY DEF SleepShape, SleepPC
      <4>3. /\ [sf[p] EXCEPT !.pc = "done", !.error = e] \in SleepFrame
            /\ [sf[p] EXCEPT !.pc = "done", !.error = e].pc = "done"
            /\ [sf[p] EXCEPT !.pc = "done", !.error = e].do_sleep = sf[p].do_sleep
            /\ [sf[p] EXCEPT !.pc = "done", !.error = e].catch = sf[p].catch
        BY <4>2 DEF SleepFrame
      <4>4. /\ sf'[p] = [sf[p] EXCEPT !.pc = "done", !.error = e]
            /\ \A q \in Thread \ {p} : sf'[q] = sf[q] /\ sf[q] \in SleepFrame
            /\ sf' = [q \in Thread |-> sf'[q]]
        BY <4>1 DEF SleepShape
      <4>5. QED
        BY <4>3, <4>4
    <3>4. \/ sf' = [sf EXCEPT ![p].pc = AfterTimeout(p)]
          \/ sf' = [sf EXCEPT ![p] =
                [sf[p] EXCEPT !.pc = AfterTimeout(p),
                              !.error = IF sf[p].error = "0" /\ "P_TIMEOUT" \in p_flag[p]
                                        THEN "EWOULDBLOCK" ELSE sf[p].error]]
      BY <1>3 DEF CancelTimeout, SleepShape
    <3>5. sf[p].error \in Error /\ "EWOULDBLOCK" \in Error
      BY DEF SleepShape, SleepFrame, Error
    <3>6. QED
      BY <3>2, <3>3, <3>4, <3>5
  <2>3. /\ p_flag' \in [Thread -> SUBSET Flag] /\ p_flag'[p] \subseteq p_flag[p]
        /\ \A q \in Thread \ {p} : p_flag'[q] = p_flag[q]
    <3>1. PICK D : p_flag' = [p_flag EXCEPT ![p] = p_flag[p] \ D]
      BY <1>3 DEF CancelTimeout
    <3>2. QED
      BY <3>1 DEF SleepShape
  <2>4. p_wchan[p] = NULL
    BY <2>1 DEF InSleep
  <2>5. SleepShape' /\ QueuesExact' /\ AloneBut(p)
    BY <2>1, <2>2, <2>3 DEF SleepShape, QueuesExact, AloneBut, Alone
  <2>6. QED
    BY <2>1, <2>2, <2>3, <2>4, <2>5 DEF Uninterrupted
<1>4. CASE CheckBefore(p) \/ StopSelf(p) \/ CheckAfter(p)
  BY <1>4 DEF CheckBefore, StopSelf, CheckAfter, Uninterrupted
<1>5. QED
  BY <1>1, <1>2, <1>3, <1>4 DEF SleepStep

\* sleep_finish() returns.
LEMMA ReturnedEffect ==
    ASSUME SleepShape, QueuesExact, NEW p \in Thread, SleepReturned(p)
    PROVE  /\ SleepShape' /\ QueuesExact' /\ AloneBut(p)
           /\ UNCHANGED <<p_wchan, p_stat, p_flag>>
           /\ sf[p].pc = "done" /\ sf'[p].pc = "run" /\ ~sf'[p].catch
<1>1. /\ UNCHANGED <<slpque, p_wchan, p_stat, p_flag>> /\ sf[p].pc = "done"
      /\ sf' = [sf EXCEPT ![p] = [pc |-> "run", timed |-> FALSE, do_sleep |-> FALSE,
                                  catch |-> FALSE, error |-> "0"]]
  BY DEF SleepReturned
<1>2. /\ sf' \in [Thread -> SleepFrame] /\ sf'[p].pc = "run" /\ ~sf'[p].catch
      /\ \A q \in Thread \ {p} : sf'[q] = sf[q]
  BY <1>1 DEF SleepShape, SleepFrame, SleepPC, Error
<1>3. QED
  BY <1>1, <1>2 DEF SleepShape, QueuesExact, AloneBut, Alone

\* The threads that wakeup_n() takes off the queue q.
Woken(q, n) == {q[i] : i \in 1 .. (IF n < 0 \/ n > Len(q) THEN Len(q) ELSE n)}

\* They are all, or the first, and the rest stays.
LEMMA WakeqFacts ==
    ASSUME NEW q \in Seq(Thread), NoDup(q), NEW n \in {1, -1}, NEW W, W = Woken(q, n)
    PROVE  /\ W \subseteq Elements(q) /\ (q # <<>> => W # {})
           /\ n = -1 => W = Elements(q)
           /\ SubSeq(q, Cardinality(W) + 1, Len(q)) \in Seq(Thread)
           /\ NoDup(SubSeq(q, Cardinality(W) + 1, Len(q)))
           /\ Elements(SubSeq(q, Cardinality(W) + 1, Len(q))) = Elements(q) \ W
<1>1. Len(q) \in Nat /\ (q # <<>> => Len(q) >= 1) /\ (q = <<>> => Len(q) = 0)
  OBVIOUS
<1>2. PICK m \in 0 .. Len(q) :
         /\ W = {q[i] : i \in 1 .. m} /\ (n = -1 => m = Len(q))
         /\ (q # <<>> => m >= 1)
  BY <1>1 DEF Woken
<1>3. Cardinality(W) = m
  <2>1. [i \in 1 .. m |-> q[i]] \in Bijection(1 .. m, W)
    <3>1. \A i, j \in 1 .. m : q[i] = q[j] => i = j
      BY <1>1, <1>2 DEF NoDup
    <3>2. QED
      BY <1>2, <3>1 DEF Bijection, Injection, IsInjective, Surjection
  <2>2. IsFiniteSet(1 .. m) /\ Cardinality(1 .. m) = m
    BY <1>2, FS_Interval
  <2>3. ExistsBijection(1 .. m, W)
    BY <2>1 DEF ExistsBijection
  <2>4. QED
    BY <2>2, <2>3, FS_Bijection
<1>4. PICK r : r = SubSeq(q, m + 1, Len(q))
  OBVIOUS
<1>5. r \in Seq(Thread) /\ Len(r) = Len(q) - m /\ \A j \in 1 .. Len(q) - m : r[j] = q[m + j]
  <2>1. \A j \in m + 1 .. Len(q) : q[j] \in Thread
    BY <1>1, <1>2
  <2>2. /\ r \in Seq(Thread) /\ Len(r) = IF m + 1 <= Len(q) THEN Len(q) - (m + 1) + 1 ELSE 0
        /\ \A j \in 1 .. Len(q) - (m + 1) + 1 : r[j] = q[m + 1 + j - 1]
    BY <1>1, <1>2, <1>4, <2>1, SubSeqProperties
  <2>3. QED
    BY <1>1, <1>2, <2>2
<1>6. NoDup(r)
  <2> SUFFICES ASSUME NEW j \in 1 .. Len(q) - m, NEW k \in 1 .. Len(q) - m, r[j] = r[k]
               PROVE  j = k
    BY <1>5 DEF NoDup
  <2>1. q[m + j] = q[m + k] /\ m + j \in 1 .. Len(q) /\ m + k \in 1 .. Len(q)
    BY <1>1, <1>2, <1>5
  <2>2. m + j = m + k
    BY <2>1 DEF NoDup
  <2>3. QED
    BY <1>2, <2>2
<1>7. Elements(r) = Elements(q) \ W
  <2>1. Elements(r) = {r[j] : j \in 1 .. Len(q) - m}
    BY <1>5 DEF Elements
  <2>2. \A j \in 1 .. Len(q) - m :
           /\ r[j] = q[m + j] /\ m + j \in 1 .. Len(q)
           /\ \A i \in 1 .. m : i \in 1 .. Len(q) /\ i # m + j
    BY <1>1, <1>2, <1>5
  <2>3. \A j \in 1 .. Len(q) - m : r[j] \in Elements(q) \ W
    BY <1>2, <2>2 DEF Elements, NoDup
  <2>4. \A i \in 1 .. Len(q) : i \notin 1 .. m => i - m \in 1 .. Len(q) - m /\ r[i - m] = q[i]
    BY <1>1, <1>2, <1>5
  <2>5. \A i \in 1 .. Len(q) : q[i] \notin W => q[i] \in Elements(r)
    BY <1>2, <2>1, <2>4
  <2>6. QED
    BY <2>1, <2>3, <2>5 DEF Elements
<1>8. W \subseteq Elements(q) /\ (q # <<>> => W # {}) /\ (n = -1 => W = Elements(q))
  <2>1. \A i \in 1 .. m : i \in 1 .. Len(q)
    BY <1>1, <1>2
  <2>2. q # <<>> => 1 \in 1 .. m
    BY <1>2
  <2>3. QED
    BY <1>2, <2>1, <2>2 DEF Elements
<1>9. QED
  BY <1>3, <1>4, <1>5, <1>6, <1>7, <1>8

\* wakeup_one() and wakeup() on a channel: who was woken is off the queue.
LEMMA WakeupShared ==
    ASSUME SleepShape, QueuesExact, NEW c \in Chan, NEW n \in {1, -1}, wakeup_n(c, n)
    PROVE  /\ SleepShape' /\ QueuesExact' /\ UNCHANGED <<p_flag, sf>>
           /\ \A q \in Thread : \/ p_wchan'[q] = p_wchan[q] /\ p_stat'[q] = p_stat[q]
                                \/ p_wchan[q] = c /\ p_wchan'[q] = NULL
           /\ n = -1 => \A q \in Thread : p_wchan'[q] # c
           /\ \/ \A q \in Thread : p_wchan[q] # c
              \/ \E q \in Thread : p_wchan[q] = c /\ p_wchan'[q] = NULL
<1> USE NULLAssumption
<1>1. PICK W, m : W = Wakeq(c, n) /\ m = Cardinality(W)
  OBVIOUS
<1>2. /\ slpque' = [slpque EXCEPT ![c] = SubSeq(slpque[c], m + 1, Len(slpque[c]))]
      /\ p_wchan' = [q \in Thread |-> IF q \in W THEN NULL ELSE p_wchan[q]]
      /\ p_stat' = [q \in Thread |->
             IF q \notin W \/ p_stat[q] = "SSTOP" THEN p_stat[q]
             ELSE IF p_stat[q] = "SSLEEP" THEN Setrunnable(q, NULL) ELSE "PANIC"]
      /\ UNCHANGED <<p_flag, sf>>
  BY <1>1 DEF wakeup_n
<1>3. PICK s \in Seq(Thread) : s = slpque[c]
  BY DEF SleepShape
<1>4. NoDup(s) /\ Elements(s) = {q \in Thread : p_wchan[q] = c}
  BY <1>3 DEF QueuesExact
<1>5. W = Woken(s, n)
  BY <1>1, <1>3 DEF Wakeq, Woken
<1>6. /\ W \subseteq Elements(s) /\ (s # <<>> => W # {})
      /\ n = -1 => W = Elements(s)
      /\ SubSeq(s, Cardinality(W) + 1, Len(s)) \in Seq(Thread)
      /\ NoDup(SubSeq(s, Cardinality(W) + 1, Len(s)))
      /\ Elements(SubSeq(s, Cardinality(W) + 1, Len(s))) = Elements(s) \ W
  BY <1>4, <1>5, WakeqFacts
<1>7. PICK r \in Seq(Thread) :
         r = SubSeq(s, m + 1, Len(s)) /\ NoDup(r) /\ Elements(r) = Elements(s) \ W
  BY <1>1, <1>6
<1>8. /\ slpque' \in [Chan -> Seq(Thread)] /\ slpque'[c] = r
      /\ \A d \in Chan \ {c} : slpque'[d] = slpque[d]
  BY <1>2, <1>3, <1>7 DEF SleepShape
<1>9. /\ p_wchan' \in [Thread -> Chan \cup {NULL}]
      /\ \A q \in W : q \in Thread /\ p_wchan[q] = c /\ p_wchan'[q] = NULL
      /\ \A q \in Thread \ W : p_wchan'[q] = p_wchan[q] /\ p_stat'[q] = p_stat[q]
  BY <1>2, <1>4, <1>6 DEF SleepShape
<1>10. \A q \in Thread : Setrunnable(q, NULL) \in Stat
  BY DEF Setrunnable, Stat
<1>11. p_stat' \in [Thread -> Stat]
  BY <1>2, <1>10 DEF SleepShape, Stat
<1>12. QueuesExact'
  <2>1. ASSUME NEW d \in Chan
        PROVE  NoDup(slpque'[d]) /\ Elements(slpque'[d]) = {q \in Thread : p_wchan'[q] = d}
    <3>1. CASE d = c
      <4>1. {q \in Thread : p_wchan'[q] = c} = {q \in Thread : p_wchan[q] = c} \ W
        BY <1>9
      <4>2. QED
        BY <1>4, <1>7, <1>8, <3>1, <4>1
    <3>2. CASE d # c
      <4>1. {q \in Thread : p_wchan'[q] = d} = {q \in Thread : p_wchan[q] = d}
        BY <1>9, <3>2
      <4>2. QED
        BY <1>8, <3>2, <4>1 DEF QueuesExact
    <3>3. QED
      BY <3>1, <3>2
  <2>2. QED
    BY <2>1 DEF QueuesExact
<1>13. SleepShape'
  BY <1>2, <1>8, <1>9, <1>11 DEF SleepShape
<1>14. n = -1 => \A q \in Thread : p_wchan'[q] # c
  BY <1>4, <1>6, <1>9
<1>15. \/ \A q \in Thread : p_wchan[q] # c
       \/ \E q \in Thread : p_wchan[q] = c /\ p_wchan'[q] = NULL
  <2>1. CASE s = <<>>
    <3>1. Len(s) = 0 /\ Elements(s) = {}
      BY <2>1 DEF Elements
    <3>2. QED
      BY <1>4, <3>1
  <2>2. CASE s # <<>>
    BY <1>6, <1>9, <2>2
  <2>3. QED
    BY <2>1, <2>2
<1>16. QED
  BY <1>2, <1>9, <1>12, <1>13, <1>14, <1>15

\* A signal to a thread that cannot be interrupted leaves it on its queue.
LEMMA SignalIgnored ==
    ASSUME SleepShape, QueuesExact, NEW p \in Thread, Uninterrupted(p), NEW s \in Signal,
           ptsignal(p, s)
    PROVE  /\ SleepShape' /\ QueuesExact' /\ AloneBut(p)
           /\ UNCHANGED <<slpque, p_wchan, sf>> /\ "P_SINTR" \notin p_flag'[p]
           /\ p_stat'[p] = "SRUN" => p_stat[p] = "SRUN" \/ p_wchan[p] = NULL
<1>1. "P_SINTR" \notin p_flag[p] /\ UNCHANGED sf
  BY DEF Uninterrupted, ptsignal
<1>2. CASE UNCHANGED <<slpque, p_wchan, p_stat, p_flag>>
  BY <1>1, <1>2 DEF SleepShape, QueuesExact, AloneBut, Alone
<1>3. CASE process_continue(p) /\ UNCHANGED <<slpque, p_wchan>>
  <2>1. /\ p_flag' \in [Thread -> SUBSET Flag] /\ p_flag'[p] \subseteq p_flag[p]
        /\ \A q \in Thread \ {p} : p_flag'[q] = p_flag[q]
    BY <1>3 DEF process_continue, SleepShape
  <2>2. Setrunnable(p, NULL) \in Stat /\ "SSLEEP" \in Stat
    BY DEF Setrunnable, Stat
  <2>3. \/ p_stat' = p_stat
        \/ /\ p_wchan[p] = NULL
           /\ p_stat' = [p_stat EXCEPT ![p] = Setrunnable(p, NULL)]
        \/ /\ p_wchan[p] # NULL
           /\ p_stat' = [p_stat EXCEPT ![p] = "SSLEEP"]
    BY <1>3 DEF process_continue
  <2>4. /\ p_stat' \in [Thread -> Stat] /\ \A q \in Thread \ {p} : p_stat'[q] = p_stat[q]
        /\ p_stat'[p] = "SRUN" => p_stat[p] = "SRUN" \/ p_wchan[p] = NULL
    BY <2>2, <2>3 DEF SleepShape
  <2>5. QED
    BY <1>1, <1>3, <2>1, <2>4 DEF SleepShape, QueuesExact, AloneBut, Alone
<1>4. \/ UNCHANGED <<slpque, p_wchan, p_stat, p_flag>>
      \/ process_continue(p) /\ UNCHANGED <<slpque, p_wchan>>
  BY <1>1 DEF ptsignal, SignalSleeping, SignalStopped
<1>5. QED
  BY <1>2, <1>3, <1>4

\* The return to user mode.
LEMMA UserretEffect ==
    ASSUME SleepShape, QueuesExact, NEW p \in Thread, UserretStep(p)
    PROVE  /\ SleepShape' /\ QueuesExact' /\ AloneBut(p)
           /\ UNCHANGED <<slpque, p_wchan>>
           /\ p_flag'[p] \subseteq p_flag[p] \cup {"P_SUSPSIG", "P_INSCHED"}
           /\ sf[p].pc \in {"run", "userstop"}
           /\ sf'[p].pc \in {"run", "userstop", "userswtch"} /\ sf'[p].catch = sf[p].catch
<1>1. CASE UserretSignal(p)
  <2>1. PICK l \in {"run", "userstop"} : sf' = [sf EXCEPT ![p].pc = l]
    <3>1. sf = [sf EXCEPT ![p].pc = "run"]
      BY <1>1 DEF UserretSignal, SleepShape, SleepFrame
    <3>2. QED
      BY <1>1, <3>1 DEF UserretSignal
  <2>2. /\ sf' \in [Thread -> SleepFrame] /\ sf'[p].pc = l /\ sf'[p].catch = sf[p].catch
        /\ \A q \in Thread \ {p} : sf'[q] = sf[q]
    BY <2>1 DEF SleepShape, SleepFrame, SleepPC
  <2>3. sf[p].pc = "run" /\ UNCHANGED <<slpque, p_wchan, p_stat, p_flag>>
    BY <1>1 DEF UserretSignal
  <2>4. QED
    BY <2>2, <2>3 DEF SleepShape, QueuesExact, AloneBut, Alone
<1>2. CASE UserretStop(p)
  <2>1. /\ sf[p].pc = "userstop" /\ UNCHANGED <<slpque, p_wchan, sf>>
        /\ p_flag' = [p_flag EXCEPT ![p] = p_flag[p] \cup {"P_SUSPSIG", "P_INSCHED"}]
    BY <1>2 DEF UserretStop, SleepShape
  <2>2. p_stat' \in [Thread -> Stat] /\ \A q \in Thread \ {p} : p_stat'[q] = p_stat[q]
    BY <1>2 DEF UserretStop, SleepShape, Stat
  <2>3. /\ p_flag' \in [Thread -> SUBSET Flag]
        /\ p_flag'[p] = p_flag[p] \cup {"P_SUSPSIG", "P_INSCHED"}
        /\ \A q \in Thread \ {p} : p_flag'[q] = p_flag[q]
    BY <2>1 DEF SleepShape, Flag
  <2>4. QED
    BY <2>1, <2>2, <2>3 DEF SleepShape, QueuesExact, AloneBut, Alone
<1>3. CASE UserretSwitch(p)
  <2>1. PICK l \in {"run", "userswtch"} : sf' = [sf EXCEPT ![p].pc = l]
    BY <1>3 DEF UserretSwitch
  <2>2. /\ sf' \in [Thread -> SleepFrame] /\ sf'[p].pc = l /\ sf'[p].catch = sf[p].catch
        /\ \A q \in Thread \ {p} : sf'[q] = sf[q]
    BY <2>1 DEF SleepShape, SleepFrame, SleepPC
  <2>3. sf[p].pc = "userstop" /\ UNCHANGED <<slpque, p_wchan>>
    BY <1>3 DEF UserretSwitch
  <2>4. p_stat' \in [Thread -> Stat] /\ \A q \in Thread \ {p} : p_stat'[q] = p_stat[q]
    BY <1>3 DEF UserretSwitch, SleepShape, Stat
  <2>5. /\ p_flag' \in [Thread -> SUBSET Flag] /\ p_flag'[p] \subseteq p_flag[p]
        /\ \A q \in Thread \ {p} : p_flag'[q] = p_flag[q]
    BY <1>3 DEF UserretSwitch, SleepShape
  <2>6. QED
    BY <2>2, <2>3, <2>4, <2>5 DEF SleepShape, QueuesExact, AloneBut, Alone
<1>4. QED
  BY <1>1, <1>2, <1>3 DEF UserretStep

-----------------------------------------------------------------------------
(* The counters tell who waits.                                            *)

\* rwl_waiters is 0 only if no writer waits; on a free lock a writer that is
\* counted wants the lock.
LEMMA WaitersTell ==
    ASSUME StrandInv
    PROVE  /\ rwl_waiters = 0 => \A q \in Thread : pc[q] \notin WriteWaitPC
           /\ rwl_waiters # 0 /\ rwl_owner = Unlocked => \E q \in Thread : pc[q] \in WantWrite
<1>1. LockInv /\ \A q \in Thread : pc[q] # "w_intr"
  BY DEF StrandInv, SleepersInv, Uninterrupted
<1>2. PICK S : S = {q \in Thread : pc[q] \in WriteWaitPC}
  OBVIOUS
<1>3. rwl_waiters = Cardinality(S) /\ IsFiniteSet(S)
  BY <1>1, <1>2, FS_Subset, ThreadAssumption DEF LockInv, WaitCounters
<1>4. Cardinality(S) = 0 <=> S = {}
  BY <1>3, FS_EmptySet
<1>5. ASSUME rwl_waiters # 0, rwl_owner = Unlocked
      PROVE  \E q \in Thread : pc[q] \in WantWrite
  <2>1. PICK q \in Thread : pc[q] \in WriteWaitPC
    BY <1>2, <1>3, <1>4, <1>5
  <2>2. pc[q] # "w_dec"
    BY <1>1, <1>5, FreeIsEmpty DEF Writing, WritePC
  <2>3. QED
    BY <1>1, <2>1, <2>2 DEF WriteWaitPC, WantWrite
<1>6. QED
  BY <1>2, <1>3, <1>4, <1>5

\* rwl_readers is 0 only if no reader waits.
LEMMA ReadersTell ==
    ASSUME LockInv, rwl_readers = 0
    PROVE  \A q \in Thread : pc[q] \notin ReadWaitPC
<1>1. PICK S : S = {q \in Thread : pc[q] \in ReadWaitPC}
  OBVIOUS
<1>2. 0 = Cardinality(S) /\ IsFiniteSet(S)
  BY <1>1, FS_Subset, ThreadAssumption DEF LockInv, WaitCounters
<1>3. S = {}
  BY <1>2, FS_EmptySet
<1>4. QED
  BY <1>1, <1>3

-----------------------------------------------------------------------------
(* A step of one thread.                                                   *)

\* The other threads stay where they are.
Elsewhere(p) ==
    \A q \in Thread \ {p} : Alone(q) /\ pc'[q] = pc[q] /\ flags'[q] = flags[q]

\* What the step does for those who sleep: if the lock is free after it, the
\* thread has not gone to sleep, unless as a reader while a writer waits, and
\* it helps the sleepers as before, or there are none, or a writer does.
HelpKept(p) ==
    rwl_owner' = Unlocked =>
        /\ rwl_owner = Unlocked \/ pc'[p] = "x_waiters"
        /\ pc'[p] = "w_sleep" /\ Down(p)' => pc[p] = "w_sleep" /\ Down(p)
        /\ pc'[p] = "r_sleep" /\ Down(p)' =>
              \/ pc[p] = "r_sleep" /\ Down(p)
              \/ \E q \in Thread \ {p} : pc[q] \in WantWrite
        /\ ForWriters(p) => ForWriters(p)' \/ \A q \in Thread \ {p} : pc[q] # "w_sleep"
        /\ ForReaders(p) => \/ ForReaders(p)'
                            \/ \E q \in Thread \ {p} : pc[q] \in WantWrite
                            \/ \A q \in Thread \ {p} : pc[q] # "r_sleep"

\* Such a step keeps the invariant.
LEMMA StepKeeps ==
    ASSUME StrandInv, LockInv', NEW p \in Thread, Elsewhere(p), SleepShape', QueuesExact',
           Uninterrupted(p)', InSleep(p)', HelpKept(p)
    PROVE  StrandInv'
<1>1. ASSUME NEW q \in Thread \ {p}
      PROVE  /\ Uninterrupted(q)' /\ InSleep(q)' /\ (Down(q)' <=> Down(q))
             /\ pc'[q] = pc[q]
             /\ (ForWriters(q)' <=> ForWriters(q)) /\ (ForReaders(q)' <=> ForReaders(q))
  <2>1. /\ pc'[q] = pc[q] /\ flags'[q] = flags[q] /\ p_wchan'[q] = p_wchan[q]
        /\ p_stat'[q] = p_stat[q] /\ p_flag'[q] = p_flag[q] /\ sf'[q] = sf[q]
    BY DEF Elsewhere, Alone
  <2>2. Uninterrupted(q) /\ InSleep(q)
    BY DEF StrandInv, SleepersInv
  <2>3. Uninterrupted(q)'
    BY <2>1, <2>2 DEF Uninterrupted
  <2>4. InSleep(q)'
    BY <2>1, <2>2 DEF InSleep
  <2>5. Down(q)' <=> Down(q)
    BY <2>1 DEF Down
  <2>6. QED
    BY <2>1, <2>3, <2>4, <2>5 DEF ForWriters, ForReaders
<1>2. SleepersInv'
  BY <1>1 DEF SleepersInv
<1>3. WritersHelped'
  <2> SUFFICES ASSUME rwl_owner' = Unlocked', NEW r \in Thread, pc'[r] = "w_sleep", Down(r)'
               PROVE  \E q \in Thread : ForWriters(q)'
    BY DEF WritersHelped
  <2>1. rwl_owner' = Unlocked
    BY DEF Unlocked, Readers
  <2>2. CASE rwl_owner # Unlocked
    <3>1. pc'[p] = "x_waiters"
      BY <2>1, <2>2 DEF HelpKept
    <3>2. ForWriters(p)'
      BY <3>1 DEF ForWriters
    <3>3. QED
      BY <3>2
  <2>3. CASE rwl_owner = Unlocked
    <3>1. pc[r] = "w_sleep" /\ Down(r)
      <4>1. CASE r = p
        BY <2>1, <4>1 DEF HelpKept
      <4>2. CASE r # p
        BY <1>1, <4>2
      <4>3. QED
        BY <4>1, <4>2
    <3>2. PICK q \in Thread : ForWriters(q)
      BY <2>3, <3>1 DEF StrandInv, WritersHelped
    <3>3. CASE q # p
      BY <1>1, <3>2, <3>3
    <3>4. CASE q = p
      <4>1. ForWriters(p)' \/ \A u \in Thread \ {p} : pc[u] # "w_sleep"
        BY <2>1, <3>2, <3>4 DEF HelpKept
      <4>2. r # p
        BY <3>1, <3>2, <3>4 DEF ForWriters
      <4>3. QED
        BY <3>1, <4>1, <4>2
    <3>5. QED
      BY <3>3, <3>4
  <2>4. QED
    BY <2>2, <2>3
<1>4. ReadersHelped'
  <2> SUFFICES ASSUME rwl_owner' = Unlocked', NEW r \in Thread, pc'[r] = "r_sleep", Down(r)'
               PROVE  \E q \in Thread : ForReaders(q)'
    BY DEF ReadersHelped
  <2>1. rwl_owner' = Unlocked
    BY DEF Unlocked, Readers
  <2>2. ASSUME NEW q \in Thread \ {p}, pc[q] \in WantWrite
        PROVE  \E u \in Thread : ForReaders(u)'
    <3>1. ForReaders(q)'
      BY <1>1, <2>2 DEF ForReaders
    <3>2. QED
      BY <3>1
  <2>3. CASE rwl_owner # Unlocked
    <3>1. pc'[p] = "x_waiters"
      BY <2>1, <2>3 DEF HelpKept
    <3>2. ForReaders(p)'
      BY <3>1 DEF ForReaders
    <3>3. QED
      BY <3>2
  <2>4. CASE rwl_owner = Unlocked /\ \A q \in Thread \ {p} : pc[q] \notin WantWrite
    <3>1. pc[r] = "r_sleep" /\ Down(r)
      <4>1. CASE r = p
        BY <2>1, <2>4, <4>1 DEF HelpKept
      <4>2. CASE r # p
        BY <1>1, <4>2
      <4>3. QED
        BY <4>1, <4>2
    <3>2. PICK q \in Thread : ForReaders(q)
      BY <2>4, <3>1 DEF StrandInv, ReadersHelped
    <3>3. CASE q # p
      BY <1>1, <3>2, <3>3
    <3>4. CASE q = p
      <4>1. ForReaders(p)' \/ \A u \in Thread \ {p} : pc[u] # "r_sleep"
        BY <2>1, <2>4, <3>2, <3>4 DEF HelpKept
      <4>2. r # p
        BY <3>1, <3>2, <3>4 DEF ForReaders, WantWrite
      <4>3. QED
        BY <3>1, <4>1, <4>2
    <3>5. QED
      BY <3>3, <3>4
  <2>5. QED
    BY <2>2, <2>3, <2>4
<1>5. QED
  BY <1>2, <1>3, <1>4 DEF StrandInv

\* The places where a thread is in the code of the sleep.
SleepPlaces == {"w_load", "r_load", "r_load2", "w_sleep", "r_sleep"}

\* A thread that is not in a sleep, and does not come into one, takes a step:
\* what it does for the sleepers is seen from where it is and goes.
LEMMA QuietKeeps ==
    ASSUME StrandInv, LockInv', NEW p \in Thread, NEW l \in PC, Goto(p, l),
           UNCHANGED sleepVars,
           flags' \in [Thread -> SUBSET {"RW_NOSLEEP", "RW_INTR"}],
           \A q \in Thread \ {p} : flags'[q] = flags[q], "RW_INTR" \notin flags'[p],
           pc[p] \notin SleepPlaces, l \notin SleepPlaces \cup {"w_intr", "r_intr"},
           pc[p] = "idle" => sf[p].pc = "run",
           rwl_owner' = Unlocked => rwl_owner = Unlocked \/ l = "x_waiters",
           rwl_owner' = Unlocked /\ pc[p] \in {"x_waiters", "x_wakeone"} \cup WantWrite =>
              \/ l \in {"x_waiters", "x_wakeone"} \cup WantWrite
              \/ \A q \in Thread \ {p} : pc[q] # "w_sleep",
           rwl_owner' = Unlocked /\ pc[p] \in {"x_waiters", "x_readers", "x_wakeup"} \cup WantWrite =>
              \/ l \in {"x_waiters", "x_readers", "x_wakeup"} \cup WantWrite
              \/ \E q \in Thread \ {p} : pc[q] \in WantWrite
              \/ \A q \in Thread \ {p} : pc[q] # "r_sleep"
    PROVE  StrandInv'
<1>1. UNCHANGED <<slpque, p_wchan, p_stat, p_flag, sf>>
  BY DEF sleepVars
<1>2. pc'[p] = l /\ \A q \in Thread \ {p} : pc'[q] = pc[q]
  BY DEF Goto, StrandInv, LockInv, LockTypeOK
<1>3. Elsewhere(p) /\ SleepShape' /\ QueuesExact'
  BY <1>1, <1>2 DEF Elsewhere, Alone, StrandInv, SleepersInv, SleepShape, QueuesExact
<1>4. Uninterrupted(p) /\ InSleep(p)
  BY DEF StrandInv, SleepersInv
<1>5. Uninterrupted(p)'
  BY <1>1, <1>2, <1>4 DEF Uninterrupted
<1>6. InSleep(p)'
  <2>1. p_wchan[p] = NULL /\ sf[p].pc \notin {"userstop", "userswtch"}
    <3>1. p_wchan[p] # "waiters" /\ p_wchan[p] # "readers"
      BY <1>4 DEF InSleep, SleepPlaces
    <3>2. QED
      BY <1>4, <3>1, ChanAssumption DEF InSleep, StrandInv, SleepersInv, SleepShape
  <2>2. QED
    BY <1>1, <1>2, <1>4, <2>1, NULLAssumption, ChanAssumption DEF InSleep, SleepPlaces
<1>7. ~Down(p) /\ ~Down(p)'
  BY <1>2 DEF Down, SleepPlaces
<1>8. HelpKept(p)
  BY <1>2, <1>7 DEF HelpKept, ForWriters, ForReaders, SleepPlaces
<1>9. QED
  BY <1>3, <1>5, <1>6, <1>8, StepKeeps

\* The words of the lock that are not 0.
LEMMA NotFree ==
    ASSUME NEW p \in Thread
    PROVE  /\ Self(p) # Unlocked /\ Readers(1) # Unlocked
           /\ \A n \in Nat : Readers(n + 1) # Unlocked
  BY ThreadAssumption DEF Self, Readers, Unlocked

\* The steps that begin rw_enter().
LEMMA EnterQuiet ==
    ASSUME \A f \in EnterFlags : "RW_INTR" \notin f,
           StrandInv, LockInv', NEW p \in Thread, EnterWrite(p) \/ EnterRead(p)
    PROVE  StrandInv'
<1>1. PICK l \in {"w_cas", "r_cas"} : Goto(p, l)
  BY DEF EnterWrite, EnterRead
<1>2. /\ pc[p] = "idle" /\ sf[p].pc = "run" /\ UNCHANGED sleepVars /\ rwl_owner' = rwl_owner
      /\ \E f \in EnterFlags : flags' = [flags EXCEPT ![p] = f]
  BY DEF EnterWrite, EnterRead, lockVars
<1>3. /\ flags' \in [Thread -> SUBSET {"RW_NOSLEEP", "RW_INTR"}]
      /\ \A q \in Thread \ {p} : flags'[q] = flags[q]
      /\ "RW_INTR" \notin flags'[p]
  BY <1>2, FlagsAssumption DEF StrandInv, LockInv, LockTypeOK
<1>4. l \in PC /\ l \notin SleepPlaces \cup {"w_intr", "r_intr"}
  BY DEF PC, SleepPlaces
<1>5. pc[p] \notin SleepPlaces \cup WantWrite
  BY <1>2 DEF SleepPlaces, WantWrite
<1>6. QED
  BY <1>1, <1>2, <1>3, <1>4, <1>5, QuietKeeps

\* A thread that leaves its flags alone.
LEMMA SameFlags ==
    ASSUME StrandInv, NEW p \in Thread, UNCHANGED flags
    PROVE  /\ flags' \in [Thread -> SUBSET {"RW_NOSLEEP", "RW_INTR"}]
           /\ \A q \in Thread \ {p} : flags'[q] = flags[q]
           /\ "RW_INTR" \notin flags'[p]
           /\ rwl_owner.count \in Nat
  BY DEF StrandInv, LockInv, LockTypeOK, SleepersInv, Uninterrupted

\* The steps of rw_do_enter_write() outside of the sleep.
LEMMA WriteQuiet ==
    ASSUME StrandInv, LockInv', NEW p \in Thread,
           WriteCas(p) \/ WriteSpin(p) \/ WriteCas2(p) \/ WriteDec(p)
    PROVE  StrandInv'
<1> USE DEF SleepPlaces, WantWrite
<1>1. UNCHANGED <<sleepVars, flags>>
  BY DEF WriteCas, WriteSpin, WriteCas2, WriteDec, TryWrite
<1>2. PICK l \in PC :
         /\ Goto(p, l) /\ l \notin SleepPlaces \cup {"w_intr", "r_intr"}
         /\ \/ pc[p] \notin WantWrite \/ l = "w_setup" \/ rwl_owner' = Self(p)
         /\ pc[p] \in {"w_cas", "w_spin", "w_cas2", "w_dec"}
         /\ rwl_owner' = rwl_owner \/ rwl_owner' = Self(p)
  <2>1. /\ {"write", "w_spin", "idle", "w_setup", "w_dec"} \subseteq PC
    BY DEF PC, WritePC, WriteWaitPC
  <2>2. CASE WriteCas(p)
    BY <2>1, <2>2 DEF WriteCas, TryWrite
  <2>3. CASE WriteSpin(p)
    BY <2>1, <2>3 DEF WriteSpin
  <2>4. CASE WriteCas2(p)
    BY <2>1, <2>4 DEF WriteCas2, TryWrite
  <2>5. CASE WriteDec(p)
    <3>1. pc[p] = "w_dec"
      BY <2>5 DEF WriteDec, StrandInv, SleepersInv, Uninterrupted
    <3>2. QED
      BY <2>1, <2>5, <3>1 DEF WriteDec
  <2>6. QED
    BY <2>2, <2>3, <2>4, <2>5
<1>3. Self(p) # Unlocked
  BY NotFree
<1>4. QED
  BY <1>1, <1>2, <1>3, SameFlags, QuietKeeps

\* The steps of rw_do_enter_read() outside of the sleep.
LEMMA ReadQuiet ==
    ASSUME StrandInv, LockInv', NEW p \in Thread,
           \/ ReadCas(p) \/ ReadWaiters(p) \/ ReadIncr(p) \/ ReadBlock(p)
           \/ ReadIncr2(p) \/ ReadDec(p)
    PROVE  StrandInv'
<1> USE DEF SleepPlaces, WantWrite
<1>1. UNCHANGED <<sleepVars, flags>>
  BY DEF ReadCas, ReadWaiters, ReadIncr, ReadBlock, ReadIncr2, ReadDec, rw_read_incr
<1>2. PICK l \in PC :
         /\ Goto(p, l) /\ l \notin SleepPlaces \cup {"w_intr", "r_intr"}
         /\ pc[p] \in {"r_cas", "r_waiters", "r_incr", "r_block", "r_incr2", "r_dec"}
         /\ \/ rwl_owner' = rwl_owner \/ rwl_owner' = Readers(1)
            \/ rwl_owner' = Readers(rwl_owner.count + 1)
  <2>1. {"read", "r_block", "r_waiters", "r_incr", "idle", "r_setup", "r_dec"} \subseteq PC
    BY DEF PC, ReadPC, ReadWaitPC
  <2>2. CASE ReadCas(p) \/ ReadWaiters(p)
    BY <2>1, <2>2 DEF ReadCas, ReadWaiters, lockVars
  <2>3. CASE ReadIncr(p) \/ ReadIncr2(p)
    BY <2>1, <2>3 DEF ReadIncr, ReadIncr2, rw_read_incr
  <2>4. CASE ReadBlock(p)
    BY <2>1, <2>4 DEF ReadBlock
  <2>5. CASE ReadDec(p)
    <3>1. pc[p] = "r_dec"
      BY <2>5 DEF ReadDec, StrandInv, SleepersInv, Uninterrupted
    <3>2. QED
      BY <2>1, <2>5, <3>1 DEF ReadDec
  <2>6. QED
    BY <2>2, <2>3, <2>4, <2>5
<1>3. rwl_owner' = Unlocked => rwl_owner = Unlocked
  BY <1>1, <1>2, NotFree, SameFlags
<1>4. QED
  BY <1>1, <1>2, <1>3, SameFlags, QuietKeeps

\* A holder downgrades, upgrades or leaves.
LEMMA HolderQuiet ==
    ASSUME StrandInv, LockInv', NEW p \in Thread,
           Downgrade(p) \/ DowngradeLoad(p) \/ ExitWrite(p) \/ ExitRead(p)
           \/ (Upgrade(p) /\ rwl_owner = Readers(1))
    PROVE  StrandInv'
<1> USE DEF SleepPlaces, WantWrite
<1>1. UNCHANGED <<sleepVars, flags>>
  BY DEF Downgrade, DowngradeLoad, ExitWrite, ExitRead, Upgrade
<1>2. PICK l \in PC :
         /\ Goto(p, l) /\ l \notin SleepPlaces \cup {"w_intr", "r_intr"}
         /\ pc[p] \in {"write", "read", "d_waiters", "d_readers"}
         /\ rwl_owner' = Unlocked => rwl_owner = Unlocked \/ l = "x_waiters"
  <2>1. {"read", "write", "d_waiters", "d_readers", "d_wake", "x_waiters", "idle"} \subseteq PC
    BY DEF PC, WritePC, ReadPC
  <2>2. CASE Downgrade(p) \/ (Upgrade(p) /\ rwl_owner = Readers(1))
    BY <2>1, <2>2, NotFree DEF Downgrade, Upgrade
  <2>3. CASE DowngradeLoad(p) \/ ExitWrite(p)
    BY <2>1, <2>3 DEF DowngradeLoad, ExitWrite, lockVars
  <2>4. CASE ExitRead(p)
    <3>1. p \in Reading
      BY <2>4 DEF ExitRead, Reading, ReadPC
    <3>2. rwl_owner.count \in Nat \ {0} /\ rwl_owner = Readers(rwl_owner.count)
      BY <3>1, ReaderCounted DEF StrandInv, Readers
    <3>3. rwl_owner' = Readers(rwl_owner.count - 1)
      BY <2>4, <3>2 DEF ExitRead, Readers
    <3>4. rwl_owner' = Unlocked => rwl_owner.count = 1
      BY <3>2, <3>3 DEF Readers, Unlocked
    <3>5. QED
      BY <2>1, <2>4, <3>4 DEF ExitRead
  <2>5. QED
    BY <2>2, <2>3, <2>4
<1>3. QED
  BY <1>1, <1>2, SameFlags, QuietKeeps

\* rw_exited() looks at the counters.
LEMMA ExitedQuiet ==
    ASSUME StrandInv, LockInv', NEW p \in Thread, ExitedLoad(p)
    PROVE  StrandInv'
<1> USE DEF SleepPlaces, WantWrite
<1>1. UNCHANGED <<sleepVars, flags, rwl_owner>>
  BY DEF ExitedLoad, lockVars
<1>2. {"x_wakeone", "x_readers", "x_wakeup", "idle"} \subseteq PC
  BY DEF PC
<1>3. CASE pc[p] = "x_waiters"
  <2>1. Goto(p, IF rwl_waiters > 0 THEN "x_wakeone" ELSE "x_readers") /\ rwl_waiters \in Nat
    BY <1>3 DEF ExitedLoad, StrandInv, LockInv, LockTypeOK
  <2>2. CASE rwl_waiters > 0
    <3>1. rwl_owner = Unlocked => \E q \in Thread \ {p} : pc[q] \in WantWrite
      BY <1>3, <2>1, <2>2, WaitersTell
    <3>2. Goto(p, "x_wakeone")
      BY <2>1, <2>2
    <3>3. QED
      BY <1>1, <1>2, <1>3, <3>1, <3>2, SameFlags, QuietKeeps
  <2>3. CASE rwl_waiters = 0
    <3>1. \A q \in Thread : pc[q] # "w_sleep"
      BY <2>3, WaitersTell DEF WriteWaitPC
    <3>2. Goto(p, "x_readers")
      BY <2>1, <2>3
    <3>3. QED
      BY <1>1, <1>2, <1>3, <3>1, <3>2, SameFlags, QuietKeeps
  <2>4. QED
    BY <2>1, <2>2, <2>3
<1>4. CASE pc[p] = "x_readers"
  <2>1. Goto(p, IF rwl_readers > 0 THEN "x_wakeup" ELSE "idle") /\ rwl_readers \in Nat
    BY <1>4 DEF ExitedLoad, StrandInv, LockInv, LockTypeOK
  <2>2. CASE rwl_readers > 0
    <3>1. Goto(p, "x_wakeup")
      BY <2>1, <2>2
    <3>2. QED
      BY <1>1, <1>2, <1>4, <3>1, SameFlags, QuietKeeps
  <2>3. CASE rwl_readers = 0
    <3>1. \A q \in Thread : pc[q] # "r_sleep"
      BY <2>3, ReadersTell DEF ReadWaitPC, StrandInv
    <3>2. Goto(p, "idle")
      BY <2>1, <2>3
    <3>3. QED
      BY <1>1, <1>2, <1>4, <3>1, <3>2, SameFlags, QuietKeeps
  <2>4. QED
    BY <2>1, <2>2, <2>3
<1>5. QED
  BY <1>3, <1>4 DEF ExitedLoad

\* The thread goes on the queue it will sleep on.
LEMMA SetupKeeps ==
    ASSUME StrandInv, LockInv', NEW p \in Thread, WriteSetup(p) \/ ReadSetup(p)
    PROVE  StrandInv'
<1> USE ChanAssumption, NULLAssumption
<1>1. SleepShape /\ QueuesExact /\ Uninterrupted(p) /\ InSleep(p) /\ pc \in [Thread -> PC]
  BY DEF StrandInv, SleepersInv, LockInv, LockTypeOK
<1>2. PICK c \in Chan, l \in {"w_load", "r_load"} :
         /\ sleep_setup(p, c, FALSE) /\ Goto(p, l)
         /\ \/ c = "waiters" /\ l = "w_load" /\ pc[p] = "w_setup"
            \/ c = "readers" /\ l = "r_load" /\ pc[p] = "r_setup"
  <2>1. ("RW_INTR" \in flags[p]) = FALSE
    BY <1>1 DEF Uninterrupted
  <2>2. CASE WriteSetup(p)
    BY <2>1, <2>2 DEF WriteSetup
  <2>3. CASE ReadSetup(p)
    BY <2>1, <2>3 DEF ReadSetup
  <2>4. QED
    BY <2>2, <2>3
<1>3. UNCHANGED <<rwl_owner, flags>>
  BY DEF WriteSetup, ReadSetup, lockVars
<1>4. p_wchan[p] = NULL
  <2>1. p_wchan[p] # "waiters" /\ p_wchan[p] # "readers"
    BY <1>1, <1>2 DEF InSleep
  <2>2. QED
    BY <1>1, <2>1 DEF SleepShape
<1>5. /\ SleepShape' /\ QueuesExact' /\ AloneBut(p)
      /\ p_wchan'[p] = c /\ p_stat'[p] # "SRUN"
      /\ p_flag'[p] = p_flag[p] \cup {"P_INSCHED"}
      /\ sf[p].pc = "run" /\ sf'[p].pc = "setup" /\ sf'[p].catch = sf[p].catch
  BY <1>1, <1>2, <1>4, SetupEffect
<1>6. pc'[p] = l /\ \A q \in Thread \ {p} : pc'[q] = pc[q]
  BY <1>1, <1>2 DEF Goto
<1>7. Elsewhere(p)
  BY <1>3, <1>5, <1>6 DEF Elsewhere, AloneBut
<1>8. Uninterrupted(p)'
  BY <1>1, <1>3, <1>5, <1>6 DEF Uninterrupted
<1>9. InSleep(p)'
  BY <1>2, <1>5, <1>6 DEF InSleep
<1>10. HelpKept(p)
  <2>1. ~Down(p) /\ ~Down(p)' /\ rwl_owner' = rwl_owner
    BY <1>2, <1>3, <1>6 DEF Down
  <2>2. QED
    BY <1>2, <1>6, <2>1 DEF HelpKept, ForWriters, ForReaders, WantWrite
<1>11. QED
  BY <1>5, <1>7, <1>8, <1>9, <1>10, StepKeeps

\* The thread looks at the lock and calls sleep_finish().
LEMMA LoadKeeps ==
    ASSUME StrandInv, LockInv', NEW p \in Thread,
           WriteLoad(p) \/ ReadLoad(p) \/ ReadLoadOwner(p)
    PROVE  StrandInv'
<1> USE ChanAssumption, NULLAssumption
<1>1. SleepShape /\ QueuesExact /\ Uninterrupted(p) /\ InSleep(p) /\ pc \in [Thread -> PC]
  BY DEF StrandInv, SleepersInv, LockInv, LockTypeOK
<1>2. UNCHANGED <<rwl_owner, flags>>
  BY DEF WriteLoad, ReadLoad, ReadLoadOwner, lockVars
<1>3. CASE ReadLoad(p) /\ rwl_waiters = 0
  <2>1. pc[p] = "r_load" /\ Goto(p, "r_load2") /\ UNCHANGED sleepVars
    BY <1>3 DEF ReadLoad
  <2>2. pc'[p] = "r_load2" /\ \A q \in Thread \ {p} : pc'[q] = pc[q]
    BY <1>1, <2>1 DEF Goto
  <2>3. UNCHANGED <<slpque, p_wchan, p_stat, p_flag, sf>>
    BY <2>1 DEF sleepVars
  <2>4. Elsewhere(p) /\ SleepShape' /\ QueuesExact'
    BY <1>1, <1>2, <2>2, <2>3 DEF Elsewhere, Alone, SleepShape, QueuesExact
  <2>5. Uninterrupted(p)'
    BY <1>1, <1>2, <2>2, <2>3 DEF Uninterrupted
  <2>6. InSleep(p)'
    BY <1>1, <2>1, <2>2, <2>3 DEF InSleep
  <2>7. HelpKept(p)
    <3>1. ~Down(p) /\ ~Down(p)' /\ rwl_owner' = rwl_owner
      BY <1>2, <2>1, <2>2 DEF Down
    <3>2. QED
      BY <2>1, <2>2, <3>1 DEF HelpKept, ForWriters, ForReaders, WantWrite
  <2>8. QED
    BY <2>4, <2>5, <2>6, <2>7, StepKeeps
<1>4. CASE ~(ReadLoad(p) /\ rwl_waiters = 0)
  <2>1. PICK b \in BOOLEAN, l \in {"w_sleep", "r_sleep"} :
           /\ sleep_finish(p, FALSE, b) /\ Goto(p, l)
           /\ \/ pc[p] = "w_load" /\ l = "w_sleep" /\ (b => rwl_owner # Unlocked)
              \/ pc[p] = "r_load" /\ l = "r_sleep" /\ rwl_waiters > 0
              \/ pc[p] = "r_load2" /\ l = "r_sleep" /\ (b => WRLOCK)
    <3>1. CASE WriteLoad(p)
      BY <3>1 DEF WriteLoad
    <3>2. CASE ReadLoad(p)
      BY <1>4, <3>2 DEF ReadLoad
    <3>3. CASE ReadLoadOwner(p)
      <4>1. WRLOCK \in BOOLEAN
        BY DEF WRLOCK
      <4>2. QED
        BY <3>3, <4>1 DEF ReadLoadOwner
    <3>4. QED
      BY <3>1, <3>2, <3>3
  <2>2. /\ SleepShape' /\ QueuesExact' /\ AloneBut(p)
        /\ UNCHANGED <<p_wchan, p_stat, p_flag>>
        /\ sf[p].pc = "setup" /\ sf'[p].pc = "lock" /\ sf'[p].do_sleep = b
        /\ ~sf'[p].catch
    <3>1. "P_SINTR" \notin p_flag[p]
      BY <1>1 DEF Uninterrupted
    <3>2. QED
      BY <1>1, <2>1, <3>1, FinishEffect
  <2>3. pc'[p] = l /\ \A q \in Thread \ {p} : pc'[q] = pc[q]
    BY <1>1, <2>1 DEF Goto
  <2>4. Elsewhere(p)
    BY <1>2, <2>2, <2>3 DEF Elsewhere, AloneBut
  <2>5. Uninterrupted(p)'
    BY <1>1, <1>2, <2>2, <2>3 DEF Uninterrupted
  <2>6. InSleep(p)'
    BY <1>1, <2>1, <2>2, <2>3 DEF InSleep
  <2>7. HelpKept(p)
    <3>1. ~Down(p) /\ rwl_owner' = rwl_owner
      BY <1>2, <2>1 DEF Down
    <3>2. WRLOCK => rwl_owner # Unlocked
      BY DEF WRLOCK, Unlocked, Readers
    <3>3. CASE l = "w_sleep"
      <4>1. rwl_owner' = Unlocked => ~Down(p)'
        BY <2>1, <2>2, <3>1, <3>3 DEF Down
      <4>2. QED
        BY <2>1, <2>3, <3>1, <3>3, <4>1 DEF HelpKept, ForWriters, ForReaders, WantWrite
    <3>4. CASE l = "r_sleep"
      <4>1. pc[p] \notin WantWrite \cup {"x_waiters", "x_wakeone", "x_readers", "x_wakeup"}
        BY <2>1, <3>4 DEF WantWrite
      <4>2. rwl_owner' = Unlocked /\ Down(p)' => \E q \in Thread \ {p} : pc[q] \in WantWrite
        <5>1. CASE pc[p] = "r_load"
          BY <2>1, <3>1, <3>4, <4>1, <5>1, WaitersTell DEF StrandInv, LockInv, LockTypeOK
        <5>2. CASE pc[p] = "r_load2"
          BY <2>1, <2>2, <3>1, <3>2, <5>2 DEF Down
        <5>3. QED
          BY <2>1, <3>4, <5>1, <5>2
      <4>3. QED
        BY <2>3, <3>1, <3>4, <4>1, <4>2 DEF HelpKept, ForWriters, ForReaders
    <3>5. QED
      BY <3>3, <3>4
  <2>8. QED
    BY <2>2, <2>4, <2>5, <2>6, <2>7, StepKeeps
<1>5. QED
  BY <1>3, <1>4

\* sleep_finish() has returned: the thread tries again.
LEMMA WokenKeeps ==
    ASSUME StrandInv, LockInv', NEW p \in Thread, WriteWoken(p) \/ ReadWoken(p)
    PROVE  StrandInv'
<1> USE ChanAssumption, NULLAssumption
<1>1. SleepShape /\ QueuesExact /\ Uninterrupted(p) /\ InSleep(p) /\ pc \in [Thread -> PC]
  BY DEF StrandInv, SleepersInv, LockInv, LockTypeOK
<1>2. UNCHANGED <<rwl_owner, flags>> /\ SleepReturned(p)
  BY DEF WriteWoken, ReadWoken, lockVars
<1>3. PICK l \in {"w_cas2", "r_incr2"} :
         /\ Goto(p, l)
         /\ \/ pc[p] = "w_sleep" /\ l = "w_cas2"
            \/ pc[p] = "r_sleep" /\ l = "r_incr2"
  BY <1>1 DEF WriteWoken, ReadWoken, Uninterrupted
<1>4. /\ SleepShape' /\ QueuesExact' /\ AloneBut(p)
      /\ UNCHANGED <<p_wchan, p_stat, p_flag>>
      /\ sf[p].pc = "done" /\ sf'[p].pc = "run" /\ ~sf'[p].catch
  BY <1>1, <1>2, ReturnedEffect
<1>5. pc'[p] = l /\ \A q \in Thread \ {p} : pc'[q] = pc[q]
  BY <1>1, <1>3 DEF Goto
<1>6. Elsewhere(p)
  BY <1>2, <1>4, <1>5 DEF Elsewhere, AloneBut
<1>7. Uninterrupted(p)'
  BY <1>1, <1>2, <1>4, <1>5 DEF Uninterrupted
<1>8. p_wchan[p] = NULL
  BY <1>1, <1>4 DEF InSleep
<1>9. InSleep(p)'
  BY <1>4, <1>5, <1>8 DEF InSleep
<1>10. HelpKept(p)
  <2>1. ~Down(p) /\ ~Down(p)' /\ rwl_owner' = rwl_owner
    BY <1>2, <1>4, <1>8 DEF Down
  <2>2. QED
    BY <1>3, <1>5, <2>1 DEF HelpKept, ForWriters, ForReaders, WantWrite
<1>11. QED
  BY <1>4, <1>6, <1>7, <1>9, <1>10, StepKeeps

\* A thread that stays where it is in the lock and sleeps as it did.
LEMMA StillKeeps ==
    ASSUME StrandInv, NEW p \in Thread, SleepShape', QueuesExact', AloneBut(p),
           UNCHANGED <<rwl_owner, rwl_waiters, rwl_readers, pc, flags>>,
           Uninterrupted(p)', InSleep(p)', Down(p)' <=> Down(p)
    PROVE  StrandInv'
<1>1. LockInv'
  BY LockUnchanged DEF StrandInv
<1>2. Elsewhere(p)
  BY DEF Elsewhere, AloneBut
<1>3. HelpKept(p)
  <2>1. (ForWriters(p)' <=> ForWriters(p)) /\ (ForReaders(p)' <=> ForReaders(p))
    BY DEF ForWriters, ForReaders
  <2>2. QED
    BY <2>1 DEF HelpKept
<1>4. QED
  BY <1>1, <1>2, <1>3, StepKeeps

\* A step of the sleep, of a signal, or of the return to user mode.
LEMMA SleepKeeps ==
    ASSUME StrandInv, NEW p \in Thread,
           UNCHANGED <<rwl_owner, rwl_waiters, rwl_readers, pc, flags>>,
           \/ SleepStep(p)
           \/ pc[p] = "idle" /\ UserretStep(p)
           \/ \E s \in Signal : ptsignal(p, s)
    PROVE  StrandInv'
<1> USE ChanAssumption, NULLAssumption
<1>1. SleepShape /\ QueuesExact /\ Uninterrupted(p) /\ InSleep(p) /\ pc \in [Thread -> PC]
  BY DEF StrandInv, SleepersInv, LockInv, LockTypeOK
<1>2. CASE SleepStep(p)
  <2>1. /\ SleepShape' /\ QueuesExact' /\ AloneBut(p)
        /\ "P_SINTR" \notin p_flag'[p] /\ ~sf'[p].catch
        /\ sf'[p].do_sleep = sf[p].do_sleep
        /\ \/ sf[p].pc = "userswtch" /\ sf'[p].pc = "run"
           \/ /\ sf[p].pc \in {"lock", "switched", "timeout", "done"}
              /\ sf'[p].pc \in {"switched", "timeout", "done"}
        /\ \/ p_wchan'[p] = p_wchan[p]
           \/ p_wchan'[p] = NULL /\ ~sf[p].do_sleep
        /\ p_wchan'[p] # NULL =>
              sf'[p].pc = "switched" /\ sf'[p].do_sleep /\ p_stat'[p] # "SRUN"
    BY <1>1, <1>2, SleepStepEffect
  <2>2. Uninterrupted(p)'
    BY <1>1, <2>1 DEF Uninterrupted
  <2>3. InSleep(p)'
    BY <1>1, <2>1 DEF InSleep
  <2>4. Down(p)' <=> Down(p)
    BY <2>1 DEF Down
  <2>5. QED
    BY <2>1, <2>2, <2>3, <2>4, StillKeeps
<1>3. CASE pc[p] = "idle" /\ UserretStep(p)
  <2>1. /\ SleepShape' /\ QueuesExact' /\ AloneBut(p)
        /\ UNCHANGED <<slpque, p_wchan>>
        /\ p_flag'[p] \subseteq p_flag[p] \cup {"P_SUSPSIG", "P_INSCHED"}
        /\ sf[p].pc \in {"run", "userstop"}
        /\ sf'[p].pc \in {"run", "userstop", "userswtch"} /\ sf'[p].catch = sf[p].catch
    BY <1>1, <1>3, UserretEffect
  <2>2. p_wchan[p] = NULL
    BY <1>1, <2>1 DEF InSleep
  <2>3. Uninterrupted(p)'
    BY <1>1, <2>1 DEF Uninterrupted
  <2>4. InSleep(p)'
    BY <1>3, <2>1, <2>2 DEF InSleep
  <2>5. Down(p)' <=> Down(p)
    BY <1>3 DEF Down
  <2>6. QED
    BY <2>1, <2>3, <2>4, <2>5, StillKeeps
<1>4. ASSUME NEW s \in Signal, ptsignal(p, s)
      PROVE  StrandInv'
  <2>1. /\ SleepShape' /\ QueuesExact' /\ AloneBut(p)
        /\ UNCHANGED <<slpque, p_wchan, sf>> /\ "P_SINTR" \notin p_flag'[p]
        /\ p_stat'[p] = "SRUN" => p_stat[p] = "SRUN" \/ p_wchan[p] = NULL
    BY <1>1, <1>4, SignalIgnored
  <2>2. Uninterrupted(p)'
    BY <1>1, <2>1 DEF Uninterrupted
  <2>3. InSleep(p)'
    BY <1>1, <2>1 DEF InSleep
  <2>4. Down(p)' <=> Down(p)
    BY <2>1 DEF Down
  <2>5. QED
    BY <2>1, <2>2, <2>3, <2>4, StillKeeps
<1>5. QED
  BY <1>2, <1>3, <1>4

\* A wakeup changes nothing in a thread but that it may be off its queue.
LEMMA WakeKeepsOthers ==
    ASSUME StrandInv, NEW p \in Thread, NEW l \in {"idle", "read"}, Goto(p, l),
           pc[p] \in {"d_wake", "x_wakeone", "x_wakeup"}, UNCHANGED flags,
           NEW c \in Chan, NEW n \in {1, -1}, wakeup_n(c, n)
    PROVE  /\ SleepersInv' /\ pc[p] \notin SleepPlaces
           /\ pc'[p] = l /\ \A q \in Thread \ {p} : pc'[q] = pc[q]
           /\ \A q \in Thread : Down(q)' => q # p /\ Down(q)
           /\ n = -1 => \A q \in Thread : p_wchan'[q] # c
           /\ \/ \A q \in Thread : p_wchan[q] # c
              \/ \E q \in Thread : p_wchan[q] = c /\ p_wchan'[q] = NULL
<1> USE ChanAssumption, NULLAssumption
<1>1. /\ SleepShape /\ QueuesExact /\ pc \in [Thread -> PC]
      /\ \A q \in Thread : Uninterrupted(q) /\ InSleep(q)
  BY DEF StrandInv, SleepersInv, LockInv, LockTypeOK
<1>2. /\ SleepShape' /\ QueuesExact' /\ UNCHANGED <<p_flag, sf>>
      /\ \A q \in Thread : \/ p_wchan'[q] = p_wchan[q] /\ p_stat'[q] = p_stat[q]
                           \/ p_wchan[q] = c /\ p_wchan'[q] = NULL
      /\ n = -1 => \A q \in Thread : p_wchan'[q] # c
      /\ \/ \A q \in Thread : p_wchan[q] # c
         \/ \E q \in Thread : p_wchan[q] = c /\ p_wchan'[q] = NULL
  BY <1>1, WakeupShared
<1>3. /\ pc'[p] = l /\ \A q \in Thread \ {p} : pc'[q] = pc[q]
      /\ pc[p] \notin SleepPlaces /\ l \notin SleepPlaces
  BY <1>1 DEF Goto, SleepPlaces
<1>4. ASSUME NEW q \in Thread
      PROVE  Uninterrupted(q)' /\ InSleep(q)' /\ (Down(q)' => q # p /\ Down(q))
  <2>1. Uninterrupted(q) /\ InSleep(q)
    BY <1>1
  <2>2. Uninterrupted(q)'
    BY <1>2, <1>3, <2>1 DEF Uninterrupted
  <2>3. \/ p_wchan'[q] = p_wchan[q] /\ p_stat'[q] = p_stat[q]
        \/ p_wchan'[q] = NULL
    BY <1>2
  <2>4. InSleep(q)'
    <3>1. CASE q = p
      <4>1. p_wchan'[p] = NULL
        <5>1. p_wchan[p] # "waiters" /\ p_wchan[p] # "readers"
          BY <1>3, <2>1, <3>1 DEF InSleep, SleepPlaces
        <5>2. QED
          BY <1>1, <2>3, <3>1, <5>1 DEF SleepShape
      <4>2. sf'[p] = sf[p] /\ pc[p] # "idle" /\ pc[p] \notin SleepPlaces
        BY <1>2, <1>3
      <4>3. sf[p].pc \notin {"setup", "lock", "switched", "timeout", "done", "userstop", "userswtch"}
        BY <2>1, <3>1, <4>2 DEF InSleep, SleepPlaces
      <4>4. QED
        BY <1>3, <3>1, <4>1, <4>2, <4>3 DEF InSleep, SleepPlaces
    <3>2. CASE q # p
      <4>1. sf'[q] = sf[q] /\ pc'[q] = pc[q]
        BY <1>2, <1>3, <3>2
      <4>2. QED
        BY <2>1, <2>3, <4>1 DEF InSleep
    <3>3. QED
      BY <3>1, <3>2
  <2>5. Down(q)' => q # p /\ Down(q)
    BY <1>2, <1>3, <2>3 DEF Down, SleepPlaces
  <2>6. QED
    BY <2>2, <2>4, <2>5
<1>5. QED
  BY <1>2, <1>3, <1>4 DEF SleepersInv

\* The channel tells whether a thread sleeps to write or to read.
LEMMA ChannelTells ==
    ASSUME SleepersInv, NEW q \in Thread, Down(q)
    PROVE  /\ pc[q] = "w_sleep" => p_wchan[q] = "waiters"
           /\ pc[q] = "r_sleep" => p_wchan[q] = "readers"
<1>1. p_wchan[q] \in Chan /\ InSleep(q)
  BY DEF SleepersInv, SleepShape, Down
<1>2. QED
  BY <1>1, ChanAssumption DEF InSleep

\* wakeup_one() on the writers leaves one that is awake, if any slept;
\* wakeup() on the readers leaves none asleep.
LEMMA WakeKeeps ==
    ASSUME StrandInv, LockInv', NEW p \in Thread, DowngradeWake(p) \/ ExitedWake(p)
    PROVE  StrandInv'
<1> USE ChanAssumption, NULLAssumption
<1>1. UNCHANGED <<rwl_owner, flags>> /\ SleepersInv
  BY DEF DowngradeWake, ExitedWake, lockVars, StrandInv
<1>2. Unlocked' = Unlocked
  BY DEF Unlocked, Readers
<1>3. ASSUME NEW l \in {"idle", "read"}, Goto(p, l), wakeup_n("readers", -1),
             pc[p] \in {"d_wake", "x_wakeup"}
      PROVE  StrandInv'
  <2>1. /\ SleepersInv' /\ \A q \in Thread \ {p} : pc'[q] = pc[q]
        /\ \A q \in Thread : Down(q)' => q # p /\ Down(q)
        /\ \A q \in Thread : p_wchan'[q] # "readers"
    BY <1>1, <1>3, WakeKeepsOthers
  <2>2. WritersHelped'
    <3> SUFFICES ASSUME rwl_owner = Unlocked, NEW r \in Thread, pc'[r] = "w_sleep", Down(r)'
                 PROVE  \E q \in Thread : ForWriters(q)'
      BY <1>1, <1>2 DEF WritersHelped
    <3>1. pc[r] = "w_sleep" /\ Down(r)
      BY <2>1
    <3>2. PICK q \in Thread : ForWriters(q)
      BY <3>1 DEF StrandInv, WritersHelped
    <3>3. q # p
      BY <1>3, <3>2 DEF ForWriters, WantWrite
    <3>4. ForWriters(q)'
      BY <2>1, <3>2, <3>3 DEF ForWriters, WantWrite
    <3>5. QED
      BY <3>4
  <2>3. ReadersHelped'
    <3>1. ASSUME NEW r \in Thread, pc'[r] = "r_sleep", Down(r)'
          PROVE  FALSE
      <4>1. p_wchan'[r] = "readers"
        <5>1. p_wchan'[r] \in Chan /\ InSleep(r)'
          BY <2>1, <3>1 DEF SleepersInv, SleepShape, Down
        <5>2. QED
          BY <3>1, <5>1 DEF InSleep
      <4>2. QED
        BY <2>1, <4>1
    <3>2. QED
      BY <3>1 DEF ReadersHelped
  <2>4. QED
    BY <2>1, <2>2, <2>3 DEF StrandInv
<1>4. ASSUME Goto(p, "idle"), wakeup_n("waiters", 1), pc[p] = "x_wakeone"
      PROVE  StrandInv'
  <2>1. /\ SleepersInv' /\ \A q \in Thread \ {p} : pc'[q] = pc[q]
        /\ \A q \in Thread : Down(q)' => q # p /\ Down(q)
        /\ pc[p] \notin SleepPlaces
        /\ \/ \A q \in Thread : p_wchan[q] # "waiters"
           \/ \E q \in Thread : p_wchan[q] = "waiters" /\ p_wchan'[q] = NULL
    BY <1>1, <1>4, WakeKeepsOthers
  <2>2. WritersHelped'
    <3> SUFFICES ASSUME NEW r \in Thread, pc'[r] = "w_sleep", Down(r)'
                 PROVE  \E q \in Thread : ForWriters(q)'
      BY DEF WritersHelped
    <3>1. pc[r] = "w_sleep" /\ Down(r)
      BY <2>1
    <3>2. p_wchan[r] = "waiters"
      BY <1>1, <3>1, ChannelTells
    <3>3. PICK q \in Thread : p_wchan[q] = "waiters" /\ p_wchan'[q] = NULL
      BY <2>1, <3>2
    <3>4. pc[q] \in {"w_load", "w_sleep"} /\ q # p
      BY <1>1, <2>1, <3>3 DEF SleepersInv, InSleep, SleepPlaces
    <3>5. ForWriters(q)'
      BY <2>1, <3>3, <3>4 DEF ForWriters, WantWrite, Down
    <3>6. QED
      BY <3>5
  <2>3. ReadersHelped'
    <3> SUFFICES ASSUME rwl_owner = Unlocked, NEW r \in Thread, pc'[r] = "r_sleep", Down(r)'
                 PROVE  \E q \in Thread : ForReaders(q)'
      BY <1>1, <1>2 DEF ReadersHelped
    <3>1. pc[r] = "r_sleep" /\ Down(r)
      BY <2>1
    <3>2. PICK q \in Thread : ForReaders(q)
      BY <3>1 DEF StrandInv, ReadersHelped
    <3>3. q # p
      BY <1>4, <3>2 DEF ForReaders, WantWrite
    <3>4. ForReaders(q)'
      BY <2>1, <3>2, <3>3 DEF ForReaders
    <3>5. QED
      BY <3>4
  <2>4. QED
    BY <2>1, <2>2, <2>3 DEF StrandInv
<1>5. QED
  BY <1>3, <1>4 DEF DowngradeWake, ExitedWake

-----------------------------------------------------------------------------
(* The invariant and what it gives.                                        *)

\* Nobody sleeps when the lock is made.
LEMMA StrandInit == Init => StrandInv
<1> SUFFICES ASSUME Init PROVE StrandInv
  OBVIOUS
<1> USE ChanAssumption, NULLAssumption
<1>1. LockInv
  BY LockInit
<1>2. /\ slpque = [c \in Chan |-> <<>>] /\ p_wchan = [p \in Thread |-> NULL]
      /\ p_stat = [p \in Thread |-> "SONPROC"] /\ p_flag = [p \in Thread |-> {}]
      /\ sf = [p \in Thread |-> [pc |-> "run", timed |-> FALSE, do_sleep |-> FALSE,
                                 catch |-> FALSE, error |-> "0"]]
      /\ pc = [p \in Thread |-> "idle"] /\ flags = [p \in Thread |-> {}]
  BY DEF Init, SleepInit
<1>3. SleepShape
  <2>1. sf \in [Thread -> SleepFrame]
    BY <1>2 DEF SleepFrame, SleepPC, Error
  <2>2. p_stat \in [Thread -> Stat] /\ p_flag \in [Thread -> SUBSET Flag]
    BY <1>2 DEF Stat
  <2>3. slpque \in [Chan -> Seq(Thread)] /\ p_wchan \in [Thread -> Chan \cup {NULL}]
    BY <1>2
  <2>4. QED
    BY <2>1, <2>2, <2>3 DEF SleepShape
<1>4. QueuesExact
  <2>1. NoDup(<<>>) /\ Elements(<<>>) = {}
    BY DEF NoDup, Elements
  <2>2. ASSUME NEW c \in Chan
        PROVE  NoDup(slpque[c]) /\ Elements(slpque[c]) = {p \in Thread : p_wchan[p] = c}
    <3>1. slpque[c] = <<>> /\ {p \in Thread : p_wchan[p] = c} = {}
      BY <1>2
    <3>2. QED
      BY <2>1, <3>1
  <2>3. QED
    BY <2>2 DEF QueuesExact
<1>5. ASSUME NEW p \in Thread
      PROVE  Uninterrupted(p) /\ InSleep(p) /\ ~Down(p)
  <2>1. /\ pc[p] = "idle" /\ flags[p] = {} /\ p_wchan[p] = NULL /\ p_flag[p] = {}
        /\ sf[p].pc = "run" /\ ~sf[p].catch
    BY <1>2
  <2>2. QED
    BY <2>1 DEF Uninterrupted, InSleep, Down
<1>6. QED
  BY <1>1, <1>3, <1>4, <1>5 DEF StrandInv, SleepersInv, WritersHelped, ReadersHelped

\* A step that changes neither the lock nor a sleep.
LEMMA StrandSame ==
    ASSUME StrandInv,
           UNCHANGED <<sleepVars, rwl_owner, rwl_waiters, rwl_readers, pc, flags>>
    PROVE  StrandInv'
<1>1. UNCHANGED <<slpque, p_wchan, p_stat, p_flag, sf>>
  BY DEF sleepVars
<1>2. LockInv'
  BY LockUnchanged DEF StrandInv
<1>3. SleepersInv'
  BY <1>1 DEF StrandInv, SleepersInv, SleepShape, QueuesExact, Uninterrupted, InSleep
<1>4. WritersHelped' /\ ReadersHelped'
  BY <1>1 DEF StrandInv, WritersHelped, ReadersHelped, ForWriters, ForReaders, Down,
              Unlocked, Readers
<1>5. QED
  BY <1>2, <1>3, <1>4 DEF StrandInv

\* Every step keeps it, if no caller passes RW_INTR.
LEMMA StrandNext ==
    ASSUME \A f \in EnterFlags : "RW_INTR" \notin f, StrandInv, [Next]_vars
    PROVE  StrandInv'
<1>1. LockInv'
  BY LockNext DEF StrandInv
<1>2. CASE UNCHANGED vars
  BY <1>2, StrandSame DEF vars, lockVars
<1>3. ASSUME NEW p \in Thread, Start(p)
      PROVE  StrandInv'
  <2>1. CASE Upgrade(p) /\ rwl_owner # Readers(1)
    BY <2>1, StrandSame DEF Upgrade
  <2>2. CASE ~(Upgrade(p) /\ rwl_owner # Readers(1))
    BY <1>1, <1>3, <2>2, EnterQuiet, HolderQuiet DEF Start
  <2>3. QED
    BY <2>1, <2>2
<1>4. ASSUME NEW p \in Thread, Go(p)
      PROVE  StrandInv'
  <2>1. CASE \/ SleepStep(p) /\ UNCHANGED <<lockVars, pc, flags>>
             \/ Userret(p)
    BY <2>1, SleepKeeps DEF Userret, lockVars
  <2>2. CASE ~(\/ SleepStep(p) /\ UNCHANGED <<lockVars, pc, flags>>
               \/ Userret(p))
    BY <1>1, <1>4, <2>2, WriteQuiet, ReadQuiet, HolderQuiet, ExitedQuiet, SetupKeeps,
       LoadKeeps, WokenKeeps, WakeKeeps DEF Go
  <2>3. QED
    BY <2>1, <2>2
<1>5. ASSUME NEW p \in Thread, NEW s \in Signals, Kill(p, s)
      PROVE  StrandInv'
  BY <1>5, SignalsAssumption, SleepKeeps DEF Kill, lockVars
<1>6. QED
  BY <1>2, <1>3, <1>4, <1>5 DEF Next

\* Somebody who is on the way is neither outside the lock nor asleep.
LEMMA HelpIsAwake ==
    ASSUME StrandInv
    PROVE  NotStranded
<1> SUFFICES ASSUME rwl_owner = Unlocked, \A p \in Thread : pc[p] = "idle" \/ Asleep(p),
                    NEW r \in Thread, Asleep(r)
             PROVE  FALSE
  BY DEF NotStranded
<1>1. ASSUME NEW p \in Thread, Asleep(p)
      PROVE  Down(p)
  <2>1. InSleep(p) /\ sf[p].pc = "switched" /\ p_wchan[p] # NULL
    BY <1>1 DEF Asleep, StrandInv, SleepersInv
  <2>2. QED
    BY <2>1 DEF InSleep, Down
<1>2. \A p \in Thread : ~ForWriters(p)
  <2>1. ASSUME NEW p \in Thread, ForWriters(p)
        PROVE  FALSE
    <3>1. pc[p] # "idle"
      BY <2>1 DEF ForWriters, WantWrite
    <3>2. Down(p)
      BY <1>1, <3>1
    <3>3. QED
      BY <2>1, <3>2 DEF ForWriters, Down
  <2>2. QED
    BY <2>1
<1>3. \A p \in Thread : ~(pc[p] = "w_sleep" /\ Down(p))
  BY <1>2 DEF StrandInv, WritersHelped
<1>4. pc[r] = "r_sleep" /\ Down(r)
  BY <1>1, <1>3 DEF Down
<1>5. PICK q \in Thread : ForReaders(q)
  BY <1>4 DEF StrandInv, ReadersHelped
<1>6. Down(q)
  BY <1>1, <1>5 DEF ForReaders, WantWrite
<1>7. pc[q] = "w_sleep"
  BY <1>5, <1>6 DEF ForReaders, WantWrite, Down
<1>8. QED
  BY <1>3, <1>6, <1>7

(* No wakeup of the lock is lost: if no caller passes RW_INTR, nobody is   *)
(* left asleep on a free lock, whatever enters, exits and signals          *)
(* interleave, with stops of a sleeping thread too.  With RW_INTR the one  *)
(* writer that rw_exited wakes may take the signal and leave.              *)
THEOREM NobodyStranded ==
    ASSUME \A f \in EnterFlags : "RW_INTR" \notin f
    PROVE  Spec => []NotStranded
<1>1. Init => StrandInv
  BY StrandInit
<1>2. StrandInv /\ [Next]_vars => StrandInv'
  BY StrandNext
<1>3. StrandInv => NotStranded
  BY HelpIsAwake
<1>4. QED
  BY <1>1, <1>2, <1>3, PTL DEF Spec
=============================================================================
