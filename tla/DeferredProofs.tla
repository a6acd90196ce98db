--------------------------- MODULE DeferredProofs ---------------------------
(***************************************************************************)
(* Proofs about what is left for later. Smr and Srp free what readers may  *)
(* still hold: Smr for any CPUs, pointers and objects and any number of    *)
(* grace periods after which their count comes round; Srp for any CPUs,    *)
(* updaters, pointers and values and any number of hazard records. Timeout *)
(* leaves it to a clock: for any timeouts, callers and workloads and any   *)
(* size of a wheel.                                                        *)
(***************************************************************************)
EXTENDS Smr, Srp, Timeout, QueueProofs

-----------------------------------------------------------------------------
(* Safe memory reclamation                                                 *)

(* The values of the variables, where SmrTypeOK has no name for them.      *)
GracePeriod == 0 .. Periods - 1
Spc == [smrgp : GracePeriod, deferred : Seq(Obj), expedite : BOOLEAN]
SmrPcs == {"bored", "woken", "pause", "paused", "check", "announce", "visit", "peg"}
SmrThread == [pc : SmrPcs, list : Seq(Obj), todo : Seq(SmrCPU)]
AtPcs == {"out", "idle", "dispatch", "wake", "readgp", "storegp"}

(* The types, of what SmrTypeOK leaves out too.                            *)
SmrShape ==
    /\ SmrTypeOK
    /\ spc \in [SmrCPU -> Spc]
    /\ smrgp \in [SmrCPU -> GracePeriod]
    /\ smr_deferred \in Seq(Obj)
    /\ smr_expedite \in BOOLEAN /\ smr_wakeup_tmo \in BOOLEAN
    /\ smr \in SmrThread
    /\ smr.pc = "peg" => smr.todo # <<>>

Entries(s) == {s[i] : i \in DOMAIN s}
NoRepeat(s) == \A i, j \in DOMAIN s : s[i] = s[j] => i = j

(* What the lists have in them after they are joined, or one is added or   *)
(* taken.                                                                  *)
LEMMA JoinedEntries ==
    ASSUME NEW S, NEW s \in Seq(S), NEW t \in Seq(S)
    PROVE  /\ s \o t \in Seq(S)
           /\ Entries(s \o t) = Entries(s) \cup Entries(t)
           /\ NoRepeat(s) /\ NoRepeat(t) /\ Entries(s) \cap Entries(t) = {}
                 => NoRepeat(s \o t)
<1>1. /\ Len(s) \in Nat /\ DOMAIN s = 1 .. Len(s)
      /\ Len(t) \in Nat /\ DOMAIN t = 1 .. Len(t)
      /\ s \o t \in Seq(S) /\ DOMAIN (s \o t) = 1 .. Len(s) + Len(t)
      /\ \A i \in DOMAIN (s \o t) :
            (s \o t)[i] = IF i <= Len(s) THEN s[i] ELSE t[i - Len(s)]
  BY LenProperties, ConcatProperties
<1>2. Entries(s \o t) = Entries(s) \cup Entries(t)
  <2>1. ASSUME NEW x \in Entries(s) PROVE x \in Entries(s \o t)
    BY <1>1, <2>1 DEF Entries
  <2>2. ASSUME NEW x \in Entries(t) PROVE x \in Entries(s \o t)
    <3>1. PICK j \in 1 .. Len(t) : x = t[j]
      BY <1>1, <2>2 DEF Entries
    <3>2. Len(s) + j \in DOMAIN (s \o t) /\ (s \o t)[Len(s) + j] = t[j]
      BY <1>1, <3>1
    <3>3. QED
      BY <3>1, <3>2 DEF Entries
  <2>3. ASSUME NEW x \in Entries(s \o t) PROVE x \in Entries(s) \cup Entries(t)
    BY <1>1, <2>3 DEF Entries
  <2>4. QED
    BY <2>1, <2>2, <2>3
<1>3. ASSUME NoRepeat(s), NoRepeat(t), Entries(s) \cap Entries(t) = {},
             NEW i \in DOMAIN (s \o t), NEW j \in DOMAIN (s \o t),
             (s \o t)[i] = (s \o t)[j]
      PROVE  i = j
  <2>1. CASE i <= Len(s) /\ j <= Len(s)
    BY <1>1, <1>3, <2>1 DEF NoRepeat
  <2>2. CASE i > Len(s) /\ j > Len(s)
    <3>1. t[i - Len(s)] = t[j - Len(s)] /\ i - Len(s) \in DOMAIN t /\ j - Len(s) \in DOMAIN t
      BY <1>1, <1>3, <2>2
    <3>2. i - Len(s) = j - Len(s)
      BY <1>3, <3>1 DEF NoRepeat
    <3>3. QED
      BY <1>1, <3>2
  <2>3. CASE (i <= Len(s) /\ j > Len(s)) \/ (j <= Len(s) /\ i > Len(s))
    <3>1. ASSUME NEW k \in DOMAIN (s \o t), NEW m \in DOMAIN (s \o t),
                 k <= Len(s), m > Len(s), (s \o t)[k] = (s \o t)[m]
          PROVE  FALSE
      <4>1. k \in DOMAIN s /\ m - Len(s) \in DOMAIN t /\ s[k] = t[m - Len(s)]
        BY <1>1, <3>1
      <4>2. s[k] \in Entries(s) /\ s[k] \in Entries(t)
        BY <4>1 DEF Entries
      <4>3. QED
        BY <1>3, <4>2
    <3>2. QED
      BY <1>3, <2>3, <3>1
  <2>4. QED
    BY <1>1, <2>1, <2>2, <2>3
<1>4. QED
  BY <1>1, <1>2, <1>3 DEF NoRepeat

(* An entry is queued behind the others.                                   *)
LEMMA AppendedEntries ==
    ASSUME NEW S, NEW s \in Seq(S), NEW x \in S
    PROVE  /\ Append(s, x) \in Seq(S)
           /\ Entries(Append(s, x)) = Entries(s) \cup {x}
           /\ NoRepeat(s) /\ x \notin Entries(s) => NoRepeat(Append(s, x))
<1>1. /\ Len(s) \in Nat /\ DOMAIN s = 1 .. Len(s)
      /\ Append(s, x) \in Seq(S) /\ DOMAIN Append(s, x) = 1 .. Len(s) + 1
      /\ \A i \in 1 .. Len(s) : Append(s, x)[i] = s[i]
      /\ Append(s, x)[Len(s) + 1] = x
  BY LenProperties, AppendProperties
<1>2. Entries(Append(s, x)) = Entries(s) \cup {x}
  BY <1>1 DEF Entries
<1>3. NoRepeat(s) /\ x \notin Entries(s) => NoRepeat(Append(s, x))
  BY <1>1 DEF Entries, NoRepeat
<1>4. QED
  BY <1>1, <1>2, <1>3

(* The first entry of a queue is taken.                                    *)
LEMMA TailEntries ==
    ASSUME NEW S, NEW s \in Seq(S), s # <<>>
    PROVE  /\ Tail(s) \in Seq(S) /\ Head(s) \in S
           /\ Entries(s) = Entries(Tail(s)) \cup {Head(s)}
           /\ NoRepeat(s) => NoRepeat(Tail(s)) /\ Head(s) \notin Entries(Tail(s))
<1>1. /\ Len(s) \in Nat \ {0} /\ DOMAIN s = 1 .. Len(s)
      /\ Head(s) = s[1] /\ Head(s) \in S
      /\ Tail(s) \in Seq(S) /\ DOMAIN Tail(s) = 1 .. Len(s) - 1
      /\ \A i \in 1 .. Len(s) - 1 : Tail(s)[i] = s[i + 1]
  <2>1. /\ Len(s) \in Nat \ {0} /\ DOMAIN s = 1 .. Len(s)
        /\ Head(s) = s[1] /\ Head(s) \in S
        /\ Tail(s) \in Seq(S) /\ Len(Tail(s)) = Len(s) - 1
        /\ \A i \in 1 .. Len(Tail(s)) : Tail(s)[i] = s[i + 1]
    BY LenProperties, EmptySeq, HeadTailProperties
  <2>2. DOMAIN Tail(s) = 1 .. Len(Tail(s))
    BY <2>1, LenProperties
  <2>3. QED
    BY <2>1, <2>2
<1>2. Entries(s) = Entries(Tail(s)) \cup {Head(s)}
  <2>1. ASSUME NEW x \in Entries(s) PROVE x \in Entries(Tail(s)) \cup {Head(s)}
    <3>1. PICK i \in 1 .. Len(s) : x = s[i]
      BY <1>1, <2>1 DEF Entries
    <3>2. CASE i = 1
      BY <1>1, <3>1, <3>2
    <3>3. CASE i # 1
      <4>1. i - 1 \in DOMAIN Tail(s) /\ Tail(s)[i - 1] = s[i]
        BY <1>1, <3>1, <3>3
      <4>2. QED
        BY <3>1, <4>1 DEF Entries
    <3>4. QED
      BY <3>2, <3>3
  <2>2. ASSUME NEW x \in Entries(Tail(s)) PROVE x \in Entries(s)
    <3>1. PICK i \in 1 .. Len(s) - 1 : x = s[i + 1]
      BY <1>1, <2>2 DEF Entries
    <3>2. i + 1 \in DOMAIN s
      BY <1>1, <3>1
    <3>3. QED
      BY <3>1, <3>2 DEF Entries
  <2>3. Head(s) \in Entries(s)
    BY <1>1 DEF Entries
  <2>4. QED
    BY <2>1, <2>2, <2>3
<1>3. ASSUME NoRepeat(s) PROVE NoRepeat(Tail(s)) /\ Head(s) \notin Entries(Tail(s))
  BY <1>1, <1>3 DEF NoRepeat, Entries
<1>4. QED
  BY <1>1, <1>2, <1>3

(* The loop over the CPUs meets every one.                                 *)
LEMMA AllCPUs == CPUs \in Seq(SmrCPU) /\ Entries(CPUs) = SmrCPU
<1> DEFINE n == Cardinality(SmrCPU)
<1>1. n \in Nat /\ ExistsBijection(1 .. n, SmrCPU)
  BY SmrAssumption, FS_CardinalityType
<1>2. \E f \in [1 .. n -> SmrCPU] : IsInjective(f)
  BY <1>1 DEF ExistsBijection, Bijection, Injection
<1>3. CPUs \in [1 .. n -> SmrCPU] /\ IsInjective(CPUs)
  BY <1>2 DEF CPUs, SetToSeq
<1>4. CPUs \in Injection(1 .. n, SmrCPU)
  BY <1>3 DEF Injection
<1>5. IsFiniteSet(1 .. n) /\ Cardinality(1 .. n) = n
  BY <1>1, FS_Interval
<1>6. CPUs \in Surjection(1 .. n, SmrCPU)
  BY <1>4, <1>5, SmrAssumption, FS_Injection
<1>7. QED
  BY <1>1, <1>3, <1>6, IsASeq DEF Surjection, Entries

(* A CPU moves on, at one interrupt level.                                 *)
LEMMA AtUpdates ==
    ASSUME SmrTypeOK, NEW c \in SmrCPU, NEW l \in Level, NEW p \in AtPcs,
           at' = [at EXCEPT ![c][l] = p]
    PROVE  /\ at' \in [SmrCPU -> [Level -> AtPcs]]
           /\ at'[c][l] = p
           /\ \A k \in Level \ {l} : at'[c][k] = at[c][k]
           /\ \A d \in SmrCPU \ {c} : at'[d] = at[d]
  BY DEF SmrTypeOK, AtPcs

(* wakeup(&smr_ndeferred) changes where the thread is, if it sleeps.       *)
LEMMA WakeupEffect ==
    ASSUME SmrShape, smr_wakeup
    PROVE  /\ smr' \in SmrThread /\ smr'.list = smr.list /\ smr'.todo = smr.todo
           /\ smr'.pc = IF smr.pc = "bored" THEN "woken"
                        ELSE IF smr.pc = "pause" THEN "paused" ELSE smr.pc
<1>1. smr \in SmrThread
  BY DEF SmrShape
<1>2. CASE smr.pc = "bored"
  <2>1. smr' = [smr EXCEPT !.pc = "woken"] /\ "woken" \in SmrPcs
    BY <1>2 DEF smr_wakeup, SmrPcs
  <2>2. QED
    BY <1>1, <1>2, <2>1 DEF SmrThread
<1>3. CASE smr.pc = "pause"
  <2>1. smr' = [smr EXCEPT !.pc = "paused"] /\ "paused" \in SmrPcs
    BY <1>3 DEF smr_wakeup, SmrPcs
  <2>2. QED
    BY <1>1, <1>3, <2>1 DEF SmrThread, SmrPcs
<1>4. CASE smr.pc \notin {"bored", "pause"}
  BY <1>1, <1>4 DEF smr_wakeup
<1>5. QED
  BY <1>2, <1>3, <1>4

(* mi_switch() to p, which goes to smr_idle() first.                       *)
LEMMA SwitchEffect ==
    ASSUME SmrShape, NEW c \in SmrCPU, NEW p \in {"idle", "thread", "smr"},
           SwitchTo(c, p)
    PROVE  /\ curproc' \in [SmrCPU -> {"idle", "thread", "smr"}]
           /\ curproc'[c] = p /\ \A d \in SmrCPU \ {c} : curproc'[d] = curproc[d]
           /\ at' \in [SmrCPU -> [Level -> AtPcs]]
           /\ at'[c]["process"] = "idle" /\ at'[c]["interrupt"] = at[c]["interrupt"]
           /\ \A d \in SmrCPU \ {c} : at'[d] = at[d]
<1>1. "idle" \in AtPcs /\ "process" \in Level /\ "interrupt" \in Level \ {"process"}
  BY DEF AtPcs, Level
<1>2. /\ curproc' \in [SmrCPU -> {"idle", "thread", "smr"}]
      /\ curproc'[c] = p /\ \A d \in SmrCPU \ {c} : curproc'[d] = curproc[d]
  BY DEF SwitchTo, SmrShape, SmrTypeOK
<1>3. SmrTypeOK /\ at' = [at EXCEPT ![c]["process"] = "idle"]
  BY DEF SwitchTo, SmrShape
<1>4. /\ at' \in [SmrCPU -> [Level -> AtPcs]]
      /\ at'[c]["process"] = "idle"
      /\ \A k \in Level \ {"process"} : at'[c][k] = at[c][k]
      /\ \A d \in SmrCPU \ {c} : at'[d] = at[d]
  BY <1>1, <1>3, AtUpdates
<1>5. QED
  BY <1>1, <1>2, <1>4

(* What the steps of the CPUs do to the per-CPU records.                   *)
LEMMA CallEffect ==
    ASSUME SmrShape, NEW c \in SmrCPU, NEW n \in Obj \cup {NoObj}, NEW x \in BOOLEAN,
           smr_call_impl(c, n, x), ptr # NoObj
    PROVE  /\ spc' \in [SmrCPU -> Spc] /\ ptr \in Obj
           /\ spc'[c].smrgp = spc[c].smrgp
           /\ spc'[c].deferred = Append(spc[c].deferred, ptr)
           /\ spc'[c].expedite = (spc[c].expedite \/ x)
           /\ \A d \in SmrCPU \ {c} : spc'[d] = spc[d]
           /\ at' \in [SmrCPU -> [Level -> AtPcs]]
           /\ at'[c]["process"] = at[c]["process"]
           /\ curproc[c] = "idle" => at'[c]["interrupt"] = "dispatch"
           /\ at'[c]["interrupt"] = at[c]["interrupt"] \/ at[c]["interrupt"] = "out"
           /\ \A d \in SmrCPU \ {c} : at'[d] = at[d]
<1>1. spc[c] \in Spc /\ ptr \in Obj
  BY DEF SmrShape, SmrTypeOK
<1>2. Append(spc[c].deferred, ptr) \in Seq(Obj) /\ (spc[c].expedite \/ x) \in BOOLEAN
  BY <1>1, AppendProperties DEF Spc
<1>3. spc' = [spc EXCEPT ![c] = [spc[c] EXCEPT !.deferred = Append(spc[c].deferred, ptr),
                                               !.expedite = spc[c].expedite \/ x]]
  BY DEF smr_call_impl, SmrShape
<1>4. /\ spc' \in [SmrCPU -> Spc] /\ spc'[c].smrgp = spc[c].smrgp
      /\ spc'[c].deferred = Append(spc[c].deferred, ptr)
      /\ spc'[c].expedite = (spc[c].expedite \/ x)
      /\ \A d \in SmrCPU \ {c} : spc'[d] = spc[d]
  <2>1. /\ spc'[c] = [spc[c] EXCEPT !.deferred = Append(spc[c].deferred, ptr),
                                   !.expedite = spc[c].expedite \/ x]
        /\ \A d \in SmrCPU \ {c} : spc'[d] = spc[d]
    BY <1>3 DEF SmrShape
  <2>2. /\ spc'[c] \in Spc /\ spc'[c].smrgp = spc[c].smrgp
        /\ spc'[c].deferred = Append(spc[c].deferred, ptr)
        /\ spc'[c].expedite = (spc[c].expedite \/ x)
    BY <1>1, <1>2, <2>1 DEF Spc
  <2>3. QED
    BY <1>3, <2>1, <2>2 DEF SmrShape
<1>5. /\ at' \in [SmrCPU -> [Level -> AtPcs]]
      /\ at'[c]["process"] = at[c]["process"]
      /\ curproc[c] = "idle" => at'[c]["interrupt"] = "dispatch"
      /\ \A d \in SmrCPU \ {c} : at'[d] = at[d]
  <2>1. "dispatch" \in AtPcs /\ "interrupt" \in Level /\ "process" \in Level \ {"interrupt"}
    BY DEF AtPcs, Level
  <2>2. at' = IfIdle(c)
    BY DEF smr_call_impl
  <2>3. CASE curproc[c] = "idle"
    <3>1. SmrTypeOK /\ at' = [at EXCEPT ![c]["interrupt"] = "dispatch"]
      BY <2>2, <2>3 DEF IfIdle, SmrShape
    <3>2. /\ at' \in [SmrCPU -> [Level -> AtPcs]]
          /\ at'[c]["interrupt"] = "dispatch"
          /\ \A k \in Level \ {"interrupt"} : at'[c][k] = at[c][k]
          /\ \A d \in SmrCPU \ {c} : at'[d] = at[d]
      BY <2>1, <3>1, AtUpdates
    <3>3. QED
      BY <2>1, <3>2
  <2>4. CASE curproc[c] # "idle"
    BY <2>2, <2>4 DEF IfIdle, SmrShape, SmrTypeOK, AtPcs
  <2>5. QED
    BY <2>3, <2>4
<1>6. at[c]["interrupt"] = "out"
  BY DEF smr_call_impl
<1>7. QED
  BY <1>1, <1>4, <1>5, <1>6

(* smr_dispatch() leaves the CPU without entries of its own.               *)
LEMMA DispatchEffect ==
    ASSUME SmrShape, NEW c \in SmrCPU, NEW l \in Level, smr_dispatch(c, l)
    PROVE  /\ spc' \in [SmrCPU -> Spc]
           /\ spc'[c].smrgp = spc[c].smrgp
           /\ spc'[c].deferred = <<>> /\ ~spc'[c].expedite
           /\ \A d \in SmrCPU \ {c} : spc'[d] = spc[d]
<1>1. spc[c] \in Spc /\ <<>> \in Seq(Obj) /\ FALSE \in BOOLEAN
  BY DEF SmrShape
<1>2. spc' = [spc EXCEPT ![c] = [spc[c] EXCEPT !.deferred = <<>>, !.expedite = FALSE]]
  BY DEF smr_dispatch, SmrShape
<1>3. /\ spc'[c] = [spc[c] EXCEPT !.deferred = <<>>, !.expedite = FALSE]
      /\ \A d \in SmrCPU \ {c} : spc'[d] = spc[d]
  BY <1>2 DEF SmrShape
<1>4. /\ spc'[c] \in Spc /\ spc'[c].smrgp = spc[c].smrgp
      /\ spc'[c].deferred = <<>> /\ ~spc'[c].expedite
  BY <1>1, <1>3 DEF Spc
<1>5. QED
  BY <1>2, <1>3, <1>4 DEF SmrShape

(* A CPU stores the grace period it has seen.                              *)
LEMMA PeriodEffect ==
    ASSUME SmrShape, NEW c \in SmrCPU, NEW g \in GracePeriod,
           spc' = [spc EXCEPT ![c].smrgp = g]
    PROVE  /\ spc' \in [SmrCPU -> Spc]
           /\ spc'[c].smrgp = g
           /\ spc'[c].deferred = spc[c].deferred /\ spc'[c].expedite = spc[c].expedite
           /\ \A d \in SmrCPU \ {c} : spc'[d] = spc[d]
<1>1. spc[c] \in Spc
  BY DEF SmrShape
<1>2. /\ spc'[c] = [spc[c] EXCEPT !.smrgp = g]
      /\ \A d \in SmrCPU \ {c} : spc'[d] = spc[d]
  BY DEF SmrShape
<1>3. /\ spc'[c] \in Spc /\ spc'[c].smrgp = g
      /\ spc'[c].deferred = spc[c].deferred /\ spc'[c].expedite = spc[c].expedite
  BY <1>1, <1>2 DEF Spc
<1>4. QED
  BY <1>2, <1>3 DEF SmrShape

(* A step from one place of the code to another, at one level.             *)
LEMMA GoesEffect ==
    ASSUME SmrShape, NEW c \in SmrCPU, NEW l \in Level, NEW from \in AtPcs, NEW to \in AtPcs,
           Goes(c, l, from, to)
    PROVE  /\ at' \in [SmrCPU -> [Level -> AtPcs]]
           /\ at[c][l] = from /\ at'[c][l] = to
           /\ \A k \in Level \ {l} : at'[c][k] = at[c][k]
           /\ \A d \in SmrCPU \ {c} : at'[d] = at[d]
  BY AtUpdates DEF Goes, SmrShape

-----------------------------------------------------------------------------
(* Every object that was replaced is on one list, once, until it is freed. *)
Once ==
    /\ \A o \in Obj : objlife[o] = "live" <=> o = ptr
    /\ \A o \in Entries(smr_deferred) \cup Entries(smr.list) : objlife[o] = "unlinked"
    /\ NoRepeat(smr_deferred) /\ NoRepeat(smr.list)
    /\ Entries(smr_deferred) \cap Entries(smr.list) = {}
    /\ \A c \in SmrCPU :
          /\ NoRepeat(spc[c].deferred)
          /\ \A o \in Entries(spc[c].deferred) :
                /\ objlife[o] = "unlinked"
                /\ o \notin Entries(smr_deferred) /\ o \notin Entries(smr.list)
                /\ \A d \in SmrCPU \ {c} : o \notin Entries(spc[d].deferred)

After(g) == (g + 1) % Periods

(* The thread is in smr_grace_wait(), past the announcement.               *)
Waiting == smr.pc \in {"visit", "peg"}

(* A CPU is in the current period, but while the thread waits it may be in *)
(* the one before, if the thread has still to look; a CPU will store no    *)
(* older period than it is in; and the thread runs where it wants to, past *)
(* the smr_idle() of that CPU.                                             *)
Period ==
    /\ \A c \in SmrCPU :
          /\ \/ spc[c].smrgp = smr_grace_period
             \/ /\ Waiting /\ c \in Entries(smr.todo)
                /\ After(spc[c].smrgp) = smr_grace_period
          /\ at[c]["process"] = "storegp" => smrgp[c] \in {spc[c].smrgp, smr_grace_period}
          /\ curproc[c] = "smr" =>
                /\ \A d \in SmrCPU : curproc[d] = "smr" => d = c
                /\ smr.pc = "peg" =>
                      /\ c = Head(smr.todo)
                      /\ at[c]["process"] = "storegp" => smrgp[c] = smr_grace_period
                      /\ at[c]["process"] = "out" => spc[c].smrgp = smr_grace_period
    /\ smr.pc \notin {"announce", "visit", "peg"} => smr.list = <<>>

(* A CPU that is in the current period, or about to store it.              *)
Passed(c) ==
    \/ spc[c].smrgp = smr_grace_period
    \/ at[c]["process"] = "storegp" /\ smrgp[c] = smr_grace_period

(* What a reader holds is not free, and not to be freed after this period  *)
(* by a thread that has seen its CPU, or may see it, in the period.        *)
Holds ==
    \A c \in SmrCPU :
        /\ ~reader[c].in => reader[c].o = NoObj
        /\ reader[c].o # NoObj => objlife[reader[c].o] # "free"
        /\ Waiting /\ Passed(c) => reader[c].o \notin Entries(smr.list)

(* Entries that a CPU will dispatch, and expedited ones are entries.       *)
Dispatches ==
    /\ \A c \in SmrCPU :
          /\ curproc[c] = "idle" /\ spc[c].deferred # <<>> =>
                \/ at[c]["interrupt"] = "dispatch"
                \/ at[c]["process"] \in {"idle", "dispatch"}
          /\ spc[c].expedite => spc[c].deferred # <<>>
    /\ smr_expedite => smr_deferred # <<>>

(* What smr_dispatch() will do is not forgotten.                           *)
Pending == \A c \in SmrCPU, l \in Level : wake[c][l] # "no" => at[c][l] = "wake"

(* A wakeup is coming for a thread that sleeps in spite of entries.        *)
Wakes ==
    /\ smr.pc = "bored" /\ smr_deferred # <<>> =>
          smr_wakeup_tmo \/ Coming({"tmo", "expedite"})
    /\ smr.pc \in {"bored", "pause"} /\ smr_expedite => Coming({"expedite"})

SmrInv == SmrShape /\ Once /\ Period /\ Holds /\ Dispatches /\ Pending /\ Wakes

(* The periods before and after are others.                                *)
LEMMA AfterValue ==
    ASSUME NEW g \in GracePeriod
    PROVE  /\ After(g) \in GracePeriod /\ After(g) # g
           /\ (g - g) % Periods = 0 /\ (After(g) - g) % Periods = 1
<1>1. After(g) = IF g = Periods - 1 THEN 0 ELSE g + 1
  BY SmrAssumption DEF After, GracePeriod
<1>2. After(g) \in GracePeriod /\ After(g) # g
  BY <1>1, SmrAssumption DEF GracePeriod
<1>3. (g - g) % Periods = 0 /\ (After(g) - g) % Periods = 1
  BY <1>1, SmrAssumption DEF GracePeriod
<1>4. QED
  BY <1>2, <1>3

-----------------------------------------------------------------------------
(* The parts of the invariant, where a step leaves alone what they are     *)
(* about.                                                                  *)
LEMMA OnceFrame ==
    ASSUME Once, UNCHANGED <<ptr, objlife, smr_deferred>>, smr'.list = smr.list,
           \A c \in SmrCPU : spc'[c].deferred = spc[c].deferred
    PROVE  Once'
  BY DEF Once

(* Steps that leave the grace periods as they are, and the thread where it *)
(* is or outside the wait for them.                                        *)
LEMMA PeriodFrame ==
    ASSUME Period, UNCHANGED smr_grace_period,
           smr'.list = smr.list, smr'.todo = smr.todo,
           smr.pc \in {"announce", "visit", "peg"} \/ smr'.pc \in {"announce", "visit", "peg"}
               => smr'.pc = smr.pc,
           \A c \in SmrCPU : /\ spc'[c].smrgp = spc[c].smrgp
                             /\ at'[c]["process"] = at[c]["process"]
                                \/ at'[c]["process"] \notin {"storegp", "out"}
                             /\ smrgp'[c] = smrgp[c]
                             /\ curproc'[c] = curproc[c]
    PROVE  Period'
  BY DEF Period, Waiting

(* Steps that leave the readers, their objects and the grace periods as    *)
(* they are.                                                               *)
LEMMA HoldsFrame ==
    ASSUME Holds, UNCHANGED <<reader, objlife, smr_grace_period>>,
           smr'.list = smr.list, Waiting' => Waiting,
           \A c \in SmrCPU : /\ spc'[c].smrgp = spc[c].smrgp
                             /\ at'[c]["process"] = at[c]["process"]
                                \/ at'[c]["process"] # "storegp"
                             /\ smrgp'[c] = smrgp[c]
    PROVE  Holds'
  BY DEF Holds, Passed

(* A reader begins, finds the object that is there, or ends.               *)
LEMMA ReaderPreserves ==
    ASSUME SmrInv, NEW c \in SmrCPU, smr_read_enter(c) \/ Get(c) \/ smr_read_leave(c)
    PROVE  SmrInv'
<1>1. UNCHANGED <<ptr, objlife, curproc, at, wake, spc, smrgp, smr_deferred, smr_expedite,
                  smr_grace_period, smr_wakeup_tmo, smr>>
  BY DEF smr_read_enter, Get, smr_read_leave, dataVars, deferVars
<1>2. /\ ptr \in Obj \cup {NoObj} /\ smr.list \in Seq(Obj)
      /\ reader \in [SmrCPU -> [in : BOOLEAN, o : Obj \cup {NoObj}]]
      /\ NoObj \notin Obj
  BY SmrAssumption DEF SmrInv, SmrShape, SmrTypeOK, SmrThread
<1>3. /\ \A d \in SmrCPU \ {c} : reader'[d] = reader[d]
      /\ reader'[c].o \in {NoObj, ptr} /\ (~reader'[c].in => reader'[c].o = NoObj)
      /\ reader' \in [SmrCPU -> [in : BOOLEAN, o : Obj \cup {NoObj}]]
  <2>1. CASE smr_read_enter(c)
    BY <1>2, <2>1 DEF smr_read_enter
  <2>2. CASE Get(c)
    <3>1. reader' = [reader EXCEPT ![c] = [reader[c] EXCEPT !.o = ptr]]
      BY <1>2, <2>2 DEF Get
    <3>2. QED
      BY <1>2, <2>2, <3>1 DEF Get
  <2>3. CASE smr_read_leave(c)
    BY <1>2, <2>3 DEF smr_read_leave, NotReading
  <2>4. QED
    BY <2>1, <2>2, <2>3
<1>4. SmrShape'
  BY <1>1, <1>3 DEF SmrInv, SmrShape, SmrTypeOK
<1>5. Once' /\ Period' /\ Dispatches' /\ Pending' /\ Wakes'
  BY <1>1 DEF SmrInv, Once, Period, Waiting, Dispatches, Pending, Wakes, Coming
<1>6. Holds'
  <2>1. NoObj \notin Entries(smr.list) /\ Entries(smr.list) \subseteq Obj
    BY <1>2, LenProperties, ElementOfSeq DEF Entries
  <2>2. ptr # NoObj => objlife[ptr] = "live" /\ ptr \notin Entries(smr.list)
    BY <1>2 DEF SmrInv, Once
  <2>3. QED
    BY <1>1, <1>3, <2>1, <2>2 DEF SmrInv, Holds, Waiting, Passed
<1>7. QED
  BY <1>4, <1>5, <1>6 DEF SmrInv

(* The writer replaces the object, and a reader may still have the old one. *)
LEMMA CallPreserves ==
    ASSUME SmrInv, NEW c \in SmrCPU, NEW n \in Obj \cup {NoObj}, NEW x \in BOOLEAN,
           smr_call_impl(c, n, x)
    PROVE  SmrInv'
<1>1. /\ UNCHANGED <<reader, curproc, wake, smrgp, smr_deferred, smr_expedite,
                     smr_grace_period, smr_wakeup_tmo, smr>>
      /\ ptr' = n /\ n # ptr /\ (n # NoObj => objlife[n] = "free")
      /\ objlife' \in [Obj -> {"free", "live", "unlinked"}]
      /\ \A o \in Obj : objlife'[o] = IF o = n THEN "live"
                                      ELSE IF o = ptr THEN "unlinked" ELSE objlife[o]
  BY DEF smr_call_impl, deferVars, SmrInv, SmrShape, SmrTypeOK
<1>2. /\ ptr \in Obj \cup {NoObj} /\ NoObj \notin Obj
      /\ \A d \in SmrCPU : spc[d].deferred \in Seq(Obj) /\ reader[d].o \in Obj \cup {NoObj}
      /\ \A d \in SmrCPU : Entries(spc[d].deferred) \subseteq Obj
      /\ Entries(smr_deferred) \subseteq Obj /\ Entries(smr.list) \subseteq Obj
  <2>1. /\ \A d \in SmrCPU : spc[d].deferred \in Seq(Obj) /\ reader[d].o \in Obj \cup {NoObj}
        /\ smr_deferred \in Seq(Obj) /\ smr.list \in Seq(Obj)
        /\ ptr \in Obj \cup {NoObj} /\ NoObj \notin Obj
    BY SmrAssumption DEF SmrInv, SmrShape, SmrTypeOK, Spc, SmrThread
  <2>2. \A s \in Seq(Obj) : Entries(s) \subseteq Obj
    BY LenProperties, ElementOfSeq DEF Entries
  <2>3. QED
    BY <2>1, <2>2
<1>3. Holds'
  <2>1. ASSUME NEW d \in SmrCPU, reader[d].o # NoObj PROVE objlife'[reader[d].o] # "free"
    BY <1>1, <1>2, <2>1 DEF SmrInv, Holds
  <2>2. \A d \in SmrCPU : spc'[d].smrgp = spc[d].smrgp
                          /\ at'[d]["process"] = at[d]["process"]
    <3>1. CASE ptr = NoObj
      BY <3>1 DEF smr_call_impl
    <3>2. CASE ptr # NoObj
      BY <3>2, CallEffect DEF SmrInv
    <3>3. QED
      BY <3>1, <3>2
  <2>3. QED
    BY <1>1, <2>1, <2>2 DEF SmrInv, Holds, Waiting, Passed
<1>4. /\ \A o \in Entries(smr_deferred) \cup Entries(smr.list) :
            objlife'[o] = "unlinked" /\ o # ptr
      /\ \A d \in SmrCPU : \A o \in Entries(spc[d].deferred) :
            objlife'[o] = "unlinked" /\ o # ptr
      /\ \A o \in Obj : objlife'[o] = "live" <=> o = n
  BY <1>1, <1>2 DEF SmrInv, Once
<1>5. CASE ptr = NoObj
  <2>1. UNCHANGED <<spc, at>>
    BY <1>5 DEF smr_call_impl
  <2>2. SmrShape' /\ Period' /\ Dispatches' /\ Pending' /\ Wakes'
    BY <1>1, <2>1 DEF SmrInv, SmrShape, SmrTypeOK, Period, Waiting, Dispatches, Pending, Wakes, Coming
  <2>3. Once'
    BY <1>1, <1>4, <2>1 DEF SmrInv, Once
  <2>4. QED
    BY <1>3, <2>2, <2>3 DEF SmrInv
<1>6. CASE ptr # NoObj
  <2>1. /\ spc' \in [SmrCPU -> Spc] /\ ptr \in Obj
        /\ spc'[c].smrgp = spc[c].smrgp
        /\ spc'[c].deferred = Append(spc[c].deferred, ptr)
        /\ spc'[c].expedite = (spc[c].expedite \/ x)
        /\ \A d \in SmrCPU \ {c} : spc'[d] = spc[d]
        /\ at' \in [SmrCPU -> [Level -> AtPcs]]
        /\ at'[c]["process"] = at[c]["process"]
        /\ curproc[c] = "idle" => at'[c]["interrupt"] = "dispatch"
        /\ at'[c]["interrupt"] = at[c]["interrupt"] \/ at[c]["interrupt"] = "out"
        /\ \A d \in SmrCPU \ {c} : at'[d] = at[d]
    BY <1>6, CallEffect DEF SmrInv
  <2>2. SmrShape'
    <3>1. \A d \in SmrCPU : spc'[d].smrgp \in 0 .. Periods - 1
      BY <2>1 DEF Spc, GracePeriod
    <3>2. QED
      BY <1>1, <2>1, <3>1 DEF SmrInv, SmrShape, SmrTypeOK, AtPcs
  <2>3. Period'
    <3>1. \A d \in SmrCPU : /\ spc'[d].smrgp = spc[d].smrgp
                            /\ at'[d]["process"] = at[d]["process"]
      BY <2>1
    <3>2. QED
      BY <1>1, <3>1, PeriodFrame DEF SmrInv
  <2>4. /\ Entries(spc'[c].deferred) = Entries(spc[c].deferred) \cup {ptr}
        /\ NoRepeat(spc'[c].deferred)
        /\ spc'[c].deferred # <<>>
    <3>1. ptr \notin Entries(spc[c].deferred) /\ NoRepeat(spc[c].deferred)
      BY <1>4 DEF SmrInv, Once
    <3>2. QED
      BY <1>2, <2>1, <3>1, AppendedEntries, AppendProperties
  <2>5. Once'
    <3>1. objlife'[ptr] = "unlinked"
      BY <1>1, <2>1
    <3>2. \A d \in SmrCPU \ {c} : /\ spc'[d].deferred = spc[d].deferred
                                  /\ ptr \notin Entries(spc[d].deferred)
      BY <1>4, <2>1
    <3>3. ptr \notin Entries(smr_deferred) /\ ptr \notin Entries(smr.list)
      BY <1>4
    <3>4. ASSUME NEW d \in SmrCPU, NEW o \in Entries(spc'[d].deferred)
          PROVE  /\ objlife'[o] = "unlinked"
                 /\ o \notin Entries(smr_deferred) /\ o \notin Entries(smr.list)
                 /\ \A e \in SmrCPU \ {d} : o \notin Entries(spc'[e].deferred)
      <4>1. CASE d = c /\ o = ptr
        BY <3>1, <3>2, <3>3, <4>1
      <4>2. CASE d = c /\ o # ptr
        BY <1>4, <2>4, <3>2, <3>4, <4>2 DEF SmrInv, Once
      <4>3. CASE d # c
        <5>1. o \in Entries(spc[d].deferred) /\ o # ptr
          BY <3>2, <3>4, <4>3
        <5>2. QED
          BY <1>4, <2>4, <3>2, <4>3, <5>1 DEF SmrInv, Once
      <4>4. QED
        BY <4>1, <4>2, <4>3
    <3>5. \A d \in SmrCPU : NoRepeat(spc'[d].deferred)
      BY <2>4, <3>2 DEF SmrInv, Once
    <3>6. QED
      BY <1>1, <1>4, <3>4, <3>5 DEF SmrInv, Once
  <2>6. Dispatches' /\ Wakes'
    <3>1. Wakes'
      BY <1>1 DEF SmrInv, Wakes, Coming
    <3>2. ASSUME NEW d \in SmrCPU
          PROVE  /\ curproc'[d] = "idle" /\ spc'[d].deferred # <<>> =>
                       \/ at'[d]["interrupt"] = "dispatch"
                       \/ at'[d]["process"] \in {"idle", "dispatch"}
                 /\ spc'[d].expedite => spc'[d].deferred # <<>>
      <4>1. CASE d = c
        BY <1>1, <2>1, <2>4, <4>1
      <4>2. CASE d # c
        BY <1>1, <2>1, <4>2 DEF SmrInv, Dispatches
      <4>3. QED
        BY <4>1, <4>2
    <3>3. QED
      BY <1>1, <3>1, <3>2 DEF SmrInv, Dispatches
  <2>7. Pending'
    <3>1. \A l \in Level : l = "process" \/ l = "interrupt"
      BY DEF Level
    <3>2. QED
      BY <1>1, <2>1, <3>1 DEF SmrInv, Pending
  <2>8. QED
    BY <1>3, <2>2, <2>3, <2>5, <2>6, <2>7 DEF SmrInv
<1>7. QED
  BY <1>5, <1>6

(* A CPU hands its entries to the smr thread.                              *)
LEMMA DispatchPreserves ==
    ASSUME SmrInv, NEW c \in SmrCPU, NEW l \in Level, smr_dispatch(c, l)
    PROVE  SmrInv'
<1>1. /\ UNCHANGED <<ptr, objlife, reader, curproc, smrgp, smr_grace_period,
                     smr_wakeup_tmo, smr>>
      /\ smr_deferred' = smr_deferred \o spc[c].deferred
      /\ smr_expedite' = (smr_expedite \/ spc[c].expedite)
      /\ wake' = [wake EXCEPT ![c][l] = WakeKind(c)]
      /\ Goes(c, l, "dispatch", "wake") /\ "dispatch" \in AtPcs /\ "wake" \in AtPcs
  BY DEF smr_dispatch, dataVars, AtPcs
<1>2. /\ spc' \in [SmrCPU -> Spc]
      /\ spc'[c].smrgp = spc[c].smrgp
      /\ spc'[c].deferred = <<>> /\ ~spc'[c].expedite
      /\ \A d \in SmrCPU \ {c} : spc'[d] = spc[d]
  BY DispatchEffect DEF SmrInv
<1>3. /\ at' \in [SmrCPU -> [Level -> AtPcs]]
      /\ at[c][l] = "dispatch" /\ at'[c][l] = "wake"
      /\ \A k \in Level \ {l} : at'[c][k] = at[c][k]
      /\ \A d \in SmrCPU \ {c} : at'[d] = at[d]
  BY <1>1, GoesEffect DEF SmrInv
<1>4. /\ smr_deferred \in Seq(Obj) /\ spc[c].deferred \in Seq(Obj)
      /\ smr_expedite \in BOOLEAN /\ spc[c].expedite \in BOOLEAN
      /\ wake \in [SmrCPU -> [Level -> {"no", "tmo", "expedite"}]]
  BY DEF SmrInv, SmrShape, SmrTypeOK, Spc
<1>5. /\ smr_deferred' \in Seq(Obj)
      /\ Entries(smr_deferred') = Entries(smr_deferred) \cup Entries(spc[c].deferred)
      /\ NoRepeat(smr_deferred')
  BY <1>1, <1>4, JoinedEntries DEF SmrInv, Once
<1>6. /\ wake' \in [SmrCPU -> [Level -> {"no", "tmo", "expedite"}]]
      /\ wake'[c][l] = WakeKind(c)
      /\ \A k \in Level \ {l} : wake'[c][k] = wake[c][k]
      /\ \A d \in SmrCPU \ {c} : wake'[d] = wake[d]
  <2>1. WakeKind(c) \in {"no", "tmo", "expedite"}
    BY DEF WakeKind
  <2>2. QED
    BY <1>1, <1>4, <2>1
<1>7. SmrShape'
  <2>1. \A d \in SmrCPU : spc'[d].smrgp \in 0 .. Periods - 1
    BY <1>2 DEF Spc, GracePeriod
  <2>2. QED
    BY <1>1, <1>2, <1>3, <1>4, <1>5, <1>6, <2>1 DEF SmrInv, SmrShape, SmrTypeOK, AtPcs
<1>8. Once'
  <2>1. Entries(spc'[c].deferred) = {} /\ NoRepeat(spc'[c].deferred)
    BY <1>2 DEF Entries, NoRepeat
  <2>2. \A d \in SmrCPU \ {c} : spc'[d].deferred = spc[d].deferred
    BY <1>2
  <2>3. ASSUME NEW o \in Entries(smr_deferred')
        PROVE  objlife[o] = "unlinked" /\ o \notin Entries(smr.list)
    BY <1>5, <2>3 DEF SmrInv, Once
  <2>4. ASSUME NEW d \in SmrCPU \ {c}, NEW o \in Entries(spc[d].deferred)
        PROVE  o \notin Entries(smr_deferred')
    BY <1>5, <2>4 DEF SmrInv, Once
  <2>5. QED
    BY <1>1, <1>5, <2>1, <2>2, <2>3, <2>4 DEF SmrInv, Once
<1>9. "process" \in Level /\ "interrupt" \in Level
      /\ (l = "process" \/ l = "interrupt")
  BY DEF Level
<1>10. Period' /\ Holds'
  <2>1. \A d \in SmrCPU : /\ spc'[d].smrgp = spc[d].smrgp
                          /\ \/ at'[d]["process"] = at[d]["process"]
                             \/ at'[d]["process"] = "wake"
    BY <1>2, <1>3, <1>9
  <2>2. QED
    BY <1>1, <2>1, PeriodFrame, HoldsFrame DEF SmrInv, Waiting
<1>11. Dispatches'
  <2>1. ASSUME smr_expedite' PROVE smr_deferred' # <<>>
    <3>1. smr_deferred # <<>> \/ spc[c].deferred # <<>>
      BY <1>1, <1>4, <2>1 DEF SmrInv, Dispatches
    <3>2. QED
      BY <1>1, <1>4, <3>1, ConcatEqualIffEmpty, ConcatProperties, EmptySeq
  <2>2. QED
    BY <1>1, <1>2, <1>3, <2>1 DEF SmrInv, Dispatches
<1>12. Wakes'
  <2>1. ASSUME NEW K, Coming(K) PROVE (wake[c][l] \in K => WakeKind(c) \in K) => Coming(K)'
    BY <1>6, <2>1 DEF Coming
  <2>2. ASSUME NEW K, WakeKind(c) \in K PROVE Coming(K)'
    BY <1>6, <2>2 DEF Coming
  <2>3. wake[c][l] = "no"
    BY <1>3 DEF SmrInv, Pending
  <2>4. ASSUME smr'.pc = "bored", smr_deferred' # <<>>
        PROVE  smr_wakeup_tmo' \/ Coming({"tmo", "expedite"})'
    <3>1. CASE smr_deferred = <<>> \/ smr_expedite \/ spc[c].expedite
      BY <2>2, <3>1 DEF WakeKind
    <3>2. CASE smr_deferred # <<>>
      BY <1>1, <2>1, <2>3, <2>4, <3>2 DEF SmrInv, Wakes
    <3>3. QED
      BY <3>1, <3>2
  <2>5. ASSUME smr_expedite' PROVE Coming({"expedite"})'
    BY <1>1, <2>2, <2>5 DEF WakeKind
  <2>6. QED
    BY <2>4, <2>5 DEF Wakes
<1>13. Pending'
  BY <1>3, <1>6 DEF SmrInv, Pending
<1>14. QED
  BY <1>7, <1>8, <1>10, <1>11, <1>12, <1>13 DEF SmrInv

(* A wakeup, or none, of the thread leaves the data and the periods alone. *)
LEMMA WakeupFrame ==
    ASSUME SmrInv, smr_wakeup \/ UNCHANGED smr,
           UNCHANGED <<ptr, objlife, reader, curproc, spc, smrgp, smr_deferred, smr_expedite,
                       smr_grace_period>>,
           \A d \in SmrCPU : at'[d]["process"] = at[d]["process"]
                             \/ at'[d]["process"] \notin {"storegp", "out"}
    PROVE  /\ Once' /\ Period' /\ Holds'
           /\ smr' \in SmrThread /\ (smr'.pc = "peg" => smr'.todo # <<>>)
           /\ smr'.pc \in {"bored", "pause"} => UNCHANGED smr
<1>1. /\ smr' \in SmrThread /\ smr'.list = smr.list /\ smr'.todo = smr.todo
      /\ smr'.pc = smr.pc \/ (smr.pc \in {"bored", "pause"} /\ smr'.pc \in {"woken", "paused"})
      /\ smr'.pc \in {"bored", "pause"} => UNCHANGED smr
  <2>1. CASE smr_wakeup
    <3>1. smr'.pc \notin {"bored", "pause"}
      BY <2>1, WakeupEffect DEF SmrInv
    <3>2. QED
      BY <2>1, <3>1, WakeupEffect DEF SmrInv
  <2>2. CASE UNCHANGED smr
    BY <2>2 DEF SmrInv, SmrShape
  <2>3. QED
    BY <2>1, <2>2
<1>2. Once'
  BY <1>1, OnceFrame DEF SmrInv
<1>3. Period'
  BY <1>1, PeriodFrame DEF SmrInv
<1>4. Holds'
  BY <1>1, HoldsFrame DEF SmrInv, Waiting
<1>5. QED
  BY <1>1, <1>2, <1>3, <1>4 DEF SmrInv, SmrShape

(* The wakeup or the timeout that follows smr_dispatch() keeps the         *)
(* invariant.                                                              *)
LEMMA DispatchWakePreserves ==
    ASSUME SmrInv, NEW c \in SmrCPU, NEW l \in Level, DispatchWake(c, l)
    PROVE  SmrInv'
<1>1. /\ UNCHANGED <<ptr, objlife, reader, curproc, spc, smrgp, smr_deferred, smr_expedite,
                     smr_grace_period>>
      /\ smr_wakeup_tmo' = (smr_wakeup_tmo \/ wake[c][l] = "tmo")
      /\ smr_wakeup \/ UNCHANGED smr
      /\ wake[c][l] = "expedite" => smr_wakeup
      /\ wake' = [wake EXCEPT ![c][l] = "no"]
  BY DEF DispatchWake, dataVars, deferVars
<1>2. PICK to \in AtPcs : Goes(c, l, "wake", to) /\ "wake" \in AtPcs
                          /\ to = IF l = "process" THEN "readgp" ELSE "out"
  BY DEF DispatchWake, AtPcs
<1>3. /\ at' \in [SmrCPU -> [Level -> AtPcs]]
      /\ at[c][l] = "wake" /\ at'[c][l] = to
      /\ \A k \in Level \ {l} : at'[c][k] = at[c][k]
      /\ \A d \in SmrCPU \ {c} : at'[d] = at[d]
  BY <1>2, GoesEffect DEF SmrInv
<1>4. "process" \in Level /\ "interrupt" \in Level
      /\ (l = "process" \/ l = "interrupt")
  BY DEF Level
<1>5. \A d \in SmrCPU : at'[d]["process"] = at[d]["process"]
                        \/ at'[d]["process"] \notin {"storegp", "out"}
  BY <1>2, <1>3, <1>4
<1>6. /\ Once' /\ Period' /\ Holds'
      /\ smr' \in SmrThread /\ (smr'.pc = "peg" => smr'.todo # <<>>)
      /\ smr'.pc \in {"bored", "pause"} => UNCHANGED smr
  BY <1>1, <1>5, WakeupFrame
<1>7. /\ wake' \in [SmrCPU -> [Level -> {"no", "tmo", "expedite"}]]
      /\ wake'[c][l] = "no"
      /\ \A k \in Level \ {l} : wake'[c][k] = wake[c][k]
      /\ \A d \in SmrCPU \ {c} : wake'[d] = wake[d]
  BY <1>1 DEF SmrInv, SmrShape, SmrTypeOK
<1>8. SmrShape'
  BY <1>1, <1>3, <1>6, <1>7 DEF SmrInv, SmrShape, SmrTypeOK, AtPcs
<1>9. Dispatches'
  BY <1>1, <1>3, <1>4 DEF SmrInv, Dispatches
<1>10. Pending'
  BY <1>3, <1>7 DEF SmrInv, Pending
<1>11. Wakes'
  <2>1. ASSUME NEW K, Coming(K), wake[c][l] \notin K PROVE Coming(K)'
    BY <1>7, <2>1 DEF Coming
  <2>2. ASSUME smr'.pc \in {"bored", "pause"} PROVE wake[c][l] # "expedite" /\ smr' = smr
    <3>1. smr' = smr
      BY <1>6, <2>2
    <3>2. smr_wakeup => smr'.pc \notin {"bored", "pause"}
      BY WakeupEffect DEF SmrInv
    <3>3. QED
      BY <1>1, <2>2, <3>1, <3>2
  <2>3. ASSUME smr'.pc = "bored", smr_deferred' # <<>>
        PROVE  smr_wakeup_tmo' \/ Coming({"tmo", "expedite"})'
    <3>1. CASE wake[c][l] = "tmo"
      BY <1>1, <3>1
    <3>2. CASE wake[c][l] # "tmo"
      <4>1. smr_wakeup_tmo \/ Coming({"tmo", "expedite"})
        BY <1>1, <2>2, <2>3 DEF SmrInv, Wakes
      <4>2. wake[c][l] \notin {"tmo", "expedite"}
        BY <2>2, <2>3, <3>2
      <4>3. Coming({"tmo", "expedite"}) => Coming({"tmo", "expedite"})'
        BY <2>1, <4>2
      <4>4. QED
        BY <1>1, <4>1, <4>3
    <3>3. QED
      BY <3>1, <3>2
  <2>4. ASSUME smr'.pc \in {"bored", "pause"}, smr_expedite' PROVE Coming({"expedite"})'
    BY <1>1, <2>1, <2>2, <2>4 DEF SmrInv, Wakes
  <2>5. QED
    BY <2>3, <2>4 DEF Wakes
<1>12. QED
  BY <1>6, <1>8, <1>9, <1>10, <1>11 DEF SmrInv

(* The timeout and the end of the pause wake the thread.                   *)
LEMMA TimedPreserves ==
    ASSUME SmrInv, TmoFires \/ PauseEnds
    PROVE  SmrInv'
<1>1. /\ UNCHANGED <<ptr, objlife, reader, curproc, at, wake, spc, smrgp, smr_deferred,
                     smr_expedite, smr_grace_period>>
      /\ smr_wakeup_tmo' \in BOOLEAN /\ smr_wakeup
  BY DEF TmoFires, PauseEnds, dataVars, deferVars, SmrInv, SmrShape
<1>2. /\ Once' /\ Period' /\ Holds'
      /\ smr' \in SmrThread /\ (smr'.pc = "peg" => smr'.todo # <<>>)
  BY <1>1, WakeupFrame
<1>3. smr'.pc \notin {"bored", "pause"}
  BY <1>1, WakeupEffect DEF SmrInv
<1>4. SmrShape' /\ Dispatches' /\ Pending' /\ Wakes'
  BY <1>1, <1>2, <1>3 DEF SmrInv, SmrShape, SmrTypeOK, Dispatches, Pending, Wakes
<1>5. QED
  BY <1>2, <1>4 DEF SmrInv

(* smr_idle(): the CPU reads the period, and stores it, where it does not  *)
(* read the data.                                                          *)
LEMMA IdlePreserves ==
    ASSUME SmrInv, NEW c \in SmrCPU,
           smr_idle(c) \/ ReadGracePeriod(c) \/ StoreGracePeriod(c)
    PROVE  SmrInv'
<1>0. /\ "process" \in Level /\ "interrupt" \in Level \ {"process"}
      /\ \A l \in Level : l = "process" \/ l = "interrupt"
      /\ AtPcs = {"out", "idle", "dispatch", "wake", "readgp", "storegp"}
  BY DEF Level, AtPcs
<1>1. UNCHANGED <<ptr, objlife, reader, curproc, wake, smr_deferred, smr_expedite,
                  smr_grace_period, smr_wakeup_tmo, smr>>
  BY DEF smr_idle, ReadGracePeriod, StoreGracePeriod, dataVars, deferVars
<1>2. Wakes'
  BY <1>1 DEF SmrInv, Wakes, Coming
<1>3. CASE smr_idle(c)
  <2>1. PICK to \in {"dispatch", "readgp"} :
            Goes(c, "process", "idle", to) /\ (spc[c].deferred # <<>> => to = "dispatch")
    BY <1>3 DEF smr_idle
  <2>2. /\ at' \in [SmrCPU -> [Level -> AtPcs]]
        /\ at[c]["process"] = "idle" /\ at'[c]["process"] = to
        /\ at'[c]["interrupt"] = at[c]["interrupt"]
        /\ \A d \in SmrCPU \ {c} : at'[d] = at[d]
    <3>1. /\ to \in AtPcs /\ "idle" \in AtPcs /\ SmrShape
          /\ "process" \in Level /\ "interrupt" \in Level \ {"process"}
      BY <1>0 DEF SmrInv
    <3>2. QED
      BY <2>1, <3>1, GoesEffect
  <2>3. UNCHANGED <<spc, smrgp>>
    BY <1>3 DEF smr_idle
  <2>4. SmrShape'
    BY <1>1, <2>2, <2>3 DEF SmrInv, SmrShape, SmrTypeOK, AtPcs
  <2>5. Once'
    BY <1>1, <2>3, OnceFrame DEF SmrInv
  <2>6. Period' /\ Holds'
    <3>1. \A d \in SmrCPU : at'[d]["process"] = at[d]["process"]
                            \/ at'[d]["process"] \notin {"storegp", "out"}
      BY <2>2
    <3>2. QED
      BY <1>1, <2>3, <3>1, PeriodFrame, HoldsFrame DEF SmrInv, Waiting
  <2>7. Dispatches' /\ Pending'
    BY <1>0, <1>1, <2>1, <2>2, <2>3 DEF SmrInv, Dispatches, Pending
  <2>8. QED
    BY <1>2, <2>4, <2>5, <2>6, <2>7 DEF SmrInv
<1>4. CASE ReadGracePeriod(c)
  <2>1. Goes(c, "process", "readgp", "storegp") /\ ~reader[c].in
    BY <1>4 DEF ReadGracePeriod, Goes, Runs
  <2>2. /\ at' \in [SmrCPU -> [Level -> AtPcs]]
        /\ at[c]["process"] = "readgp" /\ at'[c]["process"] = "storegp"
        /\ at'[c]["interrupt"] = at[c]["interrupt"]
        /\ \A d \in SmrCPU \ {c} : at'[d] = at[d]
    BY <1>0, <2>1, GoesEffect DEF SmrInv
  <2>3. /\ UNCHANGED spc /\ smrgp' \in [SmrCPU -> GracePeriod]
        /\ smrgp'[c] = smr_grace_period /\ \A d \in SmrCPU \ {c} : smrgp'[d] = smrgp[d]
    BY <1>4 DEF ReadGracePeriod, SmrInv, SmrShape, SmrTypeOK, GracePeriod
  <2>4. SmrShape'
    BY <1>1, <2>2, <2>3 DEF SmrInv, SmrShape, SmrTypeOK, AtPcs
  <2>5. Once'
    BY <1>1, <2>3, OnceFrame DEF SmrInv
  <2>6. Period'
    BY <1>1, <2>2, <2>3 DEF SmrInv, Period, Waiting
  <2>7. Holds'
    <3>1. reader[c].o = NoObj /\ NoObj \notin Entries(smr.list)
      <4>1. smr.list \in Seq(Obj) /\ NoObj \notin Obj
        BY SmrAssumption DEF SmrInv, SmrShape, SmrThread
      <4>2. QED
        BY <2>1, <4>1, LenProperties, ElementOfSeq DEF Entries, SmrInv, Holds
    <3>2. \A d \in SmrCPU \ {c} : Passed(d)' <=> Passed(d)
      BY <1>1, <2>2, <2>3 DEF Passed
    <3>3. QED
      BY <1>1, <3>1, <3>2 DEF SmrInv, Holds, Waiting
  <2>8. Dispatches' /\ Pending'
    BY <1>0, <1>1, <2>2, <2>3 DEF SmrInv, Dispatches, Pending
  <2>9. QED
    BY <1>2, <2>4, <2>5, <2>6, <2>7, <2>8 DEF SmrInv
<1>5. CASE StoreGracePeriod(c)
  <2>1. Goes(c, "process", "storegp", "out")
    BY <1>5 DEF StoreGracePeriod
  <2>2. /\ at' \in [SmrCPU -> [Level -> AtPcs]]
        /\ at[c]["process"] = "storegp" /\ at'[c]["process"] = "out"
        /\ at'[c]["interrupt"] = at[c]["interrupt"]
        /\ \A d \in SmrCPU \ {c} : at'[d] = at[d]
    BY <1>0, <2>1, GoesEffect DEF SmrInv
  <2>3. /\ smrgp[c] \in GracePeriod /\ smrgp' \in [SmrCPU -> GracePeriod]
        /\ \A d \in SmrCPU \ {c} : smrgp'[d] = smrgp[d]
    BY <1>5, SmrAssumption DEF StoreGracePeriod, SmrInv, SmrShape, GracePeriod
  <2>4. spc' = [spc EXCEPT ![c].smrgp = smrgp[c]]
    BY <1>5 DEF StoreGracePeriod
  <2>5. /\ spc' \in [SmrCPU -> Spc]
        /\ spc'[c].smrgp = smrgp[c]
        /\ spc'[c].deferred = spc[c].deferred /\ spc'[c].expedite = spc[c].expedite
        /\ \A d \in SmrCPU \ {c} : spc'[d] = spc[d]
    BY <2>3, <2>4, PeriodEffect DEF SmrInv
  <2>6. SmrShape'
    <3>1. \A d \in SmrCPU : spc'[d].smrgp \in 0 .. Periods - 1
      BY <2>5 DEF Spc, GracePeriod
    <3>2. QED
      BY <1>1, <2>2, <2>3, <2>5, <3>1 DEF SmrInv, SmrShape, SmrTypeOK, AtPcs
  <2>7. Once'
    BY <1>1, <2>5, OnceFrame DEF SmrInv
  <2>8. smrgp[c] \in {spc[c].smrgp, smr_grace_period}
    BY <2>2 DEF SmrInv, Period
  <2>9. Period'
    BY <1>1, <2>2, <2>3, <2>5, <2>8 DEF SmrInv, Period, Waiting
  <2>10. Holds'
    <3>1. \A d \in SmrCPU : Passed(d)' => Passed(d)
      BY <1>1, <2>2, <2>3, <2>5, <2>8 DEF Passed
    <3>2. QED
      BY <1>1, <3>1 DEF SmrInv, Holds, Waiting
  <2>11. Dispatches' /\ Pending'
    BY <1>0, <1>1, <2>2, <2>5 DEF SmrInv, Dispatches, Pending
  <2>12. QED
    BY <1>2, <2>6, <2>7, <2>9, <2>10, <2>11 DEF SmrInv
<1>6. QED
  BY <1>3, <1>4, <1>5

(* mi_switch() from a process that is out of smr_idle(), and does not read *)
(* the data, to another, with the smr thread in the same place or gone to  *)
(* where it sleeps or waits.                                               *)
LEMMA SwitchFrame ==
    ASSUME SmrInv, NEW c \in SmrCPU, NEW p \in {"idle", "thread", "smr"}, SwitchTo(c, p),
           at[c]["process"] = "out",
           UNCHANGED <<ptr, objlife, reader, wake, spc, smrgp, smr_deferred, smr_expedite,
                       smr_grace_period, smr_wakeup_tmo>>,
           smr' \in SmrThread, smr'.list = smr.list, smr'.todo = smr.todo,
           smr'.pc = "peg" => smr.todo # <<>>,
           Waiting' <=> Waiting,
           smr'.pc \notin {"announce", "visit", "peg"} => smr.list = <<>>,
           p = "smr" => /\ UNCHANGED smr
                        /\ \A d \in SmrCPU : curproc[d] # "smr"
                        /\ smr.pc = "peg" => c = Head(smr.todo),
           UNCHANGED smr \/ curproc[c] = "smr",
           Wakes'
    PROVE  SmrInv'
<1>1. /\ curproc' \in [SmrCPU -> {"idle", "thread", "smr"}]
      /\ curproc'[c] = p /\ \A d \in SmrCPU \ {c} : curproc'[d] = curproc[d]
      /\ at' \in [SmrCPU -> [Level -> AtPcs]]
      /\ at'[c]["process"] = "idle" /\ at'[c]["interrupt"] = at[c]["interrupt"]
      /\ \A d \in SmrCPU \ {c} : at'[d] = at[d]
  BY SwitchEffect DEF SmrInv
<1>2. SmrShape'
  BY <1>1 DEF SmrInv, SmrShape, SmrTypeOK, AtPcs
<1>3. Once'
  BY OnceFrame DEF SmrInv
<1>4. Holds'
  BY <1>1, HoldsFrame DEF SmrInv
<1>5. Period'
  <2>1. ASSUME NEW d \in SmrCPU
        PROVE  /\ \/ spc'[d].smrgp = smr_grace_period'
                  \/ /\ Waiting' /\ d \in Entries(smr'.todo)
                     /\ After(spc'[d].smrgp) = smr_grace_period'
               /\ at'[d]["process"] = "storegp" =>
                     smrgp'[d] \in {spc'[d].smrgp, smr_grace_period'}
    BY <1>1 DEF SmrInv, Period
  <2>2. ASSUME NEW d \in SmrCPU, curproc'[d] = "smr"
        PROVE  /\ \A e \in SmrCPU : curproc'[e] = "smr" => e = d
               /\ smr'.pc = "peg" =>
                     /\ d = Head(smr'.todo)
                     /\ at'[d]["process"] = "storegp" => smrgp'[d] = smr_grace_period'
                     /\ at'[d]["process"] = "out" => spc'[d].smrgp = smr_grace_period'
    <3>1. CASE d = c
      BY <1>1, <2>2, <3>1
    <3>2. CASE d # c
      <4>1. curproc[d] = "smr" /\ p # "smr" /\ UNCHANGED smr
        BY <1>1, <2>2, <3>2 DEF SmrInv, Period
      <4>2. QED
        BY <1>1, <3>2, <4>1 DEF SmrInv, Period
    <3>3. QED
      BY <3>1, <3>2
  <2>3. QED
    BY <2>1, <2>2 DEF Period
<1>6. Dispatches' /\ Pending'
  <2>1. \A l \in Level : l = "process" \/ l = "interrupt"
    BY DEF Level
  <2>2. Dispatches'
    BY <1>1, <2>1 DEF SmrInv, Dispatches
  <2>3. Pending'
    BY <1>1, <2>1 DEF SmrInv, Pending
  <2>4. QED
    BY <2>2, <2>3
<1>7. QED
  BY <1>2, <1>3, <1>4, <1>5, <1>6 DEF SmrInv

(* A switch of a CPU to another thread keeps the invariant.                *)
LEMMA SwitchPreserves ==
    ASSUME SmrInv, NEW c \in SmrCPU, Switch(c)
    PROVE  SmrInv'
<1>1. /\ UNCHANGED <<ptr, objlife, reader, wake, spc, smrgp, smr_deferred, smr_expedite,
                     smr_grace_period, smr_wakeup_tmo, smr>>
      /\ at[c]["process"] = "out"
  BY DEF Switch, dataVars, deferVars
<1>2. PICK p \in {"idle", "thread", "smr"} :
          /\ SwitchTo(c, p)
          /\ p = "smr" => /\ \A d \in SmrCPU : curproc[d] # "smr"
                          /\ smr.pc = "peg" => c = Head(smr.todo)
  BY DEF Switch
<1>3. /\ smr' \in SmrThread /\ Waiting' = Waiting /\ Wakes'
      /\ smr.pc = "peg" => smr.todo # <<>>
      /\ smr.pc \notin {"announce", "visit", "peg"} => smr.list = <<>>
  BY <1>1 DEF SmrInv, SmrShape, Waiting, Wakes, Coming, Period
<1>4. QED
  BY <1>1, <1>2, <1>3, SwitchFrame

(* The thread sleeps, or waits to be put on another CPU.                   *)
LEMMA LeavePreserves ==
    ASSUME SmrInv, NEW c \in SmrCPU, NEW q \in {"bored", "pause", "peg"},
           curproc[c] = "smr", at[c]["process"] = "out", Leave(c),
           smr' = [smr EXCEPT !.pc = q],
           UNCHANGED <<ptr, objlife, reader, wake, spc, smrgp, smr_deferred, smr_expedite,
                       smr_grace_period, smr_wakeup_tmo>>,
           q = "bored" => smr.pc \in {"check", "woken"} /\ smr_deferred = <<>>,
           q = "pause" => smr.pc = "check" /\ ~smr_expedite,
           q = "peg" => smr.pc = "visit" /\ smr.todo # <<>>
    PROVE  SmrInv'
<1>1. PICK p \in {"idle", "thread"} : SwitchTo(c, p)
  BY DEF Leave
<1>2. smr' \in SmrThread /\ smr'.pc = q /\ smr'.list = smr.list /\ smr'.todo = smr.todo
  BY DEF SmrInv, SmrShape, SmrThread, SmrPcs
<1>3. Wakes'
  <2>1. q = "bored" => ~smr_expedite
    BY DEF SmrInv, Dispatches
  <2>2. QED
    BY <1>2, <2>1 DEF Wakes
<1>4. Waiting' <=> Waiting
  BY <1>2 DEF Waiting
<1>5. smr'.pc \notin {"announce", "visit", "peg"} => smr.list = <<>>
  BY <1>2 DEF SmrInv, Period
<1>6. QED
  BY <1>1, <1>2, <1>3, <1>4, <1>5, SwitchFrame

(* The thread takes all entries there are.                                 *)
LEMMA TakePreserves ==
    ASSUME SmrInv, smr.pc \in {"check", "woken", "paused"}, TakeAll,
           UNCHANGED <<ptr, objlife, reader, wake, spc, smrgp, smr_grace_period,
                       smr_wakeup_tmo>>
    PROVE  SmrInv'
<1>1. /\ smr.list = <<>> /\ smr_deferred \in Seq(Obj) /\ smr \in SmrThread
      /\ UNCHANGED <<curproc, at>>
      /\ smr_deferred' = <<>> /\ smr_expedite' = FALSE
      /\ smr' = [smr EXCEPT !.pc = "announce", !.list = smr.list \o smr_deferred]
  BY DEF SmrInv, SmrShape, TakeAll, Period
<1>2. smr.list \o smr_deferred = smr_deferred
  BY <1>1, ConcatEmptySeq
<1>3. smr' \in SmrThread /\ smr'.pc = "announce" /\ smr'.list = smr_deferred
      /\ smr'.todo = smr.todo
  BY <1>1, <1>2 DEF SmrThread, SmrPcs
<1>4. SmrShape'
  <2>1. SmrTypeOK'
    BY <1>1 DEF SmrInv, SmrShape, SmrTypeOK
  <2>2. smr_deferred' \in Seq(Obj)
    BY <1>1
  <2>3. QED
    BY <1>1, <1>3, <2>1, <2>2 DEF SmrInv, SmrShape
<1>5. Once'
  <2>1. Entries(smr_deferred') = {} /\ Entries(smr.list) = {} /\ NoRepeat(smr_deferred')
    BY <1>1 DEF Entries, NoRepeat
  <2>2. QED
    BY <1>1, <1>3, <2>1 DEF SmrInv, Once
<1>6. Period'
  BY <1>1, <1>3 DEF SmrInv, Period, Waiting
<1>7. Holds' /\ Dispatches' /\ Pending' /\ Wakes'
  BY <1>1, <1>3 DEF SmrInv, Holds, Waiting, Dispatches, Pending, Wakes
<1>8. QED
  BY <1>4, <1>5, <1>6, <1>7 DEF SmrInv

(* What the SMR thread does under smr_lock keeps the invariant.            *)
LEMMA LockedPreserves ==
    ASSUME SmrInv, NEW c \in SmrCPU, SmrLocked(c)
    PROVE  SmrInv'
<1>1. UNCHANGED <<ptr, objlife, reader, wake, spc, smrgp, smr_grace_period, smr_wakeup_tmo>>
  BY DEF SmrLocked, dataVars
<1>2. CASE smr.pc \in {"check", "woken", "paused"} /\ TakeAll
  BY <1>1, <1>2, TakePreserves
<1>3. ASSUME NEW q \in {"bored", "pause"}, SleepAs(c, q),
             curproc[c] = "smr", at[c]["process"] = "out",
             q = "bored" => smr.pc \in {"check", "woken"} /\ smr_deferred = <<>>,
             q = "pause" => smr.pc = "check" /\ ~smr_expedite
      PROVE  SmrInv'
  <2>1. Leave(c) /\ smr' = [smr EXCEPT !.pc = q] /\ UNCHANGED <<smr_deferred, smr_expedite>>
    BY <1>3 DEF SleepAs
  <2>2. QED
    BY <1>1, <1>3, <2>1, LeavePreserves
<1>4. \/ smr.pc \in {"check", "woken", "paused"} /\ TakeAll
      \/ /\ curproc[c] = "smr" /\ at[c]["process"] = "out" /\ smr.pc \in {"check", "woken"}
         /\ smr_deferred = <<>> /\ SleepAs(c, "bored")
      \/ /\ curproc[c] = "smr" /\ at[c]["process"] = "out" /\ smr.pc = "check"
         /\ ~smr_expedite /\ SleepAs(c, "pause")
  BY DEF SmrLocked, SmrRuns
<1>5. QED
  BY <1>2, <1>3, <1>4

(* The next period begins: no CPU but that of the thread is in it, and     *)
(* there nobody reads.                                                     *)
LEMMA AnnouncePreserves ==
    ASSUME SmrInv, NEW c \in SmrCPU, Announce(c)
    PROVE  SmrInv'
<1>1. /\ UNCHANGED <<ptr, objlife, reader, curproc, at, wake, smrgp, smr_deferred,
                     smr_expedite, smr_wakeup_tmo>>
      /\ curproc[c] = "smr" /\ at[c]["process"] = "out" /\ smr.pc = "announce"
      /\ ~reader[c].in
      /\ smr_grace_period' = After(smr_grace_period)
      /\ spc' = [spc EXCEPT ![c].smrgp = After(smr_grace_period)]
      /\ smr' = [smr EXCEPT !.pc = "visit", !.todo = CPUs]
  BY DEF Announce, SmrRuns, Runs, dataVars, NextPeriod, After
<1>2. /\ smr_grace_period \in GracePeriod /\ After(smr_grace_period) \in GracePeriod
      /\ After(smr_grace_period) # smr_grace_period
  BY AfterValue DEF SmrInv, SmrShape, SmrTypeOK, GracePeriod
<1>3. /\ spc' \in [SmrCPU -> Spc]
      /\ spc'[c].smrgp = After(smr_grace_period)
      /\ spc'[c].deferred = spc[c].deferred /\ spc'[c].expedite = spc[c].expedite
      /\ \A d \in SmrCPU \ {c} : spc'[d] = spc[d]
  BY <1>1, <1>2, PeriodEffect DEF SmrInv
<1>4. smr' \in SmrThread /\ smr'.pc = "visit" /\ smr'.list = smr.list /\ smr'.todo = CPUs
  BY <1>1, AllCPUs DEF SmrInv, SmrShape, SmrThread, SmrPcs
<1>5. SmrShape'
  <2>1. \A d \in SmrCPU : spc'[d].smrgp \in 0 .. Periods - 1
    BY <1>3 DEF Spc, GracePeriod
  <2>2. SmrTypeOK'
    BY <1>1, <1>2, <2>1 DEF SmrInv, SmrShape, SmrTypeOK, GracePeriod
  <2>3. QED
    BY <1>1, <1>3, <1>4, <2>2 DEF SmrInv, SmrShape
<1>6. Once'
  BY <1>1, <1>3, <1>4, OnceFrame DEF SmrInv
<1>7. \A d \in SmrCPU : /\ spc[d].smrgp = smr_grace_period
                        /\ at[d]["process"] = "storegp" => smrgp[d] = smr_grace_period
  BY <1>1 DEF SmrInv, Period, Waiting
<1>8. Period'
  <2>1. ASSUME NEW d \in SmrCPU
        PROVE  /\ \/ spc'[d].smrgp = smr_grace_period'
                  \/ /\ Waiting' /\ d \in Entries(smr'.todo)
                     /\ After(spc'[d].smrgp) = smr_grace_period'
               /\ at'[d]["process"] = "storegp" =>
                     smrgp'[d] \in {spc'[d].smrgp, smr_grace_period'}
    <3>1. CASE d = c
      BY <1>1, <1>3, <3>1
    <3>2. CASE d # c
      BY <1>1, <1>3, <1>4, <1>7, <3>2, AllCPUs DEF Waiting
    <3>3. QED
      BY <3>1, <3>2
  <2>2. QED
    BY <1>1, <1>4, <2>1 DEF SmrInv, Period
<1>9. Holds'
  <2>1. reader[c].o = NoObj /\ NoObj \notin Entries(smr.list)
    <3>1. smr.list \in Seq(Obj) /\ NoObj \notin Obj
      BY SmrAssumption DEF SmrInv, SmrShape, SmrThread
    <3>2. QED
      BY <1>1, <3>1, LenProperties, ElementOfSeq DEF Entries, SmrInv, Holds
  <2>2. \A d \in SmrCPU \ {c} : ~Passed(d)'
    BY <1>1, <1>2, <1>3, <1>7 DEF Passed
  <2>3. QED
    BY <1>1, <1>4, <2>1, <2>2 DEF SmrInv, Holds
<1>10. Dispatches' /\ Pending' /\ Wakes'
  BY <1>1, <1>3, <1>4 DEF SmrInv, Dispatches, Pending, Wakes
<1>11. QED
  BY <1>5, <1>6, <1>8, <1>9, <1>10 DEF SmrInv

(* The thread has seen that a CPU is in the period, or has been there.     *)
LEMMA SeenPreserves ==
    ASSUME SmrInv, smr.pc \in {"visit", "peg"}, smr.todo # <<>>,
           spc[Head(smr.todo)].smrgp = smr_grace_period,
           smr' = [smr EXCEPT !.pc = "visit", !.todo = Tail(smr.todo)],
           UNCHANGED <<ptr, objlife, reader, curproc, at, wake, spc, smrgp, smr_deferred,
                       smr_expedite, smr_grace_period, smr_wakeup_tmo>>
    PROVE  SmrInv'
<1>1. smr \in SmrThread /\ smr.todo \in Seq(SmrCPU)
  BY DEF SmrInv, SmrShape, SmrThread
<1>2. /\ Tail(smr.todo) \in Seq(SmrCPU)
      /\ Entries(smr.todo) = Entries(Tail(smr.todo)) \cup {Head(smr.todo)}
  BY <1>1, TailEntries
<1>3. /\ smr' \in SmrThread /\ smr'.pc = "visit" /\ smr'.list = smr.list
      /\ smr'.todo = Tail(smr.todo)
  BY <1>1, <1>2 DEF SmrThread, SmrPcs
<1>4. SmrShape'
  BY <1>3 DEF SmrInv, SmrShape, SmrTypeOK
<1>5. Once'
  BY <1>3, OnceFrame DEF SmrInv
<1>6. Period'
  BY <1>2, <1>3 DEF SmrInv, Period, Waiting
<1>7. Holds'
  BY <1>3 DEF SmrInv, Holds, Waiting, Passed
<1>8. Dispatches' /\ Pending' /\ Wakes'
  BY <1>3 DEF SmrInv, Dispatches, Pending, Wakes
<1>9. QED
  BY <1>4, <1>5, <1>6, <1>7, <1>8 DEF SmrInv

(* The look of the SMR thread at one CPU, and its move there, keep the     *)
(* invariant.                                                              *)
LEMMA VisitPreserves ==
    ASSUME SmrInv, NEW c \in SmrCPU, Visit(c) \/ Pegged(c)
    PROVE  SmrInv'
<1>1. /\ UNCHANGED <<ptr, objlife, reader, wake, spc, smrgp, smr_deferred, smr_expedite,
                     smr_grace_period, smr_wakeup_tmo>>
      /\ curproc[c] = "smr" /\ at[c]["process"] = "out" /\ smr.pc \in {"visit", "peg"}
      /\ smr \in SmrThread
  BY DEF Visit, Pegged, SmrRuns, dataVars, deferVars, SmrInv, SmrShape
<1>2. CASE Visit(c) /\ spc[Head(smr.todo)].smrgp = smr_grace_period
  <2>1. /\ smr.pc = "visit" /\ smr.todo # <<>> /\ UNCHANGED <<curproc, at>>
        /\ smr' = [smr EXCEPT !.todo = Tail(smr.todo)]
    BY <1>2 DEF Visit, SmrRuns
  <2>2. smr' = [smr EXCEPT !.pc = "visit", !.todo = Tail(smr.todo)]
    BY <1>1, <2>1 DEF SmrThread
  <2>3. QED
    BY <1>1, <1>2, <2>1, <2>2, SeenPreserves
<1>3. CASE Visit(c) /\ spc[Head(smr.todo)].smrgp # smr_grace_period
  <2>1. /\ smr.pc = "visit" /\ smr.todo # <<>> /\ Leave(c)
        /\ smr' = [smr EXCEPT !.pc = "peg"]
    BY <1>3 DEF Visit, SmrRuns
  <2>2. QED
    BY <1>1, <2>1, LeavePreserves
<1>4. CASE Pegged(c)
  <2>1. /\ smr.pc = "peg" /\ UNCHANGED <<curproc, at>>
        /\ smr' = [smr EXCEPT !.pc = "visit", !.todo = Tail(smr.todo)]
    BY <1>4 DEF Pegged, SmrRuns
  <2>2. /\ smr.todo # <<>> /\ c = Head(smr.todo)
        /\ spc[c].smrgp = smr_grace_period
    BY <1>1, <2>1 DEF SmrInv, SmrShape, Period
  <2>3. QED
    BY <1>1, <2>1, <2>2, SeenPreserves
<1>5. QED
  BY <1>2, <1>3, <1>4

(* The thread frees an object once every CPU is in the period, or is done. *)
LEMMA FreePreserves ==
    ASSUME SmrInv, NEW c \in SmrCPU, SmrCall(c)
    PROVE  SmrInv'
<1>1. /\ UNCHANGED <<ptr, reader, curproc, at, wake, spc, smrgp, smr_deferred, smr_expedite,
                     smr_grace_period, smr_wakeup_tmo>>
      /\ smr.pc = "visit" /\ smr.todo = <<>>
      /\ smr \in SmrThread /\ smr.list \in Seq(Obj)
  BY DEF SmrCall, SmrRuns, deferVars, SmrInv, SmrShape, SmrThread
<1>2. \A d \in SmrCPU : spc[d].smrgp = smr_grace_period
  <2>1. Entries(smr.todo) = {}
    BY <1>1 DEF Entries
  <2>2. QED
    BY <2>1 DEF SmrInv, Period
<1>3. CASE smr.list = <<>>
  <2>1. smr' = [smr EXCEPT !.pc = "check"] /\ UNCHANGED objlife
    BY <1>3 DEF SmrCall
  <2>2. smr' \in SmrThread /\ smr'.pc = "check" /\ smr'.list = smr.list /\ smr'.todo = smr.todo
    BY <1>1, <2>1 DEF SmrThread, SmrPcs
  <2>3. SmrShape'
    BY <1>1, <2>1, <2>2 DEF SmrInv, SmrShape, SmrTypeOK
  <2>4. Once'
    BY <1>1, <2>1, <2>2, OnceFrame DEF SmrInv
  <2>5. Period'
    BY <1>1, <1>2, <1>3, <2>2 DEF SmrInv, Period, Waiting
  <2>6. Holds' /\ Dispatches' /\ Pending' /\ Wakes'
    BY <1>1, <2>1, <2>2 DEF SmrInv, Holds, Waiting, Dispatches, Pending, Wakes
  <2>7. QED
    BY <2>3, <2>4, <2>5, <2>6 DEF SmrInv
<1>4. CASE smr.list # <<>>
  <2>0. PICK h \in Obj : h = Head(smr.list)
    BY <1>1, <1>4, TailEntries
  <2>1. /\ smr' = [smr EXCEPT !.list = Tail(smr.list)]
        /\ objlife' = [objlife EXCEPT ![h] = "free"]
    BY <1>4, <2>0 DEF SmrCall
  <2>2. /\ Tail(smr.list) \in Seq(Obj)
        /\ Entries(smr.list) = Entries(Tail(smr.list)) \cup {h}
        /\ NoRepeat(Tail(smr.list)) /\ h \notin Entries(Tail(smr.list))
    BY <1>1, <1>4, <2>0, TailEntries DEF SmrInv, Once
  <2>3. /\ smr' \in SmrThread /\ smr'.pc = "visit" /\ smr'.list = Tail(smr.list)
        /\ smr'.todo = smr.todo
    BY <1>1, <2>1, <2>2 DEF SmrThread
  <2>4. /\ objlife' \in [Obj -> {"free", "live", "unlinked"}] /\ objlife'[h] = "free"
        /\ \A o \in Obj \ {h} : objlife'[o] = objlife[o]
    BY <2>1 DEF SmrInv, SmrShape, SmrTypeOK
  <2>5. SmrShape'
    BY <1>1, <2>3, <2>4 DEF SmrInv, SmrShape, SmrTypeOK
  <2>6. Once'
    <3>1. objlife[h] = "unlinked" /\ h # ptr
      BY <2>2 DEF SmrInv, Once
    <3>2. /\ h \notin Entries(smr_deferred) /\ Entries(smr_deferred) \subseteq Obj
          /\ Entries(smr.list) \subseteq Obj
          /\ \A d \in SmrCPU : h \notin Entries(spc[d].deferred)
                               /\ Entries(spc[d].deferred) \subseteq Obj
      <4>1. \A s \in Seq(Obj) : Entries(s) \subseteq Obj
        BY LenProperties, ElementOfSeq DEF Entries
      <4>2. smr_deferred \in Seq(Obj) /\ \A d \in SmrCPU : spc[d].deferred \in Seq(Obj)
        BY DEF SmrInv, SmrShape, Spc
      <4>3. QED
        BY <1>1, <2>2, <4>1, <4>2 DEF SmrInv, Once
    <3>3. \A o \in Obj : objlife'[o] = "live" <=> o = ptr
      BY <2>4, <3>1 DEF SmrInv, Once
    <3>4. \A o \in Entries(smr_deferred) \cup Entries(smr'.list) : objlife'[o] = "unlinked"
      BY <2>2, <2>3, <2>4, <3>2 DEF SmrInv, Once
    <3>5. ASSUME NEW d \in SmrCPU, NEW o \in Entries(spc[d].deferred)
          PROVE  objlife'[o] = "unlinked" /\ o \notin Entries(smr'.list)
      BY <2>2, <2>3, <2>4, <3>2, <3>5 DEF SmrInv, Once
    <3>6. NoRepeat(smr'.list) /\ Entries(smr_deferred) \cap Entries(smr'.list) = {}
      BY <2>2, <2>3 DEF SmrInv, Once
    <3>7. QED
      BY <1>1, <3>3, <3>4, <3>5, <3>6 DEF SmrInv, Once
  <2>7. Period'
    BY <1>1, <1>2, <2>3 DEF SmrInv, Period, Waiting
  <2>8. Holds'
    <3>1. ASSUME NEW d \in SmrCPU PROVE reader[d].o \notin Entries(smr.list)
      BY <1>1, <1>2 DEF SmrInv, Holds, Waiting, Passed
    <3>2. \A d \in SmrCPU : reader[d].o # h /\ reader[d].o \in Obj \cup {NoObj}
      BY <2>2, <3>1 DEF SmrInv, SmrShape, SmrTypeOK
    <3>3. QED
      BY <1>1, <2>2, <2>3, <2>4, <3>1, <3>2 DEF SmrInv, Holds
  <2>9. Dispatches' /\ Pending' /\ Wakes'
    BY <1>1, <2>3 DEF SmrInv, Dispatches, Pending, Wakes
  <2>10. QED
    BY <2>5, <2>6, <2>7, <2>8, <2>9 DEF SmrInv
<1>5. QED
  BY <1>3, <1>4

-----------------------------------------------------------------------------
(* Nothing is read, listed or free to be taken for something else at the   *)
(* start.                                                                  *)
LEMMA SmrInitial == SmrInit => SmrInv
<1> SUFFICES ASSUME SmrInit PROVE SmrInv
  OBVIOUS
<1>1. SmrShape
  <2>1. /\ SmrTypeOK /\ 0 \in GracePeriod
    BY SmrAssumption DEF SmrInit, SmrTypeOK, NotReading, GracePeriod
  <2>2. /\ [smrgp |-> 0, deferred |-> <<>>, expedite |-> FALSE] \in Spc
        /\ [pc |-> "bored", list |-> <<>>, todo |-> <<>>] \in SmrThread
    <3>1. <<>> \in Seq(Obj) /\ <<>> \in Seq(SmrCPU)
      OBVIOUS
    <3>2. QED
      BY <2>1, <3>1 DEF Spc, SmrThread, SmrPcs
  <2>3. spc \in [SmrCPU -> Spc] /\ smr \in SmrThread
    BY <2>2 DEF SmrInit
  <2>4. smrgp \in [SmrCPU -> GracePeriod] /\ smr_deferred \in Seq(Obj)
    BY <2>1 DEF SmrInit
  <2>5. smr_expedite = FALSE /\ smr_wakeup_tmo = FALSE /\ smr.pc = "bored"
    BY DEF SmrInit
  <2>6. QED
    BY <2>1, <2>3, <2>4, <2>5 DEF SmrShape
<1>2. Entries(<<>>) = {} /\ NoRepeat(<<>>)
  BY DEF Entries, NoRepeat
<1>3. Once
  BY <1>2, SmrAssumption DEF SmrInit, Once
<1>4. Period /\ Holds
  BY DEF SmrInit, Period, Holds, Waiting, NotReading
<1>5. Dispatches /\ Pending /\ Wakes
  BY DEF SmrInit, Dispatches, Pending, Wakes
<1>6. QED
  BY <1>1, <1>3, <1>4, <1>5 DEF SmrInv

(* Every step keeps the invariant.                                         *)
LEMMA SmrPreserved == SmrInv /\ [SmrNext]_smrVars => SmrInv'
<1> SUFFICES ASSUME SmrInv, [SmrNext]_smrVars PROVE SmrInv'
  OBVIOUS
<1>1. ASSUME NEW c \in SmrCPU, smr_read_enter(c) \/ Get(c) \/ smr_read_leave(c) PROVE SmrInv'
  BY <1>1, ReaderPreserves
<1>2. ASSUME NEW c \in SmrCPU, NEW n \in Obj \cup {NoObj}, NEW x \in Expedite,
             smr_call_impl(c, n, x)
      PROVE  SmrInv'
  <2>1. x \in BOOLEAN
    BY SmrAssumption
  <2>2. QED
    BY <1>2, <2>1, CallPreserves
<1>3. ASSUME NEW c \in SmrCPU, NEW l \in Level, smr_dispatch(c, l) PROVE SmrInv'
  BY <1>3, DispatchPreserves
<1>4. ASSUME NEW c \in SmrCPU, NEW l \in Level, DispatchWake(c, l) PROVE SmrInv'
  BY <1>4, DispatchWakePreserves
<1>5. ASSUME NEW c \in SmrCPU, smr_idle(c) \/ ReadGracePeriod(c) \/ StoreGracePeriod(c)
      PROVE  SmrInv'
  BY <1>5, IdlePreserves
<1>6. ASSUME NEW c \in SmrCPU, Switch(c) PROVE SmrInv'
  BY <1>6, SwitchPreserves
<1>7. ASSUME NEW c \in SmrCPU, SmrLocked(c) PROVE SmrInv'
  BY <1>7, LockedPreserves
<1>8. ASSUME NEW c \in SmrCPU, Announce(c) PROVE SmrInv'
  BY <1>8, AnnouncePreserves
<1>9. ASSUME NEW c \in SmrCPU, Visit(c) \/ Pegged(c) PROVE SmrInv'
  BY <1>9, VisitPreserves
<1>10. ASSUME NEW c \in SmrCPU, SmrCall(c) PROVE SmrInv'
  BY <1>10, FreePreserves
<1>11. CASE TmoFires \/ PauseEnds
  BY <1>11, TimedPreserves
<1>12. CASE UNCHANGED smrVars
  BY <1>12 DEF smrVars, dataVars, deferVars, SmrInv, SmrShape, SmrTypeOK, Once, Period, Waiting,
               Holds, Passed, Dispatches, Pending, Wakes, Coming
<1>13. QED
  BY <1>1, <1>2, <1>3, <1>4, <1>5, <1>6, <1>7, <1>8, <1>9, <1>10, <1>11, <1>12 DEF SmrNext

(* The inductive invariant holds in every state of the reclamation.        *)
LEMMA SmrInvariant == SmrSpec => []SmrInv
  BY SmrInitial, SmrPreserved, PTL DEF SmrSpec

(* An object that a reader has found is not freed before the reader        *)
(* leaves, for any CPUs, readers, writers and objects, and however few the *)
(* grace periods are until they come round (256 in the code): two would    *)
(* do, because a CPU is never more than one behind.                        *)
THEOREM ReadersKeep == SmrSpec => []HeldIsLive
<1>1. SmrInv => HeldIsLive
  <2> SUFFICES ASSUME SmrInv PROVE HeldIsLive
    OBVIOUS
  <2>1. ASSUME NEW c \in SmrCPU
        PROVE  (smr_grace_period - spc[c].smrgp) % Periods \in {0, 1}
    <3>1. PICK g \in GracePeriod : g = spc[c].smrgp
      BY DEF SmrInv, SmrShape, Spc
    <3>2. smr_grace_period = g \/ smr_grace_period = After(g)
      BY <3>1 DEF SmrInv, Period
    <3>3. QED
      BY <3>1, <3>2, AfterValue
  <2>2. ASSUME NEW c \in SmrCPU, SmrRuns(c, "peg") PROVE spc[c].smrgp = smr_grace_period
    BY <2>2 DEF SmrRuns, SmrInv, Period
  <2>3. QED
    BY <2>1, <2>2 DEF SmrInv, SmrShape, Holds, HeldIsLive
<1>2. QED
  BY <1>1, SmrInvariant, PTL

(* No entry lingers: a CPU that is idle has none, and the thread sleeps    *)
(* only where nothing waits for it or a wakeup is coming.                  *)
THEOREM EntriesDispatched == SmrSpec => []NoEntryLingers
<1>1. SmrInv => NoEntryLingers
  <2> SUFFICES ASSUME SmrInv PROVE NoEntryLingers
    OBVIOUS
  <2>1. "process" \in Level /\ "interrupt" \in Level
    BY DEF Level
  <2>2. ASSUME NEW c \in SmrCPU, curproc[c] = "idle", \A l \in Level : at[c][l] = "out"
        PROVE  spc[c].deferred = <<>>
    BY <2>1, <2>2 DEF SmrInv, Dispatches
  <2>3. QED
    BY <2>2 DEF SmrInv, Wakes, NoEntryLingers
<1>2. QED
  BY <1>1, SmrInvariant, PTL

-----------------------------------------------------------------------------
(* Shared reference pointers                                               *)

(* The values of the variables.                                            *)
Hazards == [p : Srp \cup {NoVal}, v : Val \cup {NoVal}]
Stores == ((1 .. HAZARD_NUM) \X {"p"} \X (Srp \cup {NoVal}))
          \cup ((1 .. HAZARD_NUM) \X {"v"} \X (Val \cup {NoVal}))
EnterPcs == {"out", "load", "store", "check", "entered"}
Enters == [pc : EnterPcs, i : 0 .. HAZARD_NUM, srp : Srp \cup {NoVal}, v : Val \cup {NoVal}]
Scans == [srp : Srp, v : Val, k : Nat, half : BOOLEAN]

(* Where a reader is, and the record it has or is about to have.           *)
ReaderShape ==
    /\ ref \in [Srp -> Val \cup {NoVal}]
    /\ hazard \in [Record -> Hazards]
    /\ buffer \in [Reader -> Seq(Stores)]
    /\ sr \in [Reader -> {0, 1, 2}]
    /\ enter \in [Reader -> Enters]
    /\ \A r \in Reader :
          /\ enter[r].pc # "out" => enter[r].i = FreeRecord(r) /\ enter[r].srp \in Srp
          /\ enter[r].pc = "out" /\ sr[r] # 0 => enter[r].i = sr[r] /\ enter[r].srp \in Srp

(* A context that looks for a value.                                       *)
Scanning(u) == scan[u] # NotScanning

ScanShape ==
    /\ updates \in Updates
    /\ life \in [Val -> {"free", "live", "retired"}]
    /\ scan \in [Scanner -> Scans \cup {NotScanning}]
    /\ gc \subseteq Srp \X Val
    /\ \A u \in Scanner :
          Scanning(u) => /\ scan[u].k \in 1 .. Len(Records) + 1
                         /\ scan[u].half => scan[u].k \in 1 .. Len(Records)

(* A live value has one pointer, and a retired one is looked for by one    *)
(* scan or waits for one timeout.                                          *)
Lives ==
    /\ \A s \in Srp : ref[s] # NoVal => life[ref[s]] = "live"
    /\ \A s, t \in Srp : ref[s] = ref[t] /\ ref[s] # NoVal => s = t
    /\ \A u \in Scanner : Scanning(u) =>
          /\ life[scan[u].v] = "retired"
          /\ \A w \in Scanner : Scanning(w) /\ scan[w].v = scan[u].v => w = u
          /\ \A ctx \in gc : ctx[2] # scan[u].v
    /\ \A ctx \in gc : /\ life[ctx[2]] = "retired"
                       /\ \A c \in gc : c[2] = ctx[2] => c = ctx
    /\ \A v \in Val : life[v] = "retired" =>
          \/ \E u \in Scanner : Scanning(u) /\ scan[u].v = v
          \/ \E ctx \in gc : ctx[2] = v

InUseVals == {v \in Val : life[v] # "free"}

(* srp_gc_refcnt counts the values that are not destroyed.                 *)
Counted ==
    srp_gc_refcnt = IF updates = "update" THEN 1 + Cardinality(InUseVals) ELSE 1

SrpInv == ReaderShape /\ ScanShape /\ Lives /\ Counted

(* A sequence made of a finite set has all its elements.                   *)
LEMMA SetToSeqAll ==
    ASSUME NEW S, IsFiniteSet(S)
    PROVE  /\ SetToSeq(S) \in Seq(S)
           /\ \A x \in S : \E i \in 1 .. Len(SetToSeq(S)) : SetToSeq(S)[i] = x
<1> DEFINE n == Cardinality(S)
           q == SetToSeq(S)
<1>1. n \in Nat /\ ExistsBijection(1 .. n, S)
  BY FS_CardinalityType
<1>2. \E f \in [1 .. n -> S] : IsInjective(f)
  BY <1>1 DEF ExistsBijection, Bijection, Injection
<1>3. q \in [1 .. n -> S] /\ IsInjective(q)
  BY <1>2 DEF SetToSeq
<1>4. q \in Injection(1 .. n, S)
  BY <1>3 DEF Injection
<1>5. IsFiniteSet(1 .. n) /\ Cardinality(1 .. n) = n
  BY <1>1, FS_Interval
<1>6. q \in Surjection(1 .. n, S)
  BY <1>4, <1>5, FS_Injection
<1>7. q \in Seq(S) /\ Len(q) = n
  BY <1>1, <1>3, IsASeq, LenProperties
<1>8. QED
  BY <1>6, <1>7 DEF Surjection

(* The scan meets every record.                                            *)
LEMMA AllRecords ==
    /\ Records \in Seq(Record) /\ Len(Records) \in Nat
    /\ DOMAIN Records = 1 .. Len(Records)
    /\ \A i \in 1 .. Len(Records) : Records[i] \in Record
    /\ \A h \in Record : \E i \in 1 .. Len(Records) : Records[i] = h
<1>1. IsFiniteSet(1 .. HAZARD_NUM)
  <2>1. HAZARD_NUM \in Int /\ 1 \in Int
    BY SrpAssumption
  <2>2. QED
    BY <2>1, FS_Interval
<1>2. IsFiniteSet(Record)
  BY <1>1, SrpAssumption, FS_Product DEF Record
<1>3. Records \in Seq(Record)
  BY <1>2, SetToSeqAll DEF Records
<1>4. \A h \in Record : \E i \in 1 .. Len(Records) : Records[i] = h
  BY <1>2, SetToSeqAll DEF Records
<1>5. QED
  BY <1>3, <1>4, LenProperties, ElementOfSeq

(* The oldest store of a CPU becomes visible.                              *)
LEMMA DrainEffect ==
    ASSUME ReaderShape, NEW r \in Reader, Drain(r)
    PROVE  LET st == Head(buffer[r])
               h == hazard[<<r, st[1]>>]
           IN  /\ st \in Stores /\ <<r, st[1]>> \in Record /\ h \in Hazards
               /\ st[2] \in {"p", "v"}
               /\ hazard' \in [Record -> Hazards]
               /\ st[2] = "p" => hazard'[<<r, st[1]>>].p = st[3]
                                 /\ hazard'[<<r, st[1]>>].v = h.v
               /\ st[2] = "v" => hazard'[<<r, st[1]>>].v = st[3]
                                 /\ hazard'[<<r, st[1]>>].p = h.p
               /\ \A g \in Record \ {<<r, st[1]>>} : hazard'[g] = hazard[g]
               /\ buffer' \in [Reader -> Seq(Stores)]
               /\ buffer[r] # <<>> /\ buffer[r] \in Seq(Stores)
               /\ buffer'[r] = Tail(buffer[r])
               /\ \A q \in Reader \ {r} : buffer'[q] = buffer[q]
<1>1. buffer[r] # <<>> /\ buffer[r] \in Seq(Stores)
  BY DEF Drain, ReaderShape
<1>2. PICK st \in Stores : st = Head(buffer[r])
  BY <1>1, HeadTailProperties
<1>3. Tail(buffer[r]) \in Seq(Stores)
  BY <1>1, HeadTailProperties
<1>4. buffer' = [buffer EXCEPT ![r] = Tail(buffer[r])]
  BY DEF Drain
<1>5. /\ <<r, st[1]>> \in Record /\ st[2] \in {"p", "v"}
      /\ st[2] = "p" => st[3] \in Srp \cup {NoVal}
      /\ st[2] = "v" => st[3] \in Val \cup {NoVal}
  BY <1>2 DEF Stores, Record
<1>6. PICK key \in Record : key = <<r, st[1]>>
  BY <1>5
<1>7. PICK h \in Hazards : h = hazard[key]
  BY DEF ReaderShape
<1>8. PICK n : n = IF st[2] = "p" THEN [h EXCEPT !.p = st[3]] ELSE [h EXCEPT !.v = st[3]]
  OBVIOUS
<1>9. hazard' = [hazard EXCEPT ![key] = n]
  BY <1>2, <1>6, <1>7, <1>8 DEF Drain, ReaderShape
<1>10. /\ n \in Hazards
       /\ st[2] = "p" => n.p = st[3] /\ n.v = h.v
       /\ st[2] = "v" => n.v = st[3] /\ n.p = h.p
  BY <1>5, <1>7, <1>8 DEF Hazards
<1>11. /\ hazard' \in [Record -> Hazards] /\ hazard'[key] = n
       /\ \A g \in Record \ {key} : hazard'[g] = hazard[g]
  BY <1>9, <1>10 DEF ReaderShape
<1>12. /\ buffer' \in [Reader -> Seq(Stores)] /\ buffer'[r] = Tail(buffer[r])
       /\ \A q \in Reader \ {r} : buffer'[q] = buffer[q]
  BY <1>3, <1>4 DEF ReaderShape
<1>13. QED
  BY <1>1, <1>2, <1>5, <1>6, <1>7, <1>10, <1>11, <1>12

(* A store of a CPU waits behind its others.                               *)
LEMMA StoreEffect ==
    ASSUME ReaderShape, NEW r \in Reader, NEW i \in 1 .. HAZARD_NUM,
           NEW f, NEW x, <<i, f, x>> \in Stores, Store(r, i, f, x)
    PROVE  /\ buffer' \in [Reader -> Seq(Stores)]
           /\ buffer'[r] = Append(buffer[r], <<i, f, x>>)
           /\ \A q \in Reader \ {r} : buffer'[q] = buffer[q]
<1>1. Append(buffer[r], <<i, f, x>>) \in Seq(Stores)
  BY AppendProperties DEF ReaderShape
<1>2. QED
  BY <1>1 DEF Store, ReaderShape

(* What the steps of a reader do to its call and to its record.            *)
LEMMA EnterEffect ==
    ASSUME ReaderShape, NEW r \in Reader, NEW e \in Enters, enter' = [enter EXCEPT ![r] = e]
    PROVE  /\ enter' \in [Reader -> Enters] /\ enter'[r] = e
           /\ \A q \in Reader \ {r} : enter'[q] = enter[q]
  BY DEF ReaderShape

(* srp_enter() and srp_follow() claim a record.                            *)
LEMMA srp_enterEffect ==
    ASSUME ReaderShape, NEW r \in Reader, NEW s \in Srp, srp_enter(r, s)
    PROVE  /\ enter' \in [Reader -> Enters]
           /\ enter[r].pc = "out" /\ enter'[r].pc = "load" /\ enter'[r].srp = s
           /\ enter'[r].i = FreeRecord(r) /\ FreeRecord(r) \in 1 .. HAZARD_NUM
           /\ \A q \in Reader \ {r} : enter'[q] = enter[q] /\ buffer'[q] = buffer[q]
           /\ buffer' \in [Reader -> Seq(Stores)]
           /\ <<FreeRecord(r), "p", s>> \in Stores
           /\ buffer'[r] = Append(buffer[r], <<FreeRecord(r), "p", s>>)
           /\ UNCHANGED <<ref, hazard, sr>> /\ UNCHANGED updaterVars
<1>1. PICK i \in 1 .. HAZARD_NUM : i = FreeRecord(r)
  BY SrpAssumption DEF FreeRecord
<1>2. /\ enter' = [enter EXCEPT ![r] = [pc |-> "load", i |-> i, srp |-> s, v |-> NoVal]]
      /\ Store(r, i, "p", s) /\ enter[r].pc = "out"
      /\ UNCHANGED <<ref, hazard, sr>> /\ UNCHANGED updaterVars
  BY <1>1 DEF srp_enter
<1>3. <<i, "p", s>> \in Stores
  BY DEF Stores
<1>4. PICK e : e = [pc |-> "load", i |-> i, srp |-> s, v |-> NoVal]
  OBVIOUS
<1>5. e \in Enters /\ e.pc = "load" /\ e.srp = s /\ e.i = i
  BY <1>4, SrpAssumption DEF Enters, EnterPcs
<1>6. /\ enter' \in [Reader -> Enters] /\ enter'[r] = e
      /\ \A q \in Reader \ {r} : enter'[q] = enter[q]
  BY <1>2, <1>4, <1>5, EnterEffect
<1>7. /\ buffer' \in [Reader -> Seq(Stores)]
      /\ buffer'[r] = Append(buffer[r], <<i, "p", s>>)
      /\ \A q \in Reader \ {r} : buffer'[q] = buffer[q]
  BY <1>2, <1>3, StoreEffect
<1>8. QED
  BY <1>1, <1>2, <1>3, <1>5, <1>6, <1>7

(* srp_v() reads the value.                                                *)
LEMMA LoadEffect ==
    ASSUME ReaderShape, NEW r \in Reader, LoadRef(r)
    PROVE  /\ enter' \in [Reader -> Enters]
           /\ enter[r].pc = "load" /\ enter'[r].pc = "store"
           /\ enter'[r].srp = enter[r].srp /\ enter'[r].i = enter[r].i
           /\ \A q \in Reader \ {r} : enter'[q] = enter[q]
           /\ UNCHANGED <<ref, hazard, buffer, sr>> /\ UNCHANGED updaterVars
<1>1. PICK e \in Enters : e = enter[r]
  BY DEF ReaderShape
<1>2. PICK x \in Val \cup {NoVal} : x = ref[enter[r].srp]
  BY DEF ReaderShape, LoadRef
<1>3. enter' = [enter EXCEPT ![r] = [e EXCEPT !.pc = "store", !.v = x]]
  BY <1>1, <1>2 DEF LoadRef, ReaderShape
<1>4. PICK n : n = [e EXCEPT !.pc = "store", !.v = x]
  OBVIOUS
<1>5. n \in Enters /\ n.pc = "store" /\ n.i = e.i /\ n.srp = e.srp
  BY <1>2, <1>4 DEF Enters, EnterPcs
<1>6. QED
  BY <1>1, <1>3, <1>4, <1>5, EnterEffect DEF LoadRef

(* Steps that only move a reader on.                                       *)
LEMMA MoveEffect ==
    ASSUME ReaderShape, NEW r \in Reader, NEW p \in EnterPcs,
           enter' = [enter EXCEPT ![r].pc = p]
    PROVE  /\ enter' \in [Reader -> Enters]
           /\ enter'[r].pc = p /\ enter'[r].i = enter[r].i
           /\ enter'[r].srp = enter[r].srp /\ enter'[r].v = enter[r].v
           /\ \A q \in Reader \ {r} : enter'[q] = enter[q]
<1>1. PICK e \in Enters : e = enter[r]
  BY DEF ReaderShape
<1>2. enter' = [enter EXCEPT ![r] = [e EXCEPT !.pc = p]]
  BY <1>1 DEF ReaderShape
<1>3. PICK n : n = [e EXCEPT !.pc = p]
  OBVIOUS
<1>4. n \in Enters /\ n.pc = p /\ n.i = e.i /\ n.srp = e.srp /\ n.v = e.v
  BY <1>3 DEF Enters
<1>5. QED
  BY <1>1, <1>2, <1>3, <1>4, EnterEffect

(* srp_v() announces the value.                                            *)
LEMMA StoreHazardEffect ==
    ASSUME ReaderShape, NEW r \in Reader, StoreHazard(r)
    PROVE  /\ enter' \in [Reader -> Enters]
           /\ enter[r].pc = "store" /\ enter'[r].pc = "check"
           /\ enter'[r].i = enter[r].i /\ enter'[r].srp = enter[r].srp
           /\ enter'[r].v = enter[r].v /\ enter[r].i \in 1 .. HAZARD_NUM
           /\ \A q \in Reader \ {r} : enter'[q] = enter[q] /\ buffer'[q] = buffer[q]
           /\ buffer' \in [Reader -> Seq(Stores)]
           /\ <<enter[r].i, "v", enter[r].v>> \in Stores
           /\ buffer'[r] = Append(buffer[r], <<enter[r].i, "v", enter[r].v>>)
           /\ UNCHANGED <<ref, hazard, sr>> /\ UNCHANGED updaterVars
<1>1. /\ enter' = [enter EXCEPT ![r].pc = "check"] /\ enter[r].pc = "store"
      /\ Store(r, enter[r].i, "v", enter[r].v) /\ "check" \in EnterPcs
      /\ UNCHANGED <<ref, hazard, sr>> /\ UNCHANGED updaterVars
  BY DEF StoreHazard, EnterPcs
<1>2. enter[r].i \in 1 .. HAZARD_NUM
  <2>1. enter[r].pc # "out"
    BY DEF StoreHazard
  <2>2. enter[r].i = FreeRecord(r)
    BY <2>1 DEF ReaderShape
  <2>3. QED
    BY <2>2, SrpAssumption DEF FreeRecord
<1>3. enter[r].v \in Val \cup {NoVal}
  BY DEF ReaderShape, Enters
<1>4. <<enter[r].i, "v", enter[r].v>> \in Stores
  BY <1>2, <1>3 DEF Stores
<1>5. /\ enter' \in [Reader -> Enters] /\ enter'[r].pc = "check"
      /\ enter'[r].i = enter[r].i /\ enter'[r].srp = enter[r].srp
      /\ enter'[r].v = enter[r].v
      /\ \A q \in Reader \ {r} : enter'[q] = enter[q]
  BY <1>1, MoveEffect
<1>6. PICK i \in 1 .. HAZARD_NUM, x \in Val \cup {NoVal} : i = enter[r].i /\ x = enter[r].v
  BY <1>2, <1>3
<1>7. /\ buffer' \in [Reader -> Seq(Stores)]
      /\ buffer'[r] = Append(buffer[r], <<i, "v", x>>)
      /\ \A q \in Reader \ {r} : buffer'[q] = buffer[q]
  BY <1>1, <1>4, <1>6, StoreEffect
<1>8. QED
  BY <1>1, <1>2, <1>4, <1>5, <1>6, <1>7

(* srp_v() looks at the value again.                                       *)
LEMMA CheckEffect ==
    ASSUME ReaderShape, NEW r \in Reader, CheckRef(r)
    PROVE  /\ enter' \in [Reader -> Enters]
           /\ enter[r].pc = "check" /\ enter'[r].i = enter[r].i
           /\ enter'[r].pc = IF enter[r].v = ref[enter[r].srp] THEN "entered" ELSE "load"
           /\ enter'[r].srp = enter[r].srp /\ enter'[r].v = enter[r].v
           /\ \A q \in Reader \ {r} : enter'[q] = enter[q]
           /\ UNCHANGED <<ref, hazard, buffer, sr>> /\ UNCHANGED updaterVars
           /\ ConsumerDrains => buffer[r] = <<>>
<1>1. PICK p \in EnterPcs : p = IF enter[r].v = ref[enter[r].srp] THEN "entered" ELSE "load"
  BY DEF EnterPcs
<1>2. enter' = [enter EXCEPT ![r].pc = p]
  BY <1>1 DEF CheckRef
<1>3. QED
  BY <1>1, <1>2, MoveEffect DEF CheckRef

(* The reader has its reference.                                           *)
LEMMA EnteredEffect ==
    ASSUME ReaderShape, NEW r \in Reader, Entered(r)
    PROVE  /\ enter' \in [Reader -> Enters]
           /\ enter[r].pc = "entered" /\ enter'[r].pc = "out"
           /\ enter'[r].i = enter[r].i /\ enter'[r].srp = enter[r].srp
           /\ enter'[r].v = enter[r].v
           /\ enter[r].i \in {1, 2} /\ enter[r].i # sr[r]
           /\ sr' \in [Reader -> {0, 1, 2}] /\ sr'[r] = enter[r].i
           /\ \A q \in Reader \ {r} : /\ enter'[q] = enter[q] /\ buffer'[q] = buffer[q]
                                      /\ sr'[q] = sr[q]
           /\ buffer' \in [Reader -> Seq(Stores)]
           /\ <<sr[r], "p", NoVal>> \in Stores \/ sr[r] = 0
           /\ buffer'[r] = IF sr[r] = 0 THEN buffer[r]
                           ELSE Append(buffer[r], <<sr[r], "p", NoVal>>)
           /\ UNCHANGED <<ref, hazard>> /\ UNCHANGED updaterVars
<1>1. /\ enter' = [enter EXCEPT ![r].pc = "out"] /\ enter[r].pc = "entered"
      /\ "out" \in EnterPcs /\ sr' = [sr EXCEPT ![r] = enter[r].i]
      /\ UNCHANGED <<ref, hazard>> /\ UNCHANGED updaterVars
  BY DEF Entered, EnterPcs
<1>2. enter[r].i \in {1, 2} /\ enter[r].i # sr[r]
  <2>1. enter[r].pc # "out"
    BY DEF Entered
  <2>2. enter[r].i = FreeRecord(r)
    BY <2>1 DEF ReaderShape
  <2>3. QED
    BY <2>2 DEF FreeRecord
<1>3. /\ sr' \in [Reader -> {0, 1, 2}] /\ sr'[r] = enter[r].i
      /\ \A q \in Reader \ {r} : sr'[q] = sr[q]
  BY <1>1, <1>2 DEF ReaderShape
<1>4. /\ buffer' \in [Reader -> Seq(Stores)]
      /\ <<sr[r], "p", NoVal>> \in Stores \/ sr[r] = 0
      /\ buffer'[r] = IF sr[r] = 0 THEN buffer[r]
                      ELSE Append(buffer[r], <<sr[r], "p", NoVal>>)
      /\ \A q \in Reader \ {r} : buffer'[q] = buffer[q]
  <2>1. CASE sr[r] = 0
    BY <2>1 DEF Entered, ReaderShape
  <2>2. CASE sr[r] # 0
    <3>1. PICK i \in 1 .. HAZARD_NUM : i = sr[r]
      BY <2>2, SrpAssumption DEF ReaderShape
    <3>2. <<i, "p", NoVal>> \in Stores /\ Store(r, i, "p", NoVal)
      BY <2>2, <3>1 DEF Stores, Entered
    <3>3. QED
      BY <2>2, <3>1, <3>2, StoreEffect
  <2>3. QED
    BY <2>1, <2>2
<1>5. /\ enter' \in [Reader -> Enters] /\ enter'[r].pc = "out"
      /\ enter'[r].i = enter[r].i /\ enter'[r].srp = enter[r].srp
      /\ enter'[r].v = enter[r].v
      /\ \A q \in Reader \ {r} : enter'[q] = enter[q]
  BY <1>1, MoveEffect
<1>6. QED
  BY <1>1, <1>2, <1>3, <1>4, <1>5

(* The reader gives its reference up.                                      *)
LEMMA LeaveEffect ==
    ASSUME ReaderShape, NEW r \in Reader, srp_leave(r)
    PROVE  /\ enter' \in [Reader -> Enters]
           /\ enter[r].pc = "out" /\ enter'[r].pc = "out"
           /\ sr' \in [Reader -> {0, 1, 2}] /\ sr'[r] = 0 /\ sr[r] # 0
           /\ \A q \in Reader \ {r} : /\ enter'[q] = enter[q] /\ buffer'[q] = buffer[q]
                                      /\ sr'[q] = sr[q]
           /\ buffer' \in [Reader -> Seq(Stores)]
           /\ UNCHANGED <<ref, hazard>> /\ UNCHANGED updaterVars
<1>1. PICK i \in 1 .. HAZARD_NUM : i = sr[r]
  BY SrpAssumption DEF ReaderShape, srp_leave
<1>2. <<i, "p", NoVal>> \in Stores /\ Store(r, i, "p", NoVal)
  BY <1>1 DEF Stores, srp_leave
<1>3. NotEntering \in Enters /\ NotEntering.pc = "out"
  BY SrpAssumption DEF Enters, EnterPcs, NotEntering
<1>4. /\ enter' = [enter EXCEPT ![r] = NotEntering]
      /\ sr' = [sr EXCEPT ![r] = 0] /\ enter[r].pc = "out" /\ sr[r] # 0
      /\ UNCHANGED <<ref, hazard>> /\ UNCHANGED updaterVars
  BY DEF srp_leave
<1>5. sr' \in [Reader -> {0, 1, 2}] /\ sr'[r] = 0 /\ \A q \in Reader \ {r} : sr'[q] = sr[q]
  BY <1>4 DEF ReaderShape
<1>6. QED
  BY <1>2, <1>3, <1>4, <1>5, EnterEffect, StoreEffect

(* What a reader's CPU does next.                                          *)
ReaderStep(r) ==
    \/ \E s \in Srp : srp_enter(r, s)
    \/ LoadRef(r) \/ StoreHazard(r) \/ CheckRef(r) \/ Entered(r) \/ srp_leave(r)
    \/ Drain(r)

(* A step of a reader keeps its shape and does nothing to the values.      *)
LEMMA ReaderShapes ==
    ASSUME ReaderShape, NEW r \in Reader, ReaderStep(r)
    PROVE  ReaderShape' /\ UNCHANGED updaterVars /\ UNCHANGED ref
<1> DEFINE Shape(q) ==
             /\ enter[q].pc # "out" => enter[q].i = FreeRecord(q) /\ enter[q].srp \in Srp
             /\ enter[q].pc = "out" /\ sr[q] # 0 => enter[q].i = sr[q] /\ enter[q].srp \in Srp
<1>0. \A q \in Reader : Shape(q)
  BY DEF ReaderShape
<1> SUFFICES /\ ref' = ref /\ UNCHANGED updaterVars
             /\ hazard' \in [Record -> Hazards] /\ buffer' \in [Reader -> Seq(Stores)]
             /\ sr' \in [Reader -> {0, 1, 2}] /\ enter' \in [Reader -> Enters]
             /\ \A q \in Reader \ {r} : enter'[q] = enter[q] /\ sr'[q] = sr[q]
             /\ Shape(r)'
  BY <1>0 DEF ReaderShape, FreeRecord
<1>u. ref' = ref /\ UNCHANGED updaterVars
  BY DEF ReaderStep, srp_enter, LoadRef, StoreHazard, CheckRef, Entered, srp_leave, Drain
<1>t. /\ hazard \in [Record -> Hazards] /\ buffer \in [Reader -> Seq(Stores)]
      /\ sr \in [Reader -> {0, 1, 2}] /\ enter \in [Reader -> Enters] /\ Shape(r)
  BY <1>0 DEF ReaderShape
<1>1. ASSUME NEW s \in Srp, srp_enter(r, s)
      PROVE  /\ hazard' = hazard /\ buffer' \in [Reader -> Seq(Stores)]
             /\ sr' = sr /\ enter' \in [Reader -> Enters]
             /\ \A q \in Reader \ {r} : enter'[q] = enter[q]
             /\ enter'[r].pc = "load" /\ enter'[r].srp = s /\ enter'[r].i = FreeRecord(r)
  BY <1>1, srp_enterEffect
<1>2. ASSUME LoadRef(r)
      PROVE  /\ hazard' = hazard /\ buffer' = buffer
             /\ sr' = sr /\ enter' \in [Reader -> Enters]
             /\ \A q \in Reader \ {r} : enter'[q] = enter[q]
             /\ enter[r].pc # "out" /\ enter'[r].pc # "out"
             /\ enter'[r].srp = enter[r].srp /\ enter'[r].i = enter[r].i
  BY <1>2, LoadEffect
<1>3. ASSUME StoreHazard(r)
      PROVE  /\ hazard' = hazard /\ buffer' \in [Reader -> Seq(Stores)]
             /\ sr' = sr /\ enter' \in [Reader -> Enters]
             /\ \A q \in Reader \ {r} : enter'[q] = enter[q]
             /\ enter[r].pc # "out" /\ enter'[r].pc # "out"
             /\ enter'[r].srp = enter[r].srp /\ enter'[r].i = enter[r].i
  BY <1>3, StoreHazardEffect
<1>4. ASSUME CheckRef(r)
      PROVE  /\ hazard' = hazard /\ buffer' = buffer
             /\ sr' = sr /\ enter' \in [Reader -> Enters]
             /\ \A q \in Reader \ {r} : enter'[q] = enter[q]
             /\ enter[r].pc # "out" /\ enter'[r].pc # "out"
             /\ enter'[r].srp = enter[r].srp /\ enter'[r].i = enter[r].i
  BY <1>4, CheckEffect
<1>5. ASSUME Entered(r)
      PROVE  /\ hazard' = hazard /\ buffer' \in [Reader -> Seq(Stores)]
             /\ sr' \in [Reader -> {0, 1, 2}] /\ enter' \in [Reader -> Enters]
             /\ \A q \in Reader \ {r} : enter'[q] = enter[q] /\ sr'[q] = sr[q]
             /\ enter[r].pc # "out" /\ enter'[r].pc = "out" /\ sr'[r] = enter[r].i
             /\ enter'[r].srp = enter[r].srp /\ enter'[r].i = enter[r].i
  BY <1>5, EnteredEffect
<1>6. ASSUME srp_leave(r)
      PROVE  /\ hazard' = hazard /\ buffer' \in [Reader -> Seq(Stores)]
             /\ sr' \in [Reader -> {0, 1, 2}] /\ enter' \in [Reader -> Enters]
             /\ \A q \in Reader \ {r} : enter'[q] = enter[q] /\ sr'[q] = sr[q]
             /\ enter'[r].pc = "out" /\ sr'[r] = 0
  BY <1>6, LeaveEffect
<1>7. ASSUME Drain(r)
      PROVE  hazard' \in [Record -> Hazards] /\ buffer' \in [Reader -> Seq(Stores)]
  BY <1>7, DrainEffect
<1>8. ASSUME Drain(r) PROVE sr' = sr /\ enter' = enter
  BY <1>8 DEF Drain
<1>q. CASE \E s \in Srp : srp_enter(r, s)
  BY <1>q, <1>1, <1>t, <1>u DEF FreeRecord
<1>r. CASE LoadRef(r) \/ StoreHazard(r) \/ CheckRef(r)
  BY <1>r, <1>2, <1>3, <1>4, <1>t, <1>u DEF FreeRecord
<1>s. CASE Entered(r) \/ srp_leave(r)
  BY <1>s, <1>5, <1>6, <1>t, <1>u
<1>v. CASE Drain(r)
  BY <1>v, <1>7, <1>8, <1>t, <1>u DEF FreeRecord
<1> QED
  BY <1>q, <1>r, <1>s, <1>v DEF ReaderStep

(***************************************************************************)
(* Scans and values                                                        *)
(***************************************************************************)

(* Nothing is looked for, or one value of one pointer.                     *)
LEMMA ScanRecord ==
    ASSUME ScanShape, NEW u \in Scanner
    PROVE  /\ scan[u] \in Scans \cup {NotScanning}
           /\ Scanning(u) => scan[u] \in Scans
           /\ Scanning(u) => scan[u].v \in Val /\ scan[u].srp \in Srp /\ scan[u].k \in Nat
           /\ NotScanning.k = 0 /\ NotScanning.half = FALSE /\ NotScanning \notin Scans
<1>1. scan[u] \in Scans \cup {NotScanning} /\ (Scanning(u) => scan[u] \in Scans)
  BY DEF ScanShape, Scanning
<1>2. \A x \in Scans : x.v \in Val /\ x.srp \in Srp /\ x.k \in Nat
  BY DEF Scans
<1>3. NotScanning.k = 0 /\ NotScanning.half = FALSE /\ NotScanning.srp = NoVal
  BY DEF NotScanning
<1>4. QED
  BY <1>1, <1>2, <1>3, SrpAssumption

(* One scanner moves on.                                                   *)
LEMMA ScanEffect ==
    ASSUME ScanShape, NEW u \in Scanner, NEW n \in Scans \cup {NotScanning},
           scan' = [scan EXCEPT ![u] = n]
    PROVE  /\ scan' \in [Scanner -> Scans \cup {NotScanning}] /\ scan'[u] = n
           /\ \A w \in Scanner \ {u} : scan'[w] = scan[w]
  BY DEF ScanShape

(* A scan that goes on, with the same value.                               *)
LEMMA ScanMoves ==
    ASSUME SrpInv, NEW u \in Scanner, Scanning(u), NEW n \in Scans,
           n.srp = scan[u].srp, n.v = scan[u].v,
           n.k \in 1 .. Len(Records) + 1, n.half => n.k \in 1 .. Len(Records),
           scan' = [scan EXCEPT ![u] = n],
           UNCHANGED <<updates, ref, hazard, buffer, life, srp_gc_refcnt, sr, enter, gc>>
    PROVE  SrpInv'
<1>1. /\ scan' \in [Scanner -> Scans \cup {NotScanning}] /\ scan'[u] = n
      /\ \A w \in Scanner \ {u} : scan'[w] = scan[w]
  BY ScanEffect DEF SrpInv
<1>2. n # NotScanning
  BY ScanRecord DEF SrpInv
<1>3. \A w \in Scanner : /\ (scan'[w] # NotScanning) = (scan[w] # NotScanning)
                         /\ scan[w] # NotScanning => scan'[w].v = scan[w].v
  BY <1>1, <1>2 DEF Scanning
<1>4. ReaderShape'
  BY DEF SrpInv, ReaderShape, FreeRecord
<1>5. ScanShape'
  BY <1>1, <1>2 DEF SrpInv, ScanShape, Scanning
<1>6. Lives'
  BY <1>3 DEF SrpInv, Lives, Scanning
<1>7. Counted'
  BY DEF SrpInv, Counted, InUseVals
<1>8. QED
  BY <1>4, <1>5, <1>6, <1>7 DEF SrpInv

(* The look at the pointer of a record keeps the invariant.                *)
LEMMA ScanPointerPreserves ==
    ASSUME SrpInv, NEW u \in Scanner, ScanPointer(u)
    PROVE  SrpInv' /\ Scanning(u) /\ UNCHANGED <<ref, hazard, buffer, sr, enter, life, gc>>
<1>1. scan[u].k \in 1 .. Len(Records) /\ ~scan[u].half /\ Len(Records) \in Nat
  BY AllRecords DEF ScanPointer
<1>2. Scanning(u) /\ scan[u] \in Scans
  <2>1. scan[u].k # NotScanning.k
    BY <1>1 DEF NotScanning
  <2>2. Scanning(u)
    BY <2>1 DEF Scanning
  <2>3. QED
    BY <2>2, ScanRecord DEF SrpInv
<1>3. PICK e \in Scans : e = scan[u]
  BY <1>2
<1>4. PICK a : a = [e EXCEPT !.half = TRUE]
  OBVIOUS
<1>5. PICK b : b = [e EXCEPT !.k = e.k + 1]
  OBVIOUS
<1>6. /\ a \in Scans /\ a.srp = e.srp /\ a.v = e.v /\ a.k = e.k
      /\ b \in Scans /\ b.srp = e.srp /\ b.v = e.v /\ b.k = e.k + 1 /\ b.half = e.half
  <2>1. a \in Scans /\ a.srp = e.srp /\ a.v = e.v /\ a.k = e.k
    BY <1>3, <1>4 DEF Scans
  <2>2. PICK j \in Nat : j = e.k + 1
    BY <1>3 DEF Scans
  <2>3. b = [e EXCEPT !.k = j]
    BY <1>5, <2>2
  <2>4. b \in Scans /\ b.srp = e.srp /\ b.v = e.v /\ b.k = j /\ b.half = e.half
    BY <1>3, <2>3 DEF Scans
  <2>5. QED
    BY <2>1, <2>2, <2>4
<1>7. scan' = [scan EXCEPT ![u] = a] \/ scan' = [scan EXCEPT ![u] = b]
  BY <1>3, <1>4, <1>5 DEF ScanPointer, SrpInv, ScanShape
<1>8. UNCHANGED <<updates, ref, hazard, buffer, life, srp_gc_refcnt, sr, enter, gc>>
  BY DEF ScanPointer
<1>9. ASSUME scan' = [scan EXCEPT ![u] = a] PROVE SrpInv'
  <2>1. a.k \in 1 .. Len(Records) + 1 /\ a.k \in 1 .. Len(Records)
    BY <1>1, <1>3, <1>6
  <2>2. QED
    BY <1>2, <1>3, <1>6, <1>8, <1>9, <2>1, ScanMoves
<1>10. ASSUME scan' = [scan EXCEPT ![u] = b] PROVE SrpInv'
  <2>1. b.k \in 1 .. Len(Records) + 1 /\ ~b.half
    BY <1>1, <1>3, <1>6
  <2>2. QED
    BY <1>2, <1>3, <1>6, <1>8, <1>10, <2>1, ScanMoves
<1>11. QED
  BY <1>2, <1>7, <1>8, <1>9, <1>10

(* The search ends and its value is handed to a timeout.                   *)
LEMMA InUsePreserves ==
    ASSUME SrpInv, NEW u \in Scanner, Scanning(u), InUse(u),
           UNCHANGED <<updates, ref, hazard, buffer, life, srp_gc_refcnt, sr, enter>>
    PROVE  SrpInv'
<1>1. PICK e \in Scans : e = scan[u]
  BY ScanRecord DEF SrpInv
<1>2. e.v \in Val /\ e.srp \in Srp
  BY DEF Scans
<1>3. CASE updates = "update"
  <2>1. PICK c : c = <<e.srp, e.v>>
    OBVIOUS
  <2>2. gc' = gc \cup {c} /\ scan' = [scan EXCEPT ![u] = NotScanning]
    BY <1>1, <1>3, <2>1 DEF InUse
  <2>3. c[2] = e.v /\ c \in Srp \X Val
    BY <1>2, <2>1
  <2>4. /\ scan' \in [Scanner -> Scans \cup {NotScanning}] /\ scan'[u] = NotScanning
        /\ \A w \in Scanner \ {u} : scan'[w] = scan[w]
    BY <2>2, ScanEffect DEF SrpInv
  <2>5. ReaderShape'
    BY DEF SrpInv, ReaderShape, FreeRecord
  <2>6. ScanShape'
    BY <2>2, <2>3, <2>4 DEF SrpInv, ScanShape, Scanning
  <2>7. Lives'
    <3>1. /\ life[e.v] = "retired"
          /\ \A w \in Scanner : Scanning(w) /\ scan[w].v = e.v => w = u
          /\ \A ctx \in gc : ctx[2] # e.v
      BY <1>1 DEF SrpInv, Lives
    <3>2. \A w \in Scanner : Scanning(w)' => w # u /\ Scanning(w) /\ scan'[w] = scan[w]
      BY <2>4 DEF Scanning
    <3>3. \A w \in Scanner : Scanning(w)' =>
             /\ life'[scan'[w].v] = "retired"
             /\ \A z \in Scanner : Scanning(z)' /\ scan'[z].v = scan'[w].v => z = w
             /\ \A ctx \in gc' : ctx[2] # scan'[w].v
      <4> SUFFICES ASSUME NEW w \in Scanner, Scanning(w)'
                   PROVE  /\ life'[scan'[w].v] = "retired"
                          /\ \A z \in Scanner : Scanning(z)' /\ scan'[z].v = scan'[w].v => z = w
                          /\ \A ctx \in gc' : ctx[2] # scan'[w].v
        OBVIOUS
      <4>1. w # u /\ Scanning(w) /\ scan'[w] = scan[w]
        BY <3>2
      <4>2. /\ life[scan[w].v] = "retired"
            /\ \A z \in Scanner : Scanning(z) /\ scan[z].v = scan[w].v => z = w
            /\ \A ctx \in gc : ctx[2] # scan[w].v
        BY <4>1 DEF SrpInv, Lives
      <4>3. scan[w].v # e.v
        BY <3>1, <4>1
      <4>4. QED
        BY <2>2, <2>3, <3>2, <4>1, <4>2, <4>3
    <3>4. \A ctx \in gc' : /\ life'[ctx[2]] = "retired"
                           /\ \A d \in gc' : d[2] = ctx[2] => d = ctx
      BY <2>2, <2>3, <3>1 DEF SrpInv, Lives
    <3>5. \A v \in Val : life'[v] = "retired" =>
             \/ \E w \in Scanner : Scanning(w)' /\ scan'[w].v = v
             \/ \E ctx \in gc' : ctx[2] = v
      <4> SUFFICES ASSUME NEW v \in Val, life'[v] = "retired", v # e.v
                   PROVE  \/ \E w \in Scanner : Scanning(w)' /\ scan'[w].v = v
                          \/ \E ctx \in gc' : ctx[2] = v
        BY <2>2, <2>3
      <4>1. CASE \E w \in Scanner : Scanning(w) /\ scan[w].v = v
        BY <4>1, <1>1, <2>4 DEF Scanning
      <4>2. CASE \E ctx \in gc : ctx[2] = v
        BY <4>2, <2>2
      <4>3. QED
        BY <4>1, <4>2 DEF SrpInv, Lives
    <3>6. QED
      BY <3>3, <3>4, <3>5 DEF SrpInv, Lives, Scanning
  <2>8. Counted'
    BY DEF SrpInv, Counted, InUseVals
  <2>9. QED
    BY <2>5, <2>6, <2>7, <2>8 DEF SrpInv
<1>4. CASE updates # "update"
  <2>1. PICK n : n = [e EXCEPT !.k = 1, !.half = FALSE]
    OBVIOUS
  <2>2. n \in Scans /\ n.srp = e.srp /\ n.v = e.v /\ n.k = 1 /\ ~n.half
    BY <1>1, <2>1 DEF Scans
  <2>3. scan' = [scan EXCEPT ![u] = n] /\ gc' = gc
    BY <1>1, <1>4, <2>1 DEF InUse, SrpInv, ScanShape
  <2>4. n.k \in 1 .. Len(Records) + 1
    BY <2>2, AllRecords
  <2>5. QED
    BY <1>1, <2>2, <2>3, <2>4, ScanMoves
<1>5. QED
  BY <1>3, <1>4

(* The look at the value of a record keeps the invariant.                  *)
LEMMA ScanValuePreserves ==
    ASSUME SrpInv, NEW u \in Scanner, ScanValue(u)
    PROVE  SrpInv' /\ Scanning(u)
<1>1. scan[u].half /\ UNCHANGED <<updates, ref, hazard, buffer, life, srp_gc_refcnt, sr, enter>>
  BY DEF ScanValue
<1>2. Scanning(u)
  <2>1. scan[u].half # NotScanning.half
    BY <1>1 DEF NotScanning
  <2>2. QED
    BY <2>1 DEF Scanning
<1>3. PICK e \in Scans : e = scan[u]
  BY <1>2, ScanRecord DEF SrpInv
<1>4. CASE hazard[Records[scan[u].k]].v = scan[u].v
  <2>1. InUse(u)
    BY <1>4 DEF ScanValue
  <2>2. QED
    BY <1>1, <1>2, <2>1, InUsePreserves
<1>5. CASE hazard[Records[scan[u].k]].v # scan[u].v
  <2>1. PICK j \in Nat : j = e.k + 1
    BY <1>3 DEF Scans
  <2>2. PICK n : n = [e EXCEPT !.k = j, !.half = FALSE]
    OBVIOUS
  <2>3. n \in Scans /\ n.srp = e.srp /\ n.v = e.v /\ n.k = j /\ ~n.half
    BY <1>3, <2>2 DEF Scans
  <2>4. scan' = [scan EXCEPT ![u] = n] /\ gc' = gc
    BY <1>3, <1>5, <2>1, <2>2 DEF ScanValue, SrpInv, ScanShape
  <2>5. e.k \in 1 .. Len(Records)
    BY <1>1, <1>2, <1>3 DEF SrpInv, ScanShape
  <2>6. n.k \in 1 .. Len(Records) + 1
    BY <2>1, <2>3, <2>5, AllRecords
  <2>7. QED
    BY <1>1, <1>2, <1>3, <2>3, <2>4, <2>6, ScanMoves
<1>6. QED
  BY <1>4, <1>5

(* The timeout of a context becomes a scan.                                *)
LEMMA CollectPreserves ==
    ASSUME SrpInv, srp_v_gc
    PROVE  SrpInv'
<1>1. UNCHANGED <<updates, ref, hazard, buffer, life, srp_gc_refcnt, sr, enter>>
  BY DEF srp_v_gc
<1>2. PICK u \in Scanner : u = softclock_gc
  BY DEF Scanner
<1>3. PICK c \in gc : /\ gc' = gc \ {c} /\ scan[u] = NotScanning
                      /\ scan' = [scan EXCEPT ![u] =
                            [srp |-> c[1], v |-> c[2], k |-> 1, half |-> FALSE]]
  BY <1>2 DEF srp_v_gc
<1>4. c[1] \in Srp /\ c[2] \in Val
  BY DEF SrpInv, ScanShape
<1>5. PICK n : n = [srp |-> c[1], v |-> c[2], k |-> 1, half |-> FALSE]
  OBVIOUS
<1>6. n \in Scans /\ n.srp = c[1] /\ n.v = c[2] /\ n.k = 1 /\ ~n.half
  BY <1>4, <1>5 DEF Scans
<1>7. n # NotScanning
  BY <1>6, SrpAssumption, <1>4 DEF NotScanning
<1>8. /\ scan' \in [Scanner -> Scans \cup {NotScanning}] /\ scan'[u] = n
      /\ \A w \in Scanner \ {u} : scan'[w] = scan[w]
  BY <1>3, <1>5, <1>6, ScanEffect DEF SrpInv
<1>9. ReaderShape' /\ Counted'
  BY <1>1 DEF SrpInv, ReaderShape, FreeRecord, Counted, InUseVals
<1>10. ScanShape'
  <2>1. 1 \in 1 .. Len(Records) + 1
    BY AllRecords
  <2>2. QED
    BY <1>1, <1>3, <1>6, <1>8, <2>1 DEF SrpInv, ScanShape, Scanning
<1>11. Lives'
  <2>1. /\ life[c[2]] = "retired"
        /\ \A w \in Scanner : Scanning(w) => scan[w].v # c[2]
        /\ \A ctx \in gc \ {c} : ctx[2] # c[2]
    BY DEF SrpInv, Lives
  <2>2. ~Scanning(u) /\ \A w \in Scanner \ {u} : Scanning(w)' = Scanning(w)
    BY <1>3, <1>8 DEF Scanning
  <2>3. \A w \in Scanner : Scanning(w)' =>
           /\ life'[scan'[w].v] = "retired"
           /\ \A z \in Scanner : Scanning(z)' /\ scan'[z].v = scan'[w].v => z = w
           /\ \A ctx \in gc' : ctx[2] # scan'[w].v
    <3> SUFFICES ASSUME NEW w \in Scanner, Scanning(w)'
                 PROVE  /\ life'[scan'[w].v] = "retired"
                        /\ \A z \in Scanner : Scanning(z)' /\ scan'[z].v = scan'[w].v => z = w
                        /\ \A ctx \in gc' : ctx[2] # scan'[w].v
      OBVIOUS
    <3>1. CASE w = u
      BY <3>1, <1>1, <1>3, <1>6, <1>8, <2>1, <2>2
    <3>2. CASE w # u
      <4>1. /\ life[scan[w].v] = "retired"
            /\ \A z \in Scanner : Scanning(z) /\ scan[z].v = scan[w].v => z = w
            /\ \A ctx \in gc : ctx[2] # scan[w].v
        BY <3>2, <2>2 DEF SrpInv, Lives
      <4>2. QED
        BY <3>2, <4>1, <1>1, <1>3, <1>6, <1>8, <2>2
    <3>3. QED
      BY <3>1, <3>2
  <2>4. \A ctx \in gc' : /\ life'[ctx[2]] = "retired"
                         /\ \A d \in gc' : d[2] = ctx[2] => d = ctx
    BY <1>1, <1>3 DEF SrpInv, Lives
  <2>5. \A v \in Val : life'[v] = "retired" =>
             \/ \E w \in Scanner : Scanning(w)' /\ scan'[w].v = v
             \/ \E ctx \in gc' : ctx[2] = v
    <3> SUFFICES ASSUME NEW v \in Val, life'[v] = "retired", v # c[2]
                 PROVE  \/ \E w \in Scanner : Scanning(w)' /\ scan'[w].v = v
                        \/ \E ctx \in gc' : ctx[2] = v
      BY <1>6, <1>7, <1>8 DEF Scanning
    <3>1. CASE \E w \in Scanner : Scanning(w) /\ scan[w].v = v
      BY <3>1, <1>8, <2>2
    <3>2. CASE \E ctx \in gc : ctx[2] = v
      BY <3>2, <1>3
    <3>3. QED
      BY <3>1, <3>2, <1>1 DEF SrpInv, Lives
  <2>6. QED
    BY <1>1, <2>3, <2>4, <2>5 DEF SrpInv, Lives, Scanning
<1>12. QED
  BY <1>9, <1>10, <1>11 DEF SrpInv

(* A value is destroyed.                                                   *)
LEMMA DestroyPreserves ==
    ASSUME SrpInv, NEW u \in Scanner, srp_v_dtor(u)
    PROVE  SrpInv' /\ Scanning(u) /\ scan[u].k = Len(Records) + 1
<1>1. /\ scan[u].k = Len(Records) + 1 /\ UNCHANGED <<updates, ref, hazard, buffer, sr, enter, gc>>
      /\ life' = [life EXCEPT ![scan[u].v] = "free"]
      /\ srp_gc_refcnt' = IF updates = "update" THEN srp_gc_refcnt - 1 ELSE srp_gc_refcnt
      /\ scan' = [scan EXCEPT ![u] = NotScanning]
  BY DEF srp_v_dtor
<1>2. Scanning(u)
  <2>1. scan[u].k # NotScanning.k
    BY <1>1, AllRecords DEF NotScanning
  <2>2. QED
    BY <2>1 DEF Scanning
<1>3. PICK x \in Val : x = scan[u].v
  BY <1>2, ScanRecord DEF SrpInv
<1>4. /\ life[x] = "retired" /\ \A ctx \in gc : ctx[2] # x
      /\ \A w \in Scanner : Scanning(w) /\ scan[w].v = x => w = u
  BY <1>2, <1>3 DEF SrpInv, Lives
<1>5. /\ life' \in [Val -> {"free", "live", "retired"}] /\ life'[x] = "free"
      /\ \A y \in Val \ {x} : life'[y] = life[y]
  BY <1>1, <1>3 DEF SrpInv, ScanShape
<1>6. /\ scan' \in [Scanner -> Scans \cup {NotScanning}] /\ scan'[u] = NotScanning
      /\ \A w \in Scanner \ {u} : scan'[w] = scan[w]
  BY <1>1, ScanEffect DEF SrpInv
<1>7. ReaderShape'
  BY <1>1 DEF SrpInv, ReaderShape, FreeRecord
<1>8. ScanShape'
  BY <1>1, <1>5, <1>6 DEF SrpInv, ScanShape, Scanning
<1>9. Lives'
  <2>1. ~Scanning(u)' /\ \A w \in Scanner \ {u} : Scanning(w)' = Scanning(w)
    BY <1>6 DEF Scanning
  <2>2. \A s \in Srp : ref[s] # NoVal => ref[s] \in Val \ {x} /\ life'[ref[s]] = "live"
    BY <1>4, <1>5 DEF SrpInv, Lives, ReaderShape
  <2>3. \A w \in Scanner : Scanning(w)' =>
           /\ life'[scan'[w].v] = "retired"
           /\ \A z \in Scanner : Scanning(z)' /\ scan'[z].v = scan'[w].v => z = w
           /\ \A ctx \in gc' : ctx[2] # scan'[w].v
    <3> SUFFICES ASSUME NEW w \in Scanner, Scanning(w)'
                 PROVE  /\ life'[scan'[w].v] = "retired"
                        /\ \A z \in Scanner : Scanning(z)' /\ scan'[z].v = scan'[w].v => z = w
                        /\ \A ctx \in gc' : ctx[2] # scan'[w].v
      OBVIOUS
    <3>1. w # u /\ Scanning(w) /\ scan'[w] = scan[w]
      BY <1>6, <2>1
    <3>2. /\ life[scan[w].v] = "retired"
          /\ \A z \in Scanner : Scanning(z) /\ scan[z].v = scan[w].v => z = w
          /\ \A ctx \in gc : ctx[2] # scan[w].v
      BY <3>1 DEF SrpInv, Lives
    <3>3. scan[w].v \in Val \ {x}
      BY <3>1, <1>4, ScanRecord DEF SrpInv
    <3>4. QED
      BY <1>1, <1>5, <1>6, <2>1, <3>1, <3>2, <3>3
  <2>4. \A ctx \in gc' : /\ life'[ctx[2]] = "retired"
                         /\ \A d \in gc' : d[2] = ctx[2] => d = ctx
    <3>1. \A ctx \in gc : ctx[2] \in Val \ {x}
      BY <1>4 DEF SrpInv, ScanShape
    <3>2. QED
      BY <1>1, <1>5, <3>1 DEF SrpInv, Lives
  <2>5. \A v \in Val : life'[v] = "retired" =>
             \/ \E w \in Scanner : Scanning(w)' /\ scan'[w].v = v
             \/ \E ctx \in gc' : ctx[2] = v
    <3> SUFFICES ASSUME NEW v \in Val, life'[v] = "retired"
                 PROVE  \/ \E w \in Scanner : Scanning(w)' /\ scan'[w].v = v
                        \/ \E ctx \in gc' : ctx[2] = v
      OBVIOUS
    <3>1. v # x /\ life[v] = "retired"
      BY <1>5
    <3>2. CASE \E w \in Scanner : Scanning(w) /\ scan[w].v = v
      BY <3>1, <3>2, <1>3, <1>6, <2>1
    <3>3. CASE \E ctx \in gc : ctx[2] = v
      BY <3>3, <1>1
    <3>4. QED
      BY <3>1, <3>2, <3>3 DEF SrpInv, Lives
  <2>6. QED
    BY <1>1, <2>2, <2>3, <2>4, <2>5 DEF SrpInv, Lives, Scanning
<1>10. Counted'
  <2>1. InUseVals' = InUseVals \ {x} /\ x \in InUseVals
    BY <1>4, <1>5 DEF InUseVals
  <2>2. IsFiniteSet(InUseVals)
    BY SrpAssumption, FS_Subset DEF InUseVals
  <2>3. Cardinality(InUseVals') = Cardinality(InUseVals) - 1 /\ Cardinality(InUseVals) \in Nat
    BY <2>1, <2>2, FS_RemoveElement, FS_CardinalityType
  <2>4. QED
    BY <1>1, <2>3 DEF SrpInv, Counted
<1>11. QED
  BY <1>1, <1>2, <1>7, <1>8, <1>9, <1>10 DEF SrpInv

(* A value takes the place of another.                                     *)
LEMMA UpdateEffect ==
    ASSUME SrpInv, NEW u \in Updater, NEW s \in Srp, NEW v \in Val \cup {NoVal},
           NEW old, old = ref[s], srp_update(u, s, v)
    PROVE  /\ u \in Scanner /\ ~Scanning(u) /\ old \in Val \cup {NoVal} /\ v # old
           /\ old # NoVal => life[old] = "live"
           /\ v # NoVal => life[v] = "free"
           /\ ref' \in [Srp -> Val \cup {NoVal}] /\ ref'[s] = v
           /\ \A t \in Srp \ {s} : ref'[t] = ref[t]
           /\ life' \in [Val -> {"free", "live", "retired"}]
           /\ old # NoVal => life'[old] = "retired"
           /\ v # NoVal => life'[v] = "live"
           /\ \A x \in Val \ {old, v} : life'[x] = life[x]
           /\ scan' \in [Scanner -> Scans \cup {NotScanning}]
           /\ \A w \in Scanner \ {u} : scan'[w] = scan[w]
           /\ old = NoVal => scan' = scan
           /\ old # NoVal => /\ Scanning(u)' /\ scan'[u].v = old /\ scan'[u].srp = s
                             /\ scan'[u].k = 1 /\ ~scan'[u].half
           /\ UNCHANGED <<updates, hazard, buffer, sr, enter, gc>>
           /\ srp_gc_refcnt' = IF updates = "update" /\ v # NoVal THEN srp_gc_refcnt + 1
                               ELSE srp_gc_refcnt
<1>1. u \in Scanner /\ ~Scanning(u) /\ old \in Val \cup {NoVal} /\ v # old
  BY DEF srp_update, Scanner, Scanning, SrpInv, ReaderShape
<1>2. old # NoVal => life[old] = "live"
  BY DEF SrpInv, Lives
<1>3. v # NoVal => life[v] = "free"
  BY DEF srp_update
<1>4. /\ ref' \in [Srp -> Val \cup {NoVal}] /\ ref'[s] = v
      /\ \A t \in Srp \ {s} : ref'[t] = ref[t]
  BY DEF srp_update, SrpInv, ReaderShape
<1>5. /\ NowLive(v) \in [Val -> {"free", "live", "retired"}]
      /\ v # NoVal => NowLive(v)[v] = "live"
      /\ \A x \in Val \ {v} : NowLive(v)[x] = life[x]
  BY DEF NowLive, SrpInv, ScanShape
<1>6. life' = IF old = NoVal THEN NowLive(v) ELSE [NowLive(v) EXCEPT ![old] = "retired"]
  BY DEF srp_update
<1>7. /\ life' \in [Val -> {"free", "live", "retired"}]
      /\ old # NoVal => life'[old] = "retired"
      /\ v # NoVal => life'[v] = "live"
      /\ \A x \in Val \ {old, v} : life'[x] = life[x]
  BY <1>1, <1>5, <1>6
<1>8. CASE old = NoVal
  <2>1. scan' = scan
    BY <1>8 DEF srp_update
  <2>2. QED
    BY <1>1, <1>2, <1>3, <1>4, <1>7, <1>8, <2>1 DEF srp_update, SrpInv, ScanShape
<1>9. CASE old # NoVal
  <2>1. PICK n : n = [srp |-> s, v |-> old, k |-> 1, half |-> FALSE]
    OBVIOUS
  <2>2. n \in Scans /\ n.srp = s /\ n.v = old /\ n.k = 1 /\ ~n.half
    BY <1>1, <1>9, <2>1 DEF Scans
  <2>3. n # NotScanning
    BY <2>2, SrpAssumption DEF NotScanning
  <2>4. scan' = [scan EXCEPT ![u] = n]
    BY <1>9, <2>1 DEF srp_update
  <2>5. /\ scan' \in [Scanner -> Scans \cup {NotScanning}] /\ scan'[u] = n
        /\ \A w \in Scanner \ {u} : scan'[w] = scan[w]
    BY <1>1, <2>2, <2>4, ScanEffect DEF SrpInv
  <2>6. Scanning(u)'
    BY <2>3, <2>5 DEF Scanning
  <2>7. UNCHANGED <<updates, hazard, buffer, sr, enter, gc>>
    BY DEF srp_update
  <2>8. srp_gc_refcnt' = IF updates = "update" /\ v # NoVal THEN srp_gc_refcnt + 1
                         ELSE srp_gc_refcnt
    BY DEF srp_update
  <2>9. QED
    BY <1>1, <1>2, <1>3, <1>4, <1>7, <1>9, <2>2, <2>5, <2>6, <2>7, <2>8
<1>10. QED
  BY <1>8, <1>9

(* The replacement of a value keeps the invariant.                         *)
LEMMA UpdatePreserves ==
    ASSUME SrpInv, NEW u \in Updater, NEW s \in Srp, NEW v \in Val \cup {NoVal},
           srp_update(u, s, v)
    PROVE  SrpInv'
<1>1. PICK old : old = ref[s]
  OBVIOUS
<1>2. /\ u \in Scanner /\ ~Scanning(u) /\ old \in Val \cup {NoVal} /\ v # old
      /\ old # NoVal => life[old] = "live"
      /\ v # NoVal => life[v] = "free"
  BY <1>1, UpdateEffect
<1>3. /\ ref' \in [Srp -> Val \cup {NoVal}] /\ ref'[s] = v
      /\ \A t \in Srp \ {s} : ref'[t] = ref[t]
  BY <1>1, UpdateEffect
<1>4. /\ life' \in [Val -> {"free", "live", "retired"}]
      /\ old # NoVal => life'[old] = "retired"
      /\ v # NoVal => life'[v] = "live"
      /\ \A x \in Val \ {old, v} : life'[x] = life[x]
  BY <1>1, UpdateEffect
<1>5. /\ scan' \in [Scanner -> Scans \cup {NotScanning}]
      /\ \A w \in Scanner \ {u} : scan'[w] = scan[w]
      /\ old = NoVal => scan' = scan
      /\ old # NoVal => /\ Scanning(u)' /\ scan'[u].v = old
                        /\ scan'[u].k = 1 /\ ~scan'[u].half
  BY <1>1, UpdateEffect
<1>6. /\ UNCHANGED <<updates, hazard, buffer, sr, enter, gc>>
      /\ srp_gc_refcnt' = IF updates = "update" /\ v # NoVal THEN srp_gc_refcnt + 1
                          ELSE srp_gc_refcnt
  BY <1>1, UpdateEffect
<1>7. ReaderShape'
  BY <1>3, <1>6 DEF SrpInv, ReaderShape, FreeRecord
<1>8. ScanShape'
  <2>1. 1 \in 1 .. Len(Records) + 1
    BY AllRecords
  <2>2. \A w \in Scanner : Scanning(w)' =>
           /\ scan'[w].k \in 1 .. Len(Records) + 1
           /\ scan'[w].half => scan'[w].k \in 1 .. Len(Records)
    BY <1>2, <1>5, <2>1 DEF SrpInv, ScanShape, Scanning
  <2>3. QED
    BY <1>4, <1>5, <1>6, <2>2 DEF SrpInv, ScanShape
<1>9. Lives'
  <2>1. /\ \A w \in Scanner \ {u} : Scanning(w)' = Scanning(w)
        /\ Scanning(u)' => old # NoVal
    BY <1>2, <1>5 DEF Scanning
  <2>2. \A w \in Scanner : Scanning(w) =>
           scan[w].v \in Val \ {old, v} /\ life'[scan[w].v] = "retired"
    <3> SUFFICES ASSUME NEW w \in Scanner, Scanning(w)
                 PROVE  scan[w].v \in Val \ {old, v} /\ life'[scan[w].v] = "retired"
      OBVIOUS
    <3>1. scan[w].v \in Val /\ life[scan[w].v] = "retired"
      BY ScanRecord DEF SrpInv, Lives
    <3>2. QED
      BY <3>1, <1>2, <1>4, SrpAssumption
  <2>3. \A ctx \in gc : ctx[2] \in Val \ {old, v} /\ life'[ctx[2]] = "retired"
    <3> SUFFICES ASSUME NEW ctx \in gc
                 PROVE  ctx[2] \in Val \ {old, v} /\ life'[ctx[2]] = "retired"
      OBVIOUS
    <3>1. ctx[2] \in Val /\ life[ctx[2]] = "retired"
      BY DEF SrpInv, ScanShape, Lives
    <3>2. QED
      BY <3>1, <1>2, <1>4, SrpAssumption
  <2>4. \A t \in Srp : ref'[t] # NoVal => life'[ref'[t]] = "live"
    <3> SUFFICES ASSUME NEW t \in Srp, ref'[t] # NoVal PROVE life'[ref'[t]] = "live"
      OBVIOUS
    <3>1. CASE t = s
      BY <3>1, <1>3, <1>4
    <3>2. CASE t # s
      <4>1. ref'[t] = ref[t] /\ ref[t] \in Val /\ life[ref[t]] = "live"
        BY <3>2, <1>3 DEF SrpInv, Lives, ReaderShape
      <4>2. ref[t] # old
        BY <3>2, <4>1, <1>1, <1>3 DEF SrpInv, Lives
      <4>3. ref[t] # v
        BY <4>1, <1>2
      <4>4. QED
        BY <4>1, <4>2, <4>3, <1>4
    <3>3. QED
      BY <3>1, <3>2
  <2>5. \A a, b \in Srp : ref'[a] = ref'[b] /\ ref'[a] # NoVal => a = b
    <3>1. \A t \in Srp : t # s /\ v # NoVal => ref[t] # v
      BY <1>2 DEF SrpInv, Lives
    <3>2. QED
      BY <3>1, <1>3 DEF SrpInv, Lives
  <2>6. \A w \in Scanner : Scanning(w)' =>
           /\ life'[scan'[w].v] = "retired"
           /\ \A z \in Scanner : Scanning(z)' /\ scan'[z].v = scan'[w].v => z = w
           /\ \A ctx \in gc' : ctx[2] # scan'[w].v
    <3> SUFFICES ASSUME NEW w \in Scanner, Scanning(w)'
                 PROVE  /\ life'[scan'[w].v] = "retired"
                        /\ \A z \in Scanner : Scanning(z)' /\ scan'[z].v = scan'[w].v => z = w
                        /\ \A ctx \in gc' : ctx[2] # scan'[w].v
      OBVIOUS
    <3>1. CASE w = u
      <4>1. scan'[w].v = old /\ old # NoVal
        BY <3>1, <1>5, <2>1
      <4>2. \A z \in Scanner : Scanning(z)' /\ z # w => scan'[z].v # old
        BY <3>1, <1>5, <2>1, <2>2
      <4>3. QED
        BY <4>1, <4>2, <1>4, <1>6, <2>3
    <3>2. CASE w # u
      <4>1. Scanning(w) /\ scan'[w] = scan[w]
        BY <3>2, <1>5, <2>1
      <4>2. /\ \A z \in Scanner : Scanning(z) /\ scan[z].v = scan[w].v => z = w
            /\ \A ctx \in gc : ctx[2] # scan[w].v
        BY <4>1 DEF SrpInv, Lives
      <4>3. \A z \in Scanner : Scanning(z)' /\ scan'[z].v = scan'[w].v => z = w
        <5> SUFFICES ASSUME NEW z \in Scanner, Scanning(z)', scan'[z].v = scan'[w].v
                     PROVE  z = w
          OBVIOUS
        <5>1. CASE z = u
          BY <5>1, <1>5, <2>1, <2>2, <4>1
        <5>2. CASE z # u
          BY <5>2, <1>5, <2>1, <4>1, <4>2
        <5>3. QED
          BY <5>1, <5>2
      <4>4. QED
        BY <4>1, <4>2, <4>3, <2>2, <1>6
    <3>3. QED
      BY <3>1, <3>2
  <2>7. \A ctx \in gc' : /\ life'[ctx[2]] = "retired"
                         /\ \A d \in gc' : d[2] = ctx[2] => d = ctx
    BY <1>6, <2>3 DEF SrpInv, Lives
  <2>8. \A x \in Val : life'[x] = "retired" =>
             \/ \E w \in Scanner : Scanning(w)' /\ scan'[w].v = x
             \/ \E ctx \in gc' : ctx[2] = x
    <3> SUFFICES ASSUME NEW x \in Val, life'[x] = "retired"
                 PROVE  \/ \E w \in Scanner : Scanning(w)' /\ scan'[w].v = x
                        \/ \E ctx \in gc' : ctx[2] = x
      OBVIOUS
    <3>1. CASE x = old
      BY <3>1, <1>2, <1>5, SrpAssumption
    <3>2. CASE x # old
      <4>1. life[x] = "retired"
        BY <3>2, <1>2, <1>4, SrpAssumption
      <4>2. CASE \E w \in Scanner : Scanning(w) /\ scan[w].v = x
        BY <4>2, <1>2, <1>5, <2>1
      <4>3. CASE \E ctx \in gc : ctx[2] = x
        BY <4>3, <1>6
      <4>4. QED
        BY <4>1, <4>2, <4>3 DEF SrpInv, Lives
    <3>3. QED
      BY <3>1, <3>2
  <2>9. QED
    BY <2>4, <2>5, <2>6, <2>7, <2>8 DEF Lives, Scanning
<1>10. Counted'
  <2>1. IsFiniteSet(InUseVals) /\ Cardinality(InUseVals) \in Nat
    BY SrpAssumption, FS_Subset, FS_CardinalityType DEF InUseVals
  <2>a. \A x \in Val : (life'[x] # "free") <=> (life[x] # "free" \/ x = v)
    <3> SUFFICES ASSUME NEW x \in Val
                 PROVE  (life'[x] # "free") <=> (life[x] # "free" \/ x = v)
      OBVIOUS
    <3>1. CASE x \in {old, v}
      BY <3>1, <1>2, <1>4, SrpAssumption
    <3>2. CASE x \notin {old, v}
      BY <3>2, <1>4
    <3>3. QED
      BY <3>1, <3>2
  <2>2. CASE v = NoVal
    <3>1. InUseVals' = InUseVals
      BY <2>2, <2>a, SrpAssumption DEF InUseVals
    <3>2. QED
      BY <2>2, <3>1, <1>6 DEF SrpInv, Counted
  <2>3. CASE v # NoVal
    <3>1. InUseVals' = InUseVals \cup {v} /\ v \notin InUseVals
      BY <2>3, <2>a, <1>2 DEF InUseVals
    <3>2. Cardinality(InUseVals') = Cardinality(InUseVals) + 1
      BY <2>1, <3>1, FS_AddElement
    <3>3. QED
      BY <2>1, <2>3, <3>2, <1>6 DEF SrpInv, Counted
  <2>4. QED
    BY <2>2, <2>3
<1>11. QED
  BY <1>7, <1>8, <1>9, <1>10 DEF SrpInv

(* The invariant holds at first and in every step.                         *)
LEMMA SrpInitial ==
    ASSUME SrpInit
    PROVE  SrpInv
<1>1. <<>> \in Seq(Stores)
  BY EmptySeq
<1>2. [p |-> NoVal, v |-> NoVal] \in Hazards
  BY DEF Hazards
<1>3. NotEntering \in Enters /\ NotEntering.pc = "out"
  BY SrpAssumption DEF NotEntering, Enters, EnterPcs
<1>4. ReaderShape
  BY <1>1, <1>2, <1>3 DEF SrpInit, ReaderShape
<1>5. ScanShape
  BY DEF SrpInit, ScanShape, Scanning
<1>6. Lives
  BY DEF SrpInit, Lives, Scanning
<1>7. Counted
  <2>1. InUseVals = {}
    BY DEF SrpInit, InUseVals
  <2>2. QED
    BY <2>1, FS_EmptySet DEF SrpInit, Counted
<1>8. QED
  BY <1>4, <1>5, <1>6, <1>7 DEF SrpInv

(* A step of a reader leaves the values alone.                             *)
LEMMA SrpReaderPreserves ==
    ASSUME SrpInv, NEW r \in Reader, ReaderStep(r)
    PROVE  SrpInv'
<1>1. ReaderShape' /\ ref' = ref /\ UNCHANGED updaterVars
  BY ReaderShapes DEF SrpInv
<1>2. ScanShape'
  BY <1>1 DEF SrpInv, ScanShape, Scanning, updaterVars
<1>3. Lives'
  BY <1>1 DEF SrpInv, Lives, Scanning, updaterVars
<1>4. Counted'
  BY <1>1 DEF SrpInv, Counted, InUseVals, updaterVars
<1>5. QED
  BY <1>1, <1>2, <1>3, <1>4 DEF SrpInv

(* Every step keeps the invariant.                                         *)
LEMMA SrpPreserved ==
    ASSUME SrpInv, [SrpNext]_srpVars
    PROVE  SrpInv'
<1>1. CASE UNCHANGED srpVars
  BY <1>1 DEF srpVars, SrpInv, ReaderShape, FreeRecord, ScanShape, Scanning, Lives, Counted,
              InUseVals
<1>2. ASSUME NEW r \in Reader, ReaderStep(r) PROVE SrpInv'
  BY <1>2, SrpReaderPreserves
<1>3. ASSUME NEW u \in Updater, NEW s \in Srp, NEW v \in Val \cup {NoVal},
             srp_update(u, s, v)
      PROVE  SrpInv'
  BY <1>3, UpdatePreserves
<1>4. ASSUME NEW u \in Scanner, ScanPointer(u) \/ ScanValue(u) \/ srp_v_dtor(u)
      PROVE  SrpInv'
  BY <1>4, ScanPointerPreserves, ScanValuePreserves, DestroyPreserves
<1>5. CASE srp_v_gc
  BY <1>5, CollectPreserves
<1>6. QED
  BY <1>1, <1>2, <1>3, <1>4, <1>5 DEF SrpNext, ReaderStep

(* The invariant has the types; srp_gc_refcnt is bounded by the values     *)
(* there are.                                                              *)
LEMMA SrpTypes ==
    ASSUME SrpInv
    PROVE  SrpTypeOK
<1>1. IsFiniteSet(Val) /\ Cardinality(Val) \in Nat
  BY SrpAssumption, FS_CardinalityType
<1>2. Cardinality(InUseVals) \in Nat /\ Cardinality(InUseVals) <= Cardinality(Val)
  <2>1. InUseVals \subseteq Val
    BY DEF InUseVals
  <2>2. QED
    BY <1>1, <2>1, FS_Subset, FS_CardinalityType
<1>3. srp_gc_refcnt \in 1 .. Cardinality(Val) + 1
  BY <1>1, <1>2 DEF SrpInv, Counted
<1>4. sr \in [Reader -> 0 .. HAZARD_NUM]
  BY SrpAssumption DEF SrpInv, ReaderShape
<1>5. QED
  BY <1>3, <1>4 DEF SrpInv, ReaderShape, ScanShape, SrpTypeOK, Hazards, Enters, EnterPcs

(* A retired value is in one place.                                        *)
LEMMA InOnePlace ==
    ASSUME SrpInv, NEW v \in Val
    PROVE  Cardinality({u \in Scanner : scan[u] # NotScanning /\ scan[u].v = v})
           + Cardinality({ctx \in gc : ctx[2] = v})
           = IF life[v] = "retired" THEN 1 ELSE 0
<1>1. PICK A : A = {u \in Scanner : scan[u] # NotScanning /\ scan[u].v = v}
  OBVIOUS
<1>2. PICK B : B = {ctx \in gc : ctx[2] = v}
  OBVIOUS
<1>3. /\ \A u \in A : u \in Scanner /\ Scanning(u) /\ scan[u].v = v
      /\ \A u \in Scanner : Scanning(u) /\ scan[u].v = v => u \in A
  BY <1>1 DEF Scanning
<1> SUFFICES Cardinality(A) + Cardinality(B) = IF life[v] = "retired" THEN 1 ELSE 0
  BY <1>1, <1>2
<1>a. /\ A # {} => life[v] = "retired"
      /\ B # {} => life[v] = "retired"
      /\ \A u, w \in A : u = w
      /\ \A c, d \in B : c = d
      /\ A = {} \/ B = {}
      /\ life[v] = "retired" => A # {} \/ B # {}
  <2>1. \A u \in A : life[v] = "retired" /\ (\A w \in A : w = u) /\ B = {}
    BY <1>2, <1>3 DEF SrpInv, Lives
  <2>2. \A c \in B : c \in gc /\ c[2] = v
    BY <1>2
  <2>3. \A c \in B : life[v] = "retired" /\ \A d \in B : d = c
    BY <2>2 DEF SrpInv, Lives
  <2>4. life[v] = "retired" => A # {} \/ B # {}
    BY <1>2, <1>3 DEF SrpInv, Lives
  <2>5. QED
    BY <2>1, <2>3, <2>4
<1>4. CASE life[v] # "retired"
  <2>1. A = {} /\ B = {}
    BY <1>4, <1>a
  <2>2. QED
    BY <1>4, <2>1, FS_EmptySet
<1>5. CASE A # {}
  <2>1. PICK u : A = {u}
    BY <1>5, <1>a
  <2>2. life[v] = "retired" /\ B = {}
    BY <1>5, <1>a
  <2>3. Cardinality(A) = 1 /\ Cardinality(B) = 0
    BY <2>1, <2>2, FS_EmptySet, FS_Singleton
  <2>4. QED
    BY <2>2, <2>3
<1>6. CASE B # {}
  <2>1. PICK c : B = {c}
    BY <1>6, <1>a
  <2>2. life[v] = "retired" /\ A = {}
    BY <1>6, <1>a
  <2>3. Cardinality(B) = 1 /\ Cardinality(A) = 0
    BY <2>1, <2>2, FS_EmptySet, FS_Singleton
  <2>4. QED
    BY <2>2, <2>3
<1>7. QED
  BY <1>4, <1>5, <1>6, <1>a

(* Every value that srp_update() or srp_swap() replaces is destroyed once, *)
(* by one scan or one timeout at a time, and srp_gc_refcnt counts it until *)
(* then: for any number of readers, updaters, pointers, values and hazard  *)
(* records, and with or without a membar_consumer() that waits for stores. *)
THEOREM ValuesRetiredOnce == SrpSpec => []RetiredOnce
<1>1. SrpInit => SrpInv
  BY SrpInitial
<1>2. SrpInv /\ [SrpNext]_srpVars => SrpInv'
  BY SrpPreserved
<1>3. ASSUME SrpInv PROVE RetiredOnce
  <2>1. SrpTypeOK
    BY <1>3, SrpTypes
  <2>2. \A v \in Val :
          Cardinality({u \in Scanner : scan[u] # NotScanning /\ scan[u].v = v})
          + Cardinality({ctx \in gc : ctx[2] = v})
          = IF life[v] = "retired" THEN 1 ELSE 0
    BY <1>3, InOnePlace
  <2>3. updates = "update" => srp_gc_refcnt = 1 + Cardinality({v \in Val : life[v] # "free"})
    BY <1>3 DEF SrpInv, Counted, InUseVals
  <2>4. QED
    BY <2>1, <2>2, <2>3 DEF RetiredOnce
<1>4. QED
  BY <1>1, <1>2, <1>3, PTL DEF SrpSpec

(***************************************************************************)
(* What the records show of the readers, when membar_consumer() waits for  *)
(* the stores of its CPU                                                   *)
(***************************************************************************)

(* A store to field f of record i.                                         *)
StoreTo(st, i, f) == st[1] = i /\ st[2] = f
Field(h, f) == IF f = "p" THEN h.p ELSE h.v

(* Once the stores b of a CPU are seen, field f of its record i is x, if   *)
(* the others see the record as h now.                                     *)
Shows(b, h, i, f, x) ==
    \/ Field(h, f) = x /\ \A m \in 1 .. Len(b) : ~StoreTo(b[m], i, f)
    \/ \E k \in 1 .. Len(b) :
          /\ StoreTo(b[k], i, f) /\ b[k][3] = x
          /\ \A m \in 1 .. Len(b) : m > k => ~StoreTo(b[m], i, f)

(* A CPU without stores on their way shows what the others see.            *)
LEMMA ShowsNow ==
    ASSUME NEW h, NEW i, NEW f, NEW x, Shows(<<>>, h, i, f, x)
    PROVE  Field(h, f) = x
  BY DEF Shows

(* A store will be shown.                                                  *)
LEMMA ShowsStored ==
    ASSUME NEW b \in Seq(Stores), NEW h, NEW i, NEW f, NEW x, <<i, f, x>> \in Stores
    PROVE  Shows(Append(b, <<i, f, x>>), h, i, f, x)
<1>1. PICK n \in Nat : n = Len(b)
  BY LenProperties
<1>2. PICK c : c = Append(b, <<i, f, x>>)
  OBVIOUS
<1>3. Len(c) = n + 1 /\ c[n + 1] = <<i, f, x>>
  BY <1>1, <1>2, AppendProperties
<1>4. PICK k \in 1 .. Len(c) : k = n + 1
  BY <1>1, <1>3
<1>5. /\ StoreTo(c[k], i, f) /\ c[k][3] = x
      /\ \A m \in 1 .. Len(c) : m > k => ~StoreTo(c[m], i, f)
  BY <1>1, <1>3, <1>4 DEF StoreTo
<1>6. QED
  BY <1>2, <1>4, <1>5 DEF Shows

(* A store to another field, or another record, changes nothing.           *)
LEMMA ShowsStill ==
    ASSUME NEW b \in Seq(Stores), NEW h, NEW i, NEW f, NEW x, Shows(b, h, i, f, x),
           NEW st \in Stores, ~StoreTo(st, i, f)
    PROVE  Shows(Append(b, st), h, i, f, x)
<1>1. PICK n \in Nat : n = Len(b)
  BY LenProperties
<1>2. PICK c : c = Append(b, st)
  OBVIOUS
<1>3. Len(c) = n + 1 /\ c[n + 1] = st /\ \A m \in 1 .. n : c[m] = b[m]
  BY <1>1, <1>2, AppendProperties
<1>4. \A m \in 1 .. n + 1 : m \in 1 .. n \/ m = n + 1
  BY <1>1
<1>5. CASE Field(h, f) = x /\ \A m \in 1 .. Len(b) : ~StoreTo(b[m], i, f)
  <2>1. \A m \in 1 .. Len(c) : ~StoreTo(c[m], i, f)
    BY <1>1, <1>3, <1>4, <1>5
  <2>2. QED
    BY <1>2, <1>5, <2>1 DEF Shows
<1>6. CASE \E k \in 1 .. Len(b) :
              /\ StoreTo(b[k], i, f) /\ b[k][3] = x
              /\ \A m \in 1 .. Len(b) : m > k => ~StoreTo(b[m], i, f)
  <2>1. PICK k \in 1 .. n :
              /\ StoreTo(b[k], i, f) /\ b[k][3] = x
              /\ \A m \in 1 .. n : m > k => ~StoreTo(b[m], i, f)
    BY <1>1, <1>6
  <2>2. k \in 1 .. Len(c) /\ c[k] = b[k]
    BY <1>1, <1>3
  <2>3. \A m \in 1 .. Len(c) : m > k => ~StoreTo(c[m], i, f)
    BY <1>1, <1>3, <1>4, <2>1
  <2>4. QED
    BY <1>2, <2>1, <2>2, <2>3 DEF Shows
<1>7. QED
  BY <1>5, <1>6 DEF Shows

(* Nor does it matter that the oldest store becomes visible.               *)
LEMMA ShowsDrained ==
    ASSUME NEW b \in Seq(Stores), b # <<>>, NEW h, NEW g, NEW i, NEW f, NEW x,
           Shows(b, h, i, f, x),
           Field(g, f) = IF StoreTo(Head(b), i, f) THEN Head(b)[3] ELSE Field(h, f)
    PROVE  Shows(Tail(b), g, i, f, x)
<1>1. PICK n \in Nat : n = Len(b) /\ n # 0
  BY LenProperties, EmptySeq
<1>2. PICK c : c = Tail(b)
  OBVIOUS
<1>3. Len(c) = n - 1 /\ Head(b) = b[1] /\ \A m \in 1 .. n - 1 : c[m] = b[m + 1]
  BY <1>1, <1>2, HeadTailProperties
<1>4. CASE \A m \in 1 .. n : ~StoreTo(b[m], i, f)
  <2>1. Field(h, f) = x
    BY <1>1, <1>4 DEF Shows
  <2>2. ~StoreTo(Head(b), i, f)
    BY <1>1, <1>3, <1>4
  <2>3. \A m \in 1 .. Len(c) : ~StoreTo(c[m], i, f)
    BY <1>1, <1>3, <1>4
  <2>4. QED
    BY <1>2, <2>1, <2>2, <2>3 DEF Shows
<1>5. CASE \E k \in 1 .. n :
              /\ StoreTo(b[k], i, f) /\ b[k][3] = x
              /\ \A m \in 1 .. n : m > k => ~StoreTo(b[m], i, f)
  <2>1. PICK k \in 1 .. n :
              /\ StoreTo(b[k], i, f) /\ b[k][3] = x
              /\ \A m \in 1 .. n : m > k => ~StoreTo(b[m], i, f)
    BY <1>5
  <2>2. CASE k = 1
    <3>1. Field(g, f) = x
      BY <1>3, <2>1, <2>2
    <3>2. \A m \in 1 .. Len(c) : ~StoreTo(c[m], i, f)
      BY <1>1, <1>3, <2>1, <2>2
    <3>3. QED
      BY <1>2, <3>1, <3>2 DEF Shows
  <2>3. CASE k # 1
    <3>1. PICK j \in 1 .. Len(c) : j = k - 1
      BY <1>1, <1>3, <2>3
    <3>2. StoreTo(c[j], i, f) /\ c[j][3] = x
      BY <1>1, <1>3, <2>1, <3>1
    <3>3. \A m \in 1 .. Len(c) : m > j => ~StoreTo(c[m], i, f)
      BY <1>1, <1>3, <2>1, <3>1
    <3>4. QED
      BY <1>2, <3>2, <3>3 DEF Shows
  <2>4. QED
    BY <2>2, <2>3
<1>6. QED
  BY <1>1, <1>4, <1>5 DEF Shows

(* A reader's record announces its value, at the latest when it has a      *)
(* reference.                                                              *)
Announced(r) ==
    /\ enter[r].pc \in {"load", "store", "check"} =>
          Shows(buffer[r], hazard[<<r, enter[r].i>>], enter[r].i, "p", enter[r].srp)
    /\ enter[r].pc = "check" =>
          Shows(buffer[r], hazard[<<r, enter[r].i>>], enter[r].i, "v", enter[r].v)
    /\ Using(r) # NoVal =>
          /\ hazard[<<r, enter[r].i>>].p = enter[r].srp
          /\ hazard[<<r, enter[r].i>>].v = enter[r].v
          /\ \A m \in 1 .. Len(buffer[r]) : buffer[r][m][1] # enter[r].i
    /\ enter[r].pc = "entered" => buffer[r] = <<>>

(* The value of a reader is not destroyed: if it was replaced, whoever     *)
(* looks for it looks at its pointer and has yet to see the record.        *)
Uses(r) ==
    Using(r) # NoVal =>
       /\ life[Using(r)] # "free"
       /\ life[Using(r)] = "live" => ref[enter[r].srp] = Using(r)
       /\ \A u \in Scanner : Scanning(u) /\ scan[u].v = Using(r) =>
             /\ scan[u].srp = enter[r].srp
             /\ \A j \in 1 .. Len(Records) : j < scan[u].k => Records[j] # <<r, enter[r].i>>
       /\ \A ctx \in gc : ctx[2] = Using(r) => ctx[1] = enter[r].srp

UseInv == SrpInv /\ \A r \in Reader : Announced(r) /\ Uses(r)

(* A reader that has a reference, or is about to.                          *)
HasRecord(r) == enter[r].pc # "out" \/ sr[r] # 0

(* The record of a reader is one of its CPU's.                             *)
LEMMA OwnRecord ==
    ASSUME ReaderShape, NEW r \in Reader
    PROVE  /\ HasRecord(r) => /\ enter[r].i \in 1 .. HAZARD_NUM /\ <<r, enter[r].i>> \in Record
                              /\ enter[r].srp \in Srp
           /\ Using(r) # NoVal => /\ HasRecord(r) /\ Using(r) = enter[r].v /\ Using(r) \in Val
                                  /\ enter[r].pc \in {"entered", "out"}
<1>1. ASSUME HasRecord(r)
      PROVE  enter[r].i \in 1 .. HAZARD_NUM /\ <<r, enter[r].i>> \in Record /\ enter[r].srp \in Srp
  <2>1. CASE enter[r].pc # "out"
    <3>1. enter[r].i = FreeRecord(r) /\ enter[r].srp \in Srp
      BY <2>1 DEF ReaderShape
    <3>2. QED
      BY <3>1, SrpAssumption DEF FreeRecord, Record
  <2>2. CASE enter[r].pc = "out" /\ sr[r] # 0
    <3>1. enter[r].i = sr[r] /\ enter[r].srp \in Srp /\ sr[r] \in {1, 2}
      BY <2>2 DEF ReaderShape
    <3>2. QED
      BY <3>1, SrpAssumption DEF Record
  <2>3. QED
    BY <1>1, <2>1, <2>2 DEF HasRecord
<1>2. enter[r].v \in Val \cup {NoVal}
  BY DEF ReaderShape, Enters
<1>3. Using(r) # NoVal => HasRecord(r) /\ Using(r) = enter[r].v /\ enter[r].pc \in {"entered", "out"}
  BY DEF Using, HasRecord
<1>4. QED
  BY <1>1, <1>2, <1>3

(* A step of a reader leaves the others and their records alone.           *)
LEMMA OtherReaders ==
    ASSUME ReaderShape, NEW r \in Reader, ReaderStep(r), NEW q \in Reader, q # r
    PROVE  /\ enter'[q] = enter[q] /\ sr'[q] = sr[q] /\ buffer'[q] = buffer[q]
           /\ \A i \in 1 .. HAZARD_NUM : hazard'[<<q, i>>] = hazard[<<q, i>>]
<1>1. CASE \E s \in Srp : srp_enter(r, s)
  BY <1>1, srp_enterEffect
<1>2. CASE LoadRef(r)
  BY <1>2, LoadEffect
<1>3. CASE StoreHazard(r)
  BY <1>3, StoreHazardEffect
<1>4. CASE CheckRef(r)
  BY <1>4, CheckEffect
<1>5. CASE Entered(r)
  BY <1>5, EnteredEffect
<1>6. CASE srp_leave(r)
  BY <1>6, LeaveEffect
<1>7. CASE Drain(r)
  <2>1. PICK key \in Record : /\ key[1] = r /\ buffer'[q] = buffer[q]
                              /\ \A g \in Record \ {key} : hazard'[g] = hazard[g]
    <3>1. PICK st : st = Head(buffer[r])
      OBVIOUS
    <3>2. PICK key : key = <<r, st[1]>>
      OBVIOUS
    <3>3. key \in Record /\ key[1] = r
      BY <1>7, <3>1, <3>2, DrainEffect
    <3>4. buffer'[q] = buffer[q] /\ \A g \in Record \ {key} : hazard'[g] = hazard[g]
      BY <1>7, <3>1, <3>2, DrainEffect
    <3>5. QED
      BY <3>3, <3>4
  <2>2. \A i \in 1 .. HAZARD_NUM : <<q, i>> \in Record \ {key}
    BY <2>1 DEF Record
  <2>3. enter'[q] = enter[q] /\ sr'[q] = sr[q]
    BY <1>7 DEF Drain
  <2>4. QED
    BY <2>1, <2>2, <2>3
<1>8. QED
  BY <1>1, <1>2, <1>3, <1>4, <1>5, <1>6, <1>7 DEF ReaderStep

(* What concerns a reader is kept while its CPU does nothing.              *)
LEMMA AnnouncedKept ==
    ASSUME ReaderShape, NEW q \in Reader, Announced(q),
           enter'[q] = enter[q], sr'[q] = sr[q], buffer'[q] = buffer[q],
           \A i \in 1 .. HAZARD_NUM : hazard'[<<q, i>>] = hazard[<<q, i>>]
    PROVE  Announced(q)' /\ Using(q)' = Using(q)
<1>1. Using(q)' = Using(q)
  BY DEF Using
<1>2. CASE HasRecord(q)
  <2>1. hazard'[<<q, enter[q].i>>] = hazard[<<q, enter[q].i>>]
    BY <1>2, OwnRecord
  <2>2. QED
    BY <1>1, <2>1 DEF Announced
<1>3. CASE ~HasRecord(q)
  <2>1. enter[q].pc = "out" /\ Using(q) = NoVal
    BY <1>3, OwnRecord DEF HasRecord
  <2>2. QED
    BY <1>1, <2>1 DEF Announced
<1>4. QED
  BY <1>2, <1>3

(* What is known of the value of a reader is kept while the values are.    *)
LEMMA UsesKept ==
    ASSUME NEW q \in Reader, Uses(q), Using(q)' = Using(q),
           enter'[q].srp = enter[q].srp, enter'[q].i = enter[q].i,
           UNCHANGED updaterVars, ref' = ref
    PROVE  Uses(q)'
<1>1. life' = life /\ scan' = scan /\ gc' = gc
  BY DEF updaterVars
<1>2. QED
  BY <1>1 DEF Uses, Scanning

(* The oldest store becomes visible: what will be shown does not change.   *)
LEMMA DrainAnnounces ==
    ASSUME ReaderShape, NEW r \in Reader, Announced(r), Drain(r)
    PROVE  Announced(r)' /\ Using(r)' = Using(r)
<1>1. enter' = enter /\ sr' = sr
  BY DEF Drain
<1>2. Using(r)' = Using(r)
  BY <1>1 DEF Using
<1>3. PICK st : st = Head(buffer[r])
  OBVIOUS
<1>4. PICK key : key = <<r, st[1]>>
  OBVIOUS
<1>5. /\ st \in Stores /\ key \in Record /\ st[2] \in {"p", "v"}
      /\ st[2] = "p" => hazard'[key].p = st[3] /\ hazard'[key].v = hazard[key].v
      /\ st[2] = "v" => hazard'[key].v = st[3] /\ hazard'[key].p = hazard[key].p
      /\ \A g \in Record \ {key} : hazard'[g] = hazard[g]
  BY <1>3, <1>4, DrainEffect
<1>6. /\ buffer[r] # <<>> /\ buffer[r] \in Seq(Stores)
      /\ buffer'[r] = Tail(buffer[r])
  BY DrainEffect
<1>7. CASE HasRecord(r)
  <2>1. PICK i \in 1 .. HAZARD_NUM : i = enter[r].i
    BY <1>7, OwnRecord
  <2>2. PICK mine \in Record : mine = <<r, i>>
    BY <2>1 DEF Record
  <2>3. (mine = key) <=> (st[1] = i)
    BY <1>4, <2>2
  <2>4. \A f \in {"p", "v"} :
           Field(hazard'[mine], f) =
              IF StoreTo(st, i, f) THEN st[3] ELSE Field(hazard[mine], f)
    BY <1>5, <2>3 DEF Field, StoreTo
  <2>5. \A f \in {"p", "v"} : \A x :
           Shows(buffer[r], hazard[mine], i, f, x) => Shows(buffer'[r], hazard'[mine], i, f, x)
    BY <1>3, <1>6, <2>4, ShowsDrained
  <2>6. enter[r].pc # "entered"
    BY <1>6 DEF Announced
  <2>7. Using(r) # NoVal =>
           /\ hazard'[mine] = hazard[mine]
           /\ \A m \in 1 .. Len(buffer'[r]) : buffer'[r][m][1] # i
    <3> SUFFICES ASSUME Using(r) # NoVal
                 PROVE  /\ hazard'[mine] = hazard[mine]
                        /\ \A m \in 1 .. Len(buffer'[r]) : buffer'[r][m][1] # i
      OBVIOUS
    <3>1. \A m \in 1 .. Len(buffer[r]) : buffer[r][m][1] # i
      BY <2>1 DEF Announced
    <3>2. PICK n \in Nat : n = Len(buffer[r]) /\ n # 0
      BY <1>6, LenProperties, EmptySeq
    <3>3. st = buffer[r][1] /\ Len(buffer'[r]) = n - 1
          /\ \A m \in 1 .. n - 1 : buffer'[r][m] = buffer[r][m + 1]
      BY <1>3, <1>6, <3>2, HeadTailProperties
    <3>4. st[1] # i
      BY <3>1, <3>2, <3>3
    <3>5. \A m \in 1 .. n - 1 : m + 1 \in 1 .. n
      BY <3>2
    <3>6. hazard'[mine] = hazard[mine]
      BY <1>5, <2>3, <3>4
    <3>7. \A m \in 1 .. n - 1 : buffer'[r][m][1] # i
      BY <3>1, <3>2, <3>3, <3>5
    <3>8. QED
      BY <3>3, <3>6, <3>7
  <2>8. QED
    BY <1>1, <1>2, <2>1, <2>2, <2>5, <2>6, <2>7 DEF Announced
<1>8. CASE ~HasRecord(r)
  <2>1. enter[r].pc = "out" /\ Using(r) = NoVal
    BY <1>8, OwnRecord DEF HasRecord
  <2>2. QED
    BY <1>1, <1>2, <2>1 DEF Announced
<1>9. QED
  BY <1>2, <1>7, <1>8

(* With a membar_consumer() that waits, every step of a reader keeps its   *)
(* record up with it, and a reader that sees its value still current may   *)
(* use it.                                                                 *)
LEMMA ReaderUses ==
    ASSUME ConsumerDrains, SrpInv, NEW r \in Reader, ReaderStep(r), Announced(r), Uses(r)
    PROVE  Announced(r)' /\ Uses(r)'
<1>0. ReaderShape /\ UNCHANGED updaterVars /\ ref' = ref
  BY ReaderShapes DEF SrpInv
<1>b. buffer[r] \in Seq(Stores)
  BY <1>0 DEF ReaderShape
<1>1. ASSUME NEW s \in Srp, srp_enter(r, s)
      PROVE  Announced(r)' /\ Uses(r)'
  <2>1. PICK i \in 1 .. HAZARD_NUM : i = FreeRecord(r)
    BY <1>0, <1>1, srp_enterEffect
  <2>2. /\ enter'[r].pc = "load" /\ enter'[r].srp = s /\ enter'[r].i = i
        /\ <<i, "p", s>> \in Stores /\ buffer'[r] = Append(buffer[r], <<i, "p", s>>)
    BY <1>0, <1>1, <2>1, srp_enterEffect
  <2>3. Using(r)' = NoVal
    BY <2>2 DEF Using
  <2>4. PICK h : h = hazard'[<<r, i>>]
    OBVIOUS
  <2>5. Shows(buffer'[r], h, i, "p", s)
    BY <1>b, <2>2, ShowsStored
  <2>6. QED
    BY <2>2, <2>3, <2>4, <2>5 DEF Announced, Uses
<1>2. CASE LoadRef(r)
  <2>1. /\ enter[r].pc = "load" /\ enter'[r].pc = "store"
        /\ enter'[r].srp = enter[r].srp /\ enter'[r].i = enter[r].i
        /\ UNCHANGED <<hazard, buffer>>
    BY <1>0, <1>2, LoadEffect
  <2>2. Using(r)' = NoVal
    BY <2>1 DEF Using
  <2>3. QED
    BY <2>1, <2>2 DEF Announced, Uses
<1>3. CASE StoreHazard(r)
  <2>1. PICK i \in 1 .. HAZARD_NUM, x \in Val \cup {NoVal} : i = enter[r].i /\ x = enter[r].v
    <3>1. enter[r].v \in Val \cup {NoVal} /\ enter[r].i \in 1 .. HAZARD_NUM
      BY <1>0, <1>3, StoreHazardEffect DEF ReaderShape, Enters
    <3>2. QED
      BY <3>1
  <2>2. /\ enter[r].pc = "store" /\ enter'[r].pc = "check"
        /\ enter'[r].srp = enter[r].srp /\ enter'[r].i = i /\ enter'[r].v = x
        /\ hazard' = hazard /\ <<i, "v", x>> \in Stores
        /\ buffer'[r] = Append(buffer[r], <<i, "v", x>>)
    BY <1>0, <1>3, <2>1, StoreHazardEffect
  <2>3. Using(r)' = NoVal
    BY <2>2 DEF Using
  <2>4. PICK h, s : h = hazard[<<r, i>>] /\ s = enter[r].srp
    OBVIOUS
  <2>5. Shows(buffer[r], h, i, "p", s)
    BY <2>1, <2>2, <2>4 DEF Announced
  <2>6. PICK st \in Stores : st = <<i, "v", x>> /\ ~StoreTo(st, i, "p")
    BY <2>2 DEF StoreTo
  <2>7. Shows(buffer'[r], h, i, "p", s)
    BY <1>b, <2>2, <2>5, <2>6, ShowsStill
  <2>8. Shows(buffer'[r], h, i, "v", x)
    BY <1>b, <2>2, ShowsStored
  <2>9. QED
    BY <2>2, <2>3, <2>4, <2>7, <2>8 DEF Announced, Uses
<1>4. CASE CheckRef(r)
  <2>1. /\ enter[r].pc = "check" /\ UNCHANGED <<hazard, buffer>> /\ buffer[r] = <<>>
        /\ enter'[r].pc = IF enter[r].v = ref[enter[r].srp] THEN "entered" ELSE "load"
        /\ enter'[r].srp = enter[r].srp /\ enter'[r].i = enter[r].i /\ enter'[r].v = enter[r].v
    BY <1>0, <1>4, CheckEffect
  <2>2. CASE enter[r].v # ref[enter[r].srp]
    <3>1. Using(r)' = NoVal
      BY <2>1, <2>2 DEF Using
    <3>2. QED
      BY <2>1, <2>2, <3>1 DEF Announced, Uses
  <2>3. CASE enter[r].v = ref[enter[r].srp]
    <3>1. Using(r)' = enter[r].v /\ enter'[r].pc = "entered"
      BY <2>1, <2>3 DEF Using
    <3>2. PICK h : h = hazard[<<r, enter[r].i>>]
      OBVIOUS
    <3>3. Field(h, "p") = enter[r].srp /\ Field(h, "v") = enter[r].v
      BY <2>1, <3>2, ShowsNow DEF Announced
    <3>4. h.p = enter[r].srp /\ h.v = enter[r].v
      BY <3>3 DEF Field
    <3>5. Len(buffer'[r]) = 0
      BY <2>1, EmptySeq
    <3>6. Announced(r)'
      BY <2>1, <3>1, <3>2, <3>4, <3>5 DEF Announced
    <3>7. enter[r].srp \in Srp
      BY <1>0, <2>1, OwnRecord DEF HasRecord
    <3>8. PICK x : x = enter[r].v
      OBVIOUS
    <3>9. x # NoVal => life[x] = "live"
      BY <2>3, <3>7, <3>8 DEF SrpInv, Lives
    <3>10. x # NoVal => /\ \A u \in Scanner : Scanning(u) => scan[u].v # x
                        /\ \A ctx \in gc : ctx[2] # x
      BY <3>9 DEF SrpInv, Lives
    <3>11. life' = life /\ scan' = scan /\ gc' = gc /\ ref' = ref
      BY <1>0 DEF updaterVars
    <3>12. Uses(r)'
      BY <2>1, <2>3, <3>1, <3>8, <3>9, <3>10, <3>11 DEF Uses, Scanning
    <3>13. QED
      BY <3>6, <3>12
  <2>4. QED
    BY <2>2, <2>3
<1>5. CASE Entered(r)
  <2>1. /\ enter[r].pc = "entered" /\ enter'[r].pc = "out" /\ hazard' = hazard
        /\ enter'[r].srp = enter[r].srp /\ enter'[r].i = enter[r].i /\ enter'[r].v = enter[r].v
        /\ enter[r].i \in {1, 2} /\ enter[r].i # sr[r] /\ sr'[r] = enter[r].i
    BY <1>0, <1>5, EnteredEffect
  <2>2. Using(r)' = Using(r) /\ Using(r) = enter[r].v
    BY <2>1 DEF Using
  <2>3. PICK st : st = <<sr[r], "p", NoVal>>
    OBVIOUS
  <2>4. (st \in Stores \/ sr[r] = 0)
        /\ buffer'[r] = IF sr[r] = 0 THEN buffer[r] ELSE Append(buffer[r], st)
    BY <1>0, <1>5, <2>3, EnteredEffect
  <2>5. buffer[r] = <<>>
    BY <2>1 DEF Announced
  <2>6. \A m \in 1 .. Len(buffer'[r]) : buffer'[r][m][1] # enter[r].i
    <3>1. CASE sr[r] = 0
      BY <3>1, <2>4, <2>5
    <3>2. CASE sr[r] # 0
      <4>1. buffer'[r] = <<st>>
        BY <3>2, <2>4, <2>5
      <4>2. QED
        BY <4>1, <2>1, <2>3
    <3>3. QED
      BY <3>1, <3>2
  <2>7. Announced(r)'
    BY <2>1, <2>2, <2>6 DEF Announced
  <2>8. QED
    BY <1>0, <2>1, <2>2, <2>7, UsesKept
<1>6. CASE srp_leave(r)
  <2>1. enter'[r].pc = "out" /\ sr'[r] = 0
    BY <1>0, <1>6, LeaveEffect
  <2>2. Using(r)' = NoVal
    BY <2>1 DEF Using
  <2>3. QED
    BY <2>1, <2>2 DEF Announced, Uses
<1>7. CASE Drain(r)
  <2>1. Announced(r)' /\ Using(r)' = Using(r)
    BY <1>0, <1>7, DrainAnnounces
  <2>2. enter' = enter
    BY <1>7 DEF Drain
  <2>3. QED
    BY <1>0, <2>1, <2>2, UsesKept
<1>8. QED
  BY <1>1, <1>2, <1>3, <1>4, <1>5, <1>6, <1>7 DEF ReaderStep

(* A scan that goes on has not passed the record of a reader that uses the *)
(* value it looks for.                                                     *)
LEMMA MovesUses ==
    ASSUME SrpInv, NEW r \in Reader, Uses(r), Announced(r), NEW u \in Scanner,
           UNCHANGED <<ref, hazard, buffer, sr, enter, life, gc>>,
           scan'[u].srp = scan[u].srp, scan'[u].v = scan[u].v, Scanning(u),
           \A w \in Scanner \ {u} : scan'[w] = scan[w],
           \/ scan'[u].k = scan[u].k
           \/ scan'[u].k = 1
           \/ /\ scan'[u].k = scan[u].k + 1
              /\ Using(r) = scan[u].v =>
                    Records[scan[u].k] # <<r, enter[r].i>>
    PROVE  Uses(r)'
<1>1. Using(r)' = Using(r)
  BY DEF Using
<1> SUFFICES ASSUME Using(r) # NoVal,
                    NEW w \in Scanner, Scanning(w)', scan'[w].v = Using(r)
             PROVE  /\ scan'[w].srp = enter[r].srp
                    /\ \A j \in 1 .. Len(Records) : j < scan'[w].k => Records[j] # <<r, enter[r].i>>
  BY <1>1 DEF Uses, Scanning
<1>2. CASE w # u
  <2>1. scan'[w] = scan[w] /\ Scanning(w)
    BY <1>2 DEF Scanning
  <2>2. QED
    BY <2>1 DEF Uses
<1>3. CASE w = u
  <2>1. /\ scan[u].srp = enter[r].srp
        /\ \A j \in 1 .. Len(Records) : j < scan[u].k => Records[j] # <<r, enter[r].i>>
    BY <1>3 DEF Uses
  <2>2. PICK mine : mine = <<r, enter[r].i>>
    OBVIOUS
  <2>3. PICK k \in Nat : k = scan[u].k
    BY ScanRecord DEF SrpInv
  <2>4. PICK len \in Nat : len = Len(Records)
    BY AllRecords
  <2>5. \A j \in 1 .. len : j < scan'[u].k => Records[j] # mine
    BY <1>3, <2>1, <2>2, <2>3, <2>4
  <2>6. QED
    BY <1>3, <2>1, <2>2, <2>4, <2>5
<1>4. QED
  BY <1>2, <1>3

(* A scan finds the pointer of a reader that uses its value.               *)
LEMMA ScanPointerUses ==
    ASSUME SrpInv, NEW r \in Reader, Uses(r), Announced(r), NEW u \in Scanner, ScanPointer(u)
    PROVE  Uses(r)'
<1>1. Scanning(u) /\ UNCHANGED <<ref, hazard, buffer, sr, enter, life, gc>>
  BY ScanPointerPreserves
<1>2. PICK e \in Scans : e = scan[u]
  BY <1>1, ScanRecord DEF SrpInv
<1>3. PICK found \in BOOLEAN :
         /\ found = IF updates = "update" THEN hazard[Records[e.k]].p = e.srp
                    ELSE hazard[Records[e.k]].p # NoVal
         /\ scan' = [scan EXCEPT ![u] = IF found THEN [e EXCEPT !.half = TRUE]
                                        ELSE [e EXCEPT !.k = e.k + 1]]
  BY <1>2 DEF ScanPointer, SrpInv, ScanShape
<1>4. PICK n : n = IF found THEN [e EXCEPT !.half = TRUE] ELSE [e EXCEPT !.k = e.k + 1]
  OBVIOUS
<1>5. n.srp = e.srp /\ n.v = e.v /\ n.k = IF found THEN e.k ELSE e.k + 1
  BY <1>2, <1>4 DEF Scans
<1>6. scan'[u] = n /\ \A w \in Scanner \ {u} : scan'[w] = scan[w]
  BY <1>3, <1>4 DEF SrpInv, ScanShape
<1>7. ASSUME Using(r) = e.v, Records[e.k] = <<r, enter[r].i>> PROVE found
  <2>1. Using(r) # NoVal
    BY <1>1, <1>2, <1>7, ScanRecord, SrpAssumption DEF SrpInv
  <2>2. hazard[Records[e.k]].p = enter[r].srp
    BY <1>7, <2>1 DEF Announced
  <2>3. enter[r].srp \in Srp
    BY <2>1, OwnRecord DEF SrpInv
  <2>4. e.srp = enter[r].srp
    BY <1>1, <1>2, <1>7, <2>1 DEF Uses
  <2>5. QED
    BY <1>3, <2>2, <2>3, <2>4, SrpAssumption
<1>8. \/ scan'[u].k = scan[u].k
      \/ /\ scan'[u].k = scan[u].k + 1
         /\ Using(r) = scan[u].v => Records[scan[u].k] # <<r, enter[r].i>>
  BY <1>2, <1>5, <1>6, <1>7
<1>9. scan'[u].srp = scan[u].srp /\ scan'[u].v = scan[u].v
  BY <1>2, <1>5, <1>6
<1>10. QED
  BY <1>1, <1>6, <1>8, <1>9, MovesUses

(* A scan finds the value of a reader that uses it, and starts again.      *)
LEMMA ScanValueUses ==
    ASSUME SrpInv, NEW r \in Reader, Uses(r), Announced(r), NEW u \in Scanner, ScanValue(u)
    PROVE  Uses(r)'
<1>1. Scanning(u) /\ UNCHANGED <<updates, ref, hazard, buffer, sr, enter, life>>
  BY ScanValuePreserves DEF ScanValue
<1>2. PICK e \in Scans : e = scan[u]
  BY <1>1, ScanRecord DEF SrpInv
<1>3. Using(r)' = Using(r)
  BY <1>1 DEF Using
<1>4. CASE hazard[Records[e.k]].v = e.v /\ updates = "update"
  <2>1. PICK c : c = <<e.srp, e.v>>
    OBVIOUS
  <2>2. gc' = gc \cup {c} /\ scan' = [scan EXCEPT ![u] = NotScanning]
    BY <1>2, <1>4, <2>1 DEF ScanValue, InUse
  <2>3. scan'[u] = NotScanning /\ \A w \in Scanner \ {u} : scan'[w] = scan[w]
    BY <2>2 DEF SrpInv, ScanShape
  <2>4. \A w \in Scanner : Scanning(w)' => Scanning(w) /\ scan'[w] = scan[w]
    BY <2>3 DEF Scanning
  <2>5. c[1] = e.srp /\ c[2] = e.v
    BY <2>1
  <2>6. Using(r) # NoVal => \A ctx \in gc' : ctx[2] = Using(r) => ctx[1] = enter[r].srp
    BY <1>1, <1>2, <2>2, <2>5 DEF Uses
  <2>7. QED
    BY <1>1, <1>3, <2>4, <2>6 DEF Uses
<1>5. CASE hazard[Records[e.k]].v = e.v /\ updates # "update"
  <2>1. PICK n : n = [e EXCEPT !.k = 1, !.half = FALSE]
    OBVIOUS
  <2>2. n.srp = e.srp /\ n.v = e.v /\ n.k = 1
    BY <1>2, <2>1 DEF Scans
  <2>3. scan' = [scan EXCEPT ![u] = n] /\ gc' = gc
    BY <1>2, <1>5, <2>1 DEF ScanValue, InUse, SrpInv, ScanShape
  <2>4. scan'[u] = n /\ \A w \in Scanner \ {u} : scan'[w] = scan[w]
    BY <2>3 DEF SrpInv, ScanShape
  <2>5. scan'[u].srp = scan[u].srp /\ scan'[u].v = scan[u].v /\ scan'[u].k = 1
    BY <1>2, <2>2, <2>4
  <2>6. QED
    BY <1>1, <2>3, <2>4, <2>5, MovesUses
<1>6. CASE hazard[Records[e.k]].v # e.v
  <2>1. PICK n : n = [e EXCEPT !.k = e.k + 1, !.half = FALSE]
    OBVIOUS
  <2>2. n.srp = e.srp /\ n.v = e.v /\ n.k = e.k + 1
    BY <1>2, <2>1 DEF Scans
  <2>3. scan' = [scan EXCEPT ![u] = n] /\ gc' = gc
    BY <1>2, <1>6, <2>1 DEF ScanValue, SrpInv, ScanShape
  <2>4. scan'[u] = n /\ \A w \in Scanner \ {u} : scan'[w] = scan[w]
    BY <2>3 DEF SrpInv, ScanShape
  <2>5. scan'[u].srp = scan[u].srp /\ scan'[u].v = scan[u].v /\ scan'[u].k = scan[u].k + 1
    BY <1>2, <2>2, <2>4
  <2>6. Using(r) = scan[u].v => Records[scan[u].k] # <<r, enter[r].i>>
    <3> SUFFICES ASSUME Using(r) = e.v PROVE Records[e.k] # <<r, enter[r].i>>
      BY <1>2
    <3>1. Using(r) # NoVal
      BY <1>1, <1>2, ScanRecord, SrpAssumption DEF SrpInv
    <3>2. hazard[<<r, enter[r].i>>].v = e.v
      BY <3>1, OwnRecord DEF Announced, SrpInv
    <3>3. QED
      BY <1>6, <3>2
  <2>7. QED
    BY <1>1, <2>3, <2>4, <2>5, <2>6, MovesUses
<1>7. QED
  BY <1>4, <1>5, <1>6

(* A scan of srp_v_gc() starts with the first record.                      *)
LEMMA CollectUses ==
    ASSUME SrpInv, NEW r \in Reader, Uses(r), srp_v_gc
    PROVE  Uses(r)'
<1>1. UNCHANGED <<ref, life, sr, enter>>
  BY DEF srp_v_gc
<1>2. Using(r)' = Using(r)
  BY <1>1 DEF Using
<1>3. PICK u \in Scanner : u = softclock_gc
  BY DEF Scanner
<1>4. PICK c \in gc : /\ gc' = gc \ {c}
                      /\ scan' = [scan EXCEPT ![u] =
                            [srp |-> c[1], v |-> c[2], k |-> 1, half |-> FALSE]]
  BY <1>3 DEF srp_v_gc
<1>5. /\ scan'[u].srp = c[1] /\ scan'[u].v = c[2] /\ scan'[u].k = 1
      /\ \A w \in Scanner \ {u} : scan'[w] = scan[w]
  BY <1>4 DEF SrpInv, ScanShape
<1>6. ASSUME Using(r) # NoVal, NEW w \in Scanner, Scanning(w)', scan'[w].v = Using(r)
      PROVE  /\ scan'[w].srp = enter[r].srp
             /\ \A j \in 1 .. Len(Records) : j < scan'[w].k => Records[j] # <<r, enter[r].i>>
  <2>1. CASE w = u
    <3>1. c[1] = enter[r].srp
      BY <1>5, <1>6, <2>1 DEF Uses
    <3>2. \A j \in 1 .. Len(Records) : ~(j < 1)
      BY AllRecords
    <3>3. QED
      BY <1>5, <2>1, <3>1, <3>2
  <2>2. CASE w # u
    <3>1. scan'[w] = scan[w] /\ Scanning(w)
      BY <1>5, <1>6, <2>2 DEF Scanning
    <3>2. QED
      BY <1>6, <3>1 DEF Uses
  <2>3. QED
    BY <2>1, <2>2
<1>7. QED
  BY <1>1, <1>2, <1>4, <1>6 DEF Uses, Scanning

(* A scan that met no reader has passed the record of every one.           *)
LEMMA DestroyUses ==
    ASSUME SrpInv, NEW r \in Reader, Uses(r), NEW u \in Scanner, srp_v_dtor(u)
    PROVE  Uses(r)'
<1>1. Scanning(u) /\ scan[u].k = Len(Records) + 1
  BY DestroyPreserves
<1>2. UNCHANGED <<ref, sr, enter, gc>>
  BY DEF srp_v_dtor
<1>3. Using(r)' = Using(r)
  BY <1>2 DEF Using
<1>4. PICK x \in Val : x = scan[u].v
  BY <1>1, ScanRecord DEF SrpInv
<1>5. \A y \in Val \ {x} : life'[y] = life[y]
  BY <1>4 DEF srp_v_dtor, SrpInv, ScanShape
<1>6. scan'[u] = NotScanning /\ \A w \in Scanner \ {u} : scan'[w] = scan[w]
  BY DEF srp_v_dtor, SrpInv, ScanShape
<1>7. ASSUME Using(r) # NoVal PROVE Using(r) \in Val \ {x}
  <2>1. Using(r) \in Val /\ <<r, enter[r].i>> \in Record
    BY <1>7, OwnRecord DEF SrpInv
  <2>2. PICK j \in 1 .. Len(Records) : Records[j] = <<r, enter[r].i>>
    BY <2>1, AllRecords
  <2>3. j < scan[u].k
    BY <1>1, AllRecords
  <2>4. QED
    BY <1>1, <1>4, <1>7, <2>1, <2>2, <2>3 DEF Uses
<1>8. \A w \in Scanner : Scanning(w)' => Scanning(w) /\ scan'[w] = scan[w]
  BY <1>6 DEF Scanning
<1>9. QED
  BY <1>2, <1>3, <1>5, <1>7, <1>8 DEF Uses

(* Who uses the old value came by the pointer that is updated; the scan    *)
(* begins.                                                                 *)
LEMMA UpdateUses ==
    ASSUME SrpInv, NEW r \in Reader, Uses(r), NEW u \in Updater, NEW s \in Srp,
           NEW v \in Val \cup {NoVal}, srp_update(u, s, v)
    PROVE  Uses(r)'
<1>1. PICK old : old = ref[s]
  OBVIOUS
<1>2. /\ u \in Scanner /\ ~Scanning(u) /\ old \in Val \cup {NoVal} /\ v # old
      /\ v # NoVal => life[v] = "free"
      /\ ref'[s] = v /\ \A t \in Srp \ {s} : ref'[t] = ref[t]
  BY <1>1, UpdateEffect
<1>3. /\ old # NoVal => life[old] = "live" /\ life'[old] = "retired"
      /\ \A x \in Val \ {old, v} : life'[x] = life[x]
  BY <1>1, UpdateEffect
<1>4. /\ \A w \in Scanner \ {u} : scan'[w] = scan[w]
      /\ old = NoVal => scan' = scan
      /\ old # NoVal => scan'[u].v = old /\ scan'[u].srp = s /\ scan'[u].k = 1
  BY <1>1, UpdateEffect
<1>5. UNCHANGED <<sr, enter, gc>>
  BY <1>1, UpdateEffect
<1>6. Using(r)' = Using(r)
  BY <1>5 DEF Using
<1> SUFFICES ASSUME Using(r) # NoVal PROVE Uses(r)'
  BY <1>6 DEF Uses
<1>7. PICK x \in Val : x = Using(r)
  BY OwnRecord DEF SrpInv
<1>8. /\ life[x] # "free"
      /\ life[x] = "live" => ref[enter[r].srp] = x
      /\ \A ctx \in gc : ctx[2] = x => ctx[1] = enter[r].srp
      /\ \A w \in Scanner : Scanning(w) /\ scan[w].v = x =>
            /\ scan[w].srp = enter[r].srp
            /\ \A j \in 1 .. Len(Records) : j < scan[w].k => Records[j] # <<r, enter[r].i>>
  BY <1>7 DEF Uses
<1>9. x # v /\ enter[r].srp \in Srp
  BY <1>2, <1>8, SrpAssumption, OwnRecord DEF SrpInv
<1>10. CASE x = old
  <2>1. old # NoVal /\ life[x] = "live" /\ life'[x] = "retired"
    BY <1>3, <1>10, SrpAssumption
  <2>2. enter[r].srp = s
    BY <1>1, <1>8, <1>9, <1>10, <2>1 DEF SrpInv, Lives
  <2>3. ASSUME NEW w \in Scanner, Scanning(w)', scan'[w].v = x
        PROVE  /\ scan'[w].srp = enter[r].srp
               /\ \A j \in 1 .. Len(Records) : j < scan'[w].k => Records[j] # <<r, enter[r].i>>
    <3>1. CASE w = u
      <4>1. \A j \in 1 .. Len(Records) : ~(j < 1)
        BY AllRecords
      <4>2. QED
        BY <1>4, <2>1, <2>2, <3>1, <4>1
    <3>2. CASE w # u
      <4>1. scan'[w] = scan[w] /\ Scanning(w)
        BY <1>4, <2>3, <3>2 DEF Scanning
      <4>2. QED
        BY <2>3, <4>1, <1>8
    <3>3. QED
      BY <3>1, <3>2
  <2>4. QED
    BY <1>5, <1>6, <1>7, <1>8, <2>1, <2>3 DEF Uses, Scanning
<1>11. CASE x # old
  <2>1. life'[x] = life[x]
    BY <1>3, <1>9, <1>11
  <2>2. life[x] = "live" => ref'[enter[r].srp] = x
    BY <1>1, <1>2, <1>8, <1>9, <1>11
  <2>3. \A w \in Scanner : Scanning(w)' /\ scan'[w].v = x => Scanning(w) /\ scan'[w] = scan[w]
    BY <1>2, <1>4, <1>11 DEF Scanning
  <2>4. QED
    BY <1>5, <1>6, <1>7, <1>8, <2>1, <2>2, <2>3 DEF Uses
<1>12. QED
  BY <1>10, <1>11

(* Every step keeps the invariant, if membar_consumer() waits for the      *)
(* stores.                                                                 *)
LEMMA UsePreserved ==
    ASSUME ConsumerDrains, UseInv, [SrpNext]_srpVars
    PROVE  UseInv'
<1>1. SrpInv'
  BY SrpPreserved DEF UseInv
<1> SUFFICES ASSUME NEW q \in Reader PROVE Announced(q)' /\ Uses(q)'
  BY <1>1 DEF UseInv
<1>2. SrpInv /\ ReaderShape /\ Announced(q) /\ Uses(q)
  BY DEF UseInv, SrpInv
<1>3. CASE UNCHANGED srpVars
  <2>1. Announced(q)' /\ Using(q)' = Using(q)
    BY <1>2, <1>3, AnnouncedKept DEF srpVars
  <2>2. QED
    BY <1>2, <1>3, <2>1, UsesKept DEF srpVars, updaterVars
<1>4. ASSUME NEW r \in Reader, ReaderStep(r) PROVE Announced(q)' /\ Uses(q)'
  <2>1. CASE q = r
    BY <1>2, <1>4, <2>1, ReaderUses
  <2>2. CASE q # r
    <3>1. /\ enter'[q] = enter[q] /\ sr'[q] = sr[q] /\ buffer'[q] = buffer[q]
          /\ \A i \in 1 .. HAZARD_NUM : hazard'[<<q, i>>] = hazard[<<q, i>>]
      BY <1>2, <1>4, <2>2, OtherReaders
    <3>2. Announced(q)' /\ Using(q)' = Using(q)
      BY <1>2, <3>1, AnnouncedKept
    <3>3. UNCHANGED updaterVars /\ ref' = ref
      BY <1>2, <1>4, ReaderShapes
    <3>4. QED
      BY <1>2, <3>1, <3>2, <3>3, UsesKept
  <2>3. QED
    BY <2>1, <2>2
<1>5. ASSUME UNCHANGED <<hazard, buffer, sr, enter>> PROVE Announced(q)'
  BY <1>2, <1>5, AnnouncedKept
<1>6. ASSUME NEW u \in Updater, NEW s \in Srp, NEW v \in Val \cup {NoVal},
             srp_update(u, s, v)
      PROVE  Announced(q)' /\ Uses(q)'
  <2>1. UNCHANGED <<hazard, buffer, sr, enter>>
    BY <1>6 DEF srp_update
  <2>2. QED
    BY <1>2, <1>5, <1>6, <2>1, UpdateUses
<1>7. ASSUME NEW u \in Scanner, ScanPointer(u) \/ ScanValue(u) \/ srp_v_dtor(u)
      PROVE  Announced(q)' /\ Uses(q)'
  <2>1. UNCHANGED <<hazard, buffer, sr, enter>>
    BY <1>7 DEF ScanPointer, ScanValue, srp_v_dtor
  <2>2. QED
    BY <1>2, <1>5, <1>7, <2>1, ScanPointerUses, ScanValueUses, DestroyUses
<1>8. CASE srp_v_gc
  <2>1. UNCHANGED <<hazard, buffer, sr, enter>>
    BY <1>8 DEF srp_v_gc
  <2>2. QED
    BY <1>2, <1>5, <1>8, <2>1, CollectUses
<1>9. QED
  BY <1>3, <1>4, <1>6, <1>7, <1>8 DEF SrpNext, ReaderStep

(* No reader has a reference at first.                                     *)
LEMMA UseInitial ==
    ASSUME SrpInit
    PROVE  UseInv
<1>1. SrpInv
  BY SrpInitial
<1>2. \A r \in Reader : enter[r].pc = "out" /\ Using(r) = NoVal
  BY DEF SrpInit, Using, NotEntering
<1>3. QED
  BY <1>1, <1>2 DEF UseInv, Announced, Uses

(* Where membar_consumer() waits for the stores of its CPU, no value is    *)
(* destroyed while a reader that is past srp_enter() or srp_follow() uses  *)
(* it, for any number of readers, updaters, pointers, values and records   *)
(* and for both ways to replace a value.                                   *)
THEOREM UsedValuesLive ==
    ASSUME ConsumerDrains
    PROVE  SrpSpec => []UsedIsLive
<1>1. SrpInit => UseInv
  BY UseInitial
<1>2. UseInv /\ [SrpNext]_srpVars => UseInv'
  BY UsePreserved
<1>3. UseInv => UsedIsLive
  BY DEF UseInv, Uses, UsedIsLive
<1>4. QED
  BY <1>1, <1>2, <1>3, PTL DEF SrpSpec

-----------------------------------------------------------------------------
(* Timeouts: the arithmetic stays in the ranges of its types.              *)

\* The widths of the levels are positive.
LEMMA SpanType ==
    /\ \A l \in 0 .. 3 : Span(l) \in Nat \ {0}
    /\ INT_MAX \in Nat
<1>1. WHEELSIZE \in Nat /\ WHEELSIZE > 1
  BY TimeoutAssumption
<1>2. PICK a \in Nat : a = WHEELSIZE * WHEELSIZE /\ a > 1
  BY <1>1
<1>3. PICK b \in Nat : b = WHEELSIZE * WHEELSIZE * WHEELSIZE /\ b > 1
  <2>1. WHEELSIZE * WHEELSIZE * WHEELSIZE = a * WHEELSIZE
    BY <1>2
  <2>2. a * WHEELSIZE \in Nat /\ a * WHEELSIZE > 1
    BY <1>1, <1>2
  <2>3. QED
    BY <2>1, <2>2
<1>4. /\ Span(0) = 1 /\ Span(1) = WHEELSIZE /\ Span(2) = WHEELSIZE * WHEELSIZE
      /\ Span(3) = WHEELSIZE * WHEELSIZE * WHEELSIZE
  BY DEF Span
<1>5. PICK c \in Nat : c = WHEELSIZE * Span(3) /\ c > 1
  <2>1. WHEELSIZE * b \in Nat /\ WHEELSIZE * b > 1
    BY <1>1, <1>3
  <2>2. QED
    BY <1>3, <1>4, <2>1
<1>6. c \div 2 \in Nat /\ c \div 2 >= 1
  BY <1>5
<1>7. INT_MAX \in Nat
  BY <1>5, <1>6 DEF INT_MAX
<1>8. \A l \in 0 .. 3 : Span(l) \in Nat \ {0}
  BY <1>1, <1>2, <1>3, <1>4
<1>9. QED
  BY <1>7, <1>8

\* An int is in the range of an int.
LEMMA Int32Type ==
    ASSUME NEW n \in Int
    PROVE  Int32(n) \in -INT_MAX - 1 .. INT_MAX
<1>1. PICK m \in Nat : m = INT_MAX
  BY SpanType
<1>2. (n + m + 1) % (2 * (m + 1)) \in 0 .. 2 * (m + 1) - 1
  <2>1. n + m + 1 \in Int /\ 2 * (m + 1) \in Nat \ {0}
    OBVIOUS
  <2>2. QED
    BY <2>1
<1>3. ((n + m + 1) % (2 * (m + 1))) - m - 1 \in -m - 1 .. m
  BY <1>2
<1>4. QED
  BY <1>1, <1>3 DEF Int32

\* A bucket is a bucket of a wheel.
LEMMA BucketType ==
    ASSUME NEW abs \in Int
    PROVE  /\ \A l \in 0 .. 3 : MASKWHEEL(l, abs) \in 0 .. WHEELSIZE - 1
           /\ \A l \in 0 .. 3 : timeout_maskwheel(l, abs) \in 0 .. WHEELSIZE - 1
<1>1. WHEELSIZE \in Nat \ {0} /\ Sub \in Nat \ {0}
  BY TimeoutAssumption
<1>2. ASSUME NEW a \in Int, NEW l \in 0 .. 3
      PROVE  MASKWHEEL(l, a) \in 0 .. WHEELSIZE - 1
  <2>1. PICK s \in Nat \ {0} : s = Span(l)
    BY SpanType
  <2>2. a \div s \in Int
    OBVIOUS
  <2>3. (a \div s) % WHEELSIZE \in 0 .. WHEELSIZE - 1
    BY <1>1, <2>2
  <2>4. QED
    BY <2>1, <2>3 DEF MASKWHEEL
<1>3. abs \div Sub \in Int
  BY <1>1
<1>4. QED
  BY <1>2, <1>3 DEF timeout_maskwheel

BucketSet == {"none", "uptime"} \X (0 .. 3) \X (0 .. WHEELSIZE - 1)

\* And so is what BUCKET() and timeout_bucket() choose.
LEMMA BUCKETType ==
    ASSUME NEW rel \in Int, NEW abs \in Int
    PROVE  BUCKET(rel, abs) \in BucketSet /\ timeout_bucket(abs) \in BucketSet
<1>1. BUCKET(rel, abs) \in BucketSet
  <2>1. PICK l \in 0 .. 3 : BUCKET(rel, abs) = <<"none", l, MASKWHEEL(l, abs)>>
    BY DEF BUCKET
  <2>2. PICK m \in 0 .. WHEELSIZE - 1 : m = MASKWHEEL(l, abs)
    BY BucketType
  <2>3. <<"none", l, m>> \in BucketSet
    BY DEF BucketSet
  <2>4. QED
    BY <2>1, <2>2, <2>3
<1>2. timeout_bucket(abs) \in BucketSet
  <2> DEFINE fits == {l \in 0 .. 2 : abs - kc_lastscan < timeout_level_width(l)}
             level == IF fits = {} THEN 3 ELSE CHOOSE l \in fits : \A k \in fits : l <= k
  <2>1. timeout_bucket(abs) = <<"uptime", level, timeout_maskwheel(level, abs)>>
    BY DEF timeout_bucket
  <2>2. level \in 0 .. 3
    <3>1. CASE fits = {}
      BY <3>1
    <3>2. CASE fits # {}
      <4>1. \E l \in fits : \A k \in fits : l <= k
        <5>1. CASE 0 \in fits
          BY <5>1
        <5>2. CASE 0 \notin fits /\ 1 \in fits
          BY <5>2
        <5>3. CASE 0 \notin fits /\ 1 \notin fits
          BY <3>2, <5>3
        <5>4. QED
          BY <5>1, <5>2, <5>3
      <4>2. (CHOOSE l \in fits : \A k \in fits : l <= k) \in fits
        BY <4>1
      <4>3. QED
        BY <3>2, <4>2
    <3>3. QED
      BY <3>1, <3>2
  <2> HIDE DEF level
  <2>3. PICK k \in 0 .. 3, m \in 0 .. WHEELSIZE - 1 : k = level /\ m = timeout_maskwheel(k, abs)
    BY <2>2, BucketType
  <2>4. <<"uptime", k, m>> \in BucketSet
    BY DEF BucketSet
  <2>5. QED
    BY <2>1, <2>3, <2>4
<1>3. QED
  BY <1>1, <1>2

-----------------------------------------------------------------------------
(* What the steps do to the lists.                                         *)

ListsOK == NoDup(wheel) /\ \A q \in Queue : NoDup(queue[q])

ListTypes ==
    /\ wheel \in Seq(AnyTo) /\ queue \in [Queue -> Seq(AnyTo)]
    /\ bucket \in [AnyTo -> {NIL} \cup BucketSet]

\* The lists, by their names.
LEMMA ListsNamed ==
    ASSUME NEW t, NEW l \in List
    PROVE  /\ OnList(t, "wheel") <=> t \in Elements(wheel)
           /\ l # "wheel" => l \in Queue /\ (OnList(t, l) <=> t \in Elements(queue[l]))
           /\ OnList(t, "wheel")' <=> t \in Elements(wheel')
           /\ l # "wheel" => (OnList(t, l)' <=> t \in Elements(queue'[l]))
           /\ \A q \in Queue : q \in List /\ q # "wheel"
  BY DEF OnList, List, Queue

\* CIRCQ_REMOVE.
LEMMA UnlinkEffect ==
    ASSUME ListTypes, ListsOK, NEW t \in AnyTo, Unlink(t)
    PROVE  /\ ListTypes' /\ ListsOK'
           /\ \A u \in AnyTo, l \in List : OnList(u, l)' <=> OnList(u, l) /\ u # t
<1>1. /\ wheel' \in Seq(AnyTo) /\ NoDup(wheel') /\ Elements(wheel') = Elements(wheel) \ {t}
  BY WithoutFacts DEF Unlink, ListTypes, ListsOK
<1>2. ASSUME NEW q \in Queue
      PROVE  /\ queue'[q] \in Seq(AnyTo) /\ NoDup(queue'[q])
             /\ Elements(queue'[q]) = Elements(queue[q]) \ {t}
  <2>1. queue[q] \in Seq(AnyTo) /\ NoDup(queue[q]) /\ queue'[q] = Without(queue[q], t)
    BY DEF Unlink, ListTypes, ListsOK
  <2>2. QED
    BY <2>1, WithoutFacts
<1>3. ListTypes'
  <2>1. queue' \in [Queue -> Seq(AnyTo)]
    BY <1>2 DEF Unlink
  <2>2. bucket' \in [AnyTo -> {NIL} \cup BucketSet]
    BY DEF Unlink, ListTypes
  <2>3. QED
    BY <1>1, <2>1, <2>2 DEF ListTypes, BucketSet
<1>4. ListsOK'
  BY <1>1, <1>2 DEF ListsOK
<1>5. ASSUME NEW u \in AnyTo, NEW l \in List
      PROVE  OnList(u, l)' <=> OnList(u, l) /\ u # t
  <2>1. CASE l = "wheel"
    BY <1>1, <2>1, ListsNamed
  <2>2. CASE l # "wheel"
    <3>1. l \in Queue /\ (OnList(u, l) <=> u \in Elements(queue[l]))
          /\ (OnList(u, l)' <=> u \in Elements(queue'[l]))
      BY <2>2, ListsNamed
    <3>2. QED
      BY <1>2, <3>1
  <2>3. QED
    BY <2>1, <2>2
<1>6. QED
  BY <1>3, <1>4, <1>5

\* CIRCQ_REMOVE and CIRCQ_INSERT_TAIL.
LEMMA MoveToNewEffect ==
    ASSUME ListTypes, ListsOK, NEW t \in AnyTo, MoveToNew(t)
    PROVE  /\ ListTypes' /\ ListsOK'
           /\ \A u \in AnyTo, l \in List :
                 OnList(u, l)' <=> (OnList(u, l) /\ u # t) \/ (u = t /\ l = "new")
<1>1. /\ wheel' \in Seq(AnyTo) /\ NoDup(wheel') /\ Elements(wheel') = Elements(wheel) \ {t}
  BY WithoutFacts DEF MoveToNew, ListTypes, ListsOK
<1>2. ASSUME NEW q \in Queue
      PROVE  /\ queue'[q] \in Seq(AnyTo) /\ NoDup(queue'[q])
             /\ Elements(queue'[q]) = IF q = "new" THEN (Elements(queue[q]) \ {t}) \cup {t}
                                      ELSE Elements(queue[q]) \ {t}
  <2>1. PICK w : w = Without(queue[q], t)
    OBVIOUS
  <2>2. queue[q] \in Seq(AnyTo) /\ NoDup(queue[q])
        /\ queue'[q] = IF q = "new" THEN Append(w, t) ELSE w
    BY <2>1 DEF MoveToNew, ListTypes, ListsOK
  <2>3. w \in Seq(AnyTo) /\ NoDup(w) /\ Elements(w) = Elements(queue[q]) \ {t}
    BY <2>1, <2>2, WithoutFacts
  <2>4. t \notin Elements(w)
    BY <2>3
  <2>5. /\ Append(w, t) \in Seq(AnyTo) /\ NoDup(Append(w, t))
        /\ Elements(Append(w, t)) = Elements(w) \cup {t}
    BY <2>3, <2>4, AppendFacts
  <2>6. CASE q = "new"
    BY <2>2, <2>3, <2>5, <2>6
  <2>7. CASE q # "new"
    BY <2>2, <2>3, <2>7
  <2>8. QED
    BY <2>6, <2>7
<1>3. ListTypes'
  <2>1. queue' \in [Queue -> Seq(AnyTo)]
    <3>1. \E f : queue' = [q \in Queue |-> f[q]]
      <4>1. queue' = [q \in Queue |-> queue'[q]]
        BY DEF MoveToNew
      <4>2. QED
        BY <4>1
    <3>2. QED
      BY <1>2, <3>1
  <2>2. bucket' \in [AnyTo -> {NIL} \cup BucketSet]
    BY DEF MoveToNew, ListTypes
  <2>3. QED
    BY <1>1, <2>1, <2>2 DEF ListTypes, BucketSet
<1>4. ListsOK'
  BY <1>1, <1>2 DEF ListsOK
<1>5. ASSUME NEW u \in AnyTo, NEW l \in List
      PROVE  OnList(u, l)' <=> (OnList(u, l) /\ u # t) \/ (u = t /\ l = "new")
  <2>1. CASE l = "wheel"
    BY <1>1, <2>1, ListsNamed
  <2>2. CASE l # "wheel"
    <3>1. l \in Queue /\ (OnList(u, l) <=> u \in Elements(queue[l]))
          /\ (OnList(u, l)' <=> u \in Elements(queue'[l]))
      BY <2>2, ListsNamed
    <3>2. QED
      BY <1>2, <3>1
  <2>3. QED
    BY <2>1, <2>2
<1>6. QED
  BY <1>3, <1>4, <1>5

\* CIRCQ_CONCAT of buckets onto timeout_todo: what leaves the wheel is there.
LEMMA DumpEffect ==
    ASSUME ListTypes, ListsOK, NEW buckets, Dump(buckets),
           \A u \in AnyTo : ~(OnList(u, "todo") /\ OnList(u, "wheel"))
    PROVE  /\ ListTypes' /\ ListsOK'
           /\ \A u \in AnyTo, l \in List \ {"todo", "wheel"} : OnList(u, l)' <=> OnList(u, l)
           /\ \A u \in AnyTo :
                 /\ OnList(u, "todo") => OnList(u, "todo")'
                 /\ OnList(u, "wheel")' => OnList(u, "wheel")
                 /\ OnList(u, "wheel") => OnList(u, "todo")' \/ OnList(u, "wheel")'
                 /\ OnList(u, "todo")' => OnList(u, "todo") \/ OnList(u, "wheel")
                 /\ ~(OnList(u, "todo")' /\ OnList(u, "wheel")')
<1> DEFINE KK == {i \in 1 .. Len(wheel) :
                     \E k \in 1 .. Len(buckets) : buckets[k] = bucket[wheel[i]]}
<1>1. PICK K : K = KK
  OBVIOUS
<1>2. /\ \E order \in Bijection(1 .. Cardinality(K), K) :
            queue' = [queue EXCEPT !["todo"] = @ \o [k \in DOMAIN order |-> wheel[order[k]]]]
      /\ wheel' = Part(wheel, 1 .. Len(wheel) \ K)
      /\ bucket' = [t \in AnyTo |-> IF \E i \in K : wheel[i] = t THEN NIL ELSE bucket[t]]
  BY <1>1 DEF Dump
<1>3. K \in SUBSET (1 .. Len(wheel)) /\ Len(wheel) \in Nat
  BY <1>1 DEF ListTypes
<1> HIDE DEF KK
<1>4. PICK order \in Bijection(1 .. Cardinality(K), K) :
         queue' = [queue EXCEPT !["todo"] = @ \o [k \in DOMAIN order |-> wheel[order[k]]]]
  BY <1>2
<1>5. PICK n \in Nat : n = Cardinality(K)
  <2>1. IsFiniteSet(1 .. Len(wheel))
    BY <1>3, FS_Interval
  <2>2. QED
    BY <1>3, <2>1, FS_Subset, FS_CardinalityType
<1>6. /\ order \in [1 .. n -> K] /\ DOMAIN order = 1 .. n
      /\ \A j, k \in 1 .. n : order[j] = order[k] => j = k
      /\ \A i \in K : \E k \in 1 .. n : order[k] = i
  BY <1>4, <1>5 DEF Bijection, Injection, Surjection, IsInjective
<1>7. PICK D : D = [k \in 1 .. n |-> wheel[order[k]]]
  OBVIOUS
<1>8. wheel \in Seq(AnyTo) /\ NoDup(wheel) /\ \A i \in 1 .. Len(wheel) : wheel[i] \in AnyTo
  BY DEF ListTypes, ListsOK
<1>9. D \in Seq(AnyTo) /\ Len(D) = n /\ \A k \in 1 .. n : D[k] = wheel[order[k]]
  <2>1. \A k \in 1 .. n : wheel[order[k]] \in AnyTo
    BY <1>3, <1>6, <1>8
  <2>2. D \in [1 .. n -> AnyTo]
    BY <1>7, <2>1
  <2>3. QED
    BY <1>5, <1>7, <2>2
<1>10. NoDup(D)
  <2> SUFFICES ASSUME NEW j \in 1 .. n, NEW k \in 1 .. n, D[j] = D[k] PROVE j = k
    BY <1>9 DEF NoDup
  <2>1. order[j] \in 1 .. Len(wheel) /\ order[k] \in 1 .. Len(wheel)
        /\ wheel[order[j]] = wheel[order[k]]
    BY <1>3, <1>6, <1>9
  <2>2. order[j] = order[k]
    BY <1>8, <2>1 DEF NoDup
  <2>3. QED
    BY <1>6, <2>2
<1>11. Elements(D) = {wheel[i] : i \in K}
  <2>1. \A x \in Elements(D) : x \in {wheel[i] : i \in K}
    BY <1>6, <1>9 DEF Elements
  <2>2. \A i \in K : wheel[i] \in Elements(D)
    BY <1>6, <1>9 DEF Elements
  <2>3. QED
    BY <2>1, <2>2
<1>12. /\ wheel' \in Seq(AnyTo) /\ NoDup(wheel')
       /\ Elements(wheel') = {wheel[i] : i \in 1 .. Len(wheel) \ K}
  <2>1. PICK R \in SUBSET (1 .. Len(wheel)) : R = 1 .. Len(wheel) \ K
    OBVIOUS
  <2>2. /\ Part(wheel, R) \in Seq(AnyTo) /\ Elements(Part(wheel, R)) = {wheel[i] : i \in R}
        /\ NoDup(Part(wheel, R))
    BY <1>8, PartFacts
  <2>3. QED
    BY <1>2, <2>1, <2>2
<1>13. /\ Elements(D) \cup Elements(wheel') = Elements(wheel)
       /\ Elements(D) \cap Elements(wheel') = {}
  <2>1. \A i \in 1 .. Len(wheel) : i \in K \/ i \in 1 .. Len(wheel) \ K
    OBVIOUS
  <2>2. \A i \in K, j \in 1 .. Len(wheel) \ K : wheel[i] # wheel[j]
    BY <1>3, <1>8 DEF NoDup
  <2>3. QED
    BY <1>3, <1>11, <1>12, <2>1, <2>2 DEF Elements
<1>14. PICK s \in Seq(AnyTo) : s = queue["todo"] /\ NoDup(s)
  BY DEF ListTypes, ListsOK, Queue
<1>15. Elements(s) \cap Elements(D) = {}
  <2>1. \A u \in AnyTo : ~(u \in Elements(s) /\ u \in Elements(wheel))
    BY <1>14 DEF OnList
  <2>2. Elements(s) \subseteq AnyTo
    BY <1>14 DEF Elements
  <2>3. QED
    BY <1>13, <2>1, <2>2
<1>16. s \o D \in Seq(AnyTo) /\ NoDup(s \o D) /\ Elements(s \o D) = Elements(s) \cup Elements(D)
  BY <1>9, <1>10, <1>14, <1>15, ConcatFacts
<1>17. queue' = [queue EXCEPT !["todo"] = s \o D]
  BY <1>4, <1>6, <1>7, <1>14
<1>18. /\ queue' \in [Queue -> Seq(AnyTo)] /\ queue'["todo"] = s \o D
       /\ \A q \in Queue \ {"todo"} : queue'[q] = queue[q]
  BY <1>16, <1>17 DEF ListTypes, Queue
<1>19. ListTypes'
  <2>1. bucket' \in [AnyTo -> {NIL} \cup BucketSet]
    BY <1>2 DEF ListTypes
  <2>2. QED
    BY <1>12, <1>18, <2>1 DEF ListTypes, BucketSet
<1>20. ListsOK'
  BY <1>12, <1>16, <1>18 DEF ListsOK
<1>21. \A u \in AnyTo, l \in List \ {"todo", "wheel"} : OnList(u, l)' <=> OnList(u, l)
  BY <1>18, ListsNamed
<1>22. ASSUME NEW u \in AnyTo
       PROVE  /\ OnList(u, "todo") <=> u \in Elements(s)
              /\ OnList(u, "todo")' <=> u \in Elements(s) \cup Elements(D)
              /\ OnList(u, "wheel") <=> u \in Elements(wheel)
              /\ OnList(u, "wheel")' <=> u \in Elements(wheel')
  BY <1>14, <1>16, <1>18 DEF OnList
<1>23. QED
  BY <1>13, <1>15, <1>19, <1>20, <1>21, <1>22

\* CIRCQ_CONCAT of timeout_new onto timeout_todo.
LEMMA JoinEffect ==
    ASSUME ListTypes, ListsOK, UNCHANGED <<wheel, bucket>>,
           queue' = [queue EXCEPT !["todo"] = @ \o queue["new"], !["new"] = <<>>],
           \A u \in AnyTo : ~(OnList(u, "todo") /\ OnList(u, "new"))
    PROVE  /\ ListTypes' /\ ListsOK'
           /\ \A u \in AnyTo, l \in List :
                 OnList(u, l)' <=> /\ l # "new"
                                   /\ OnList(u, l) \/ (l = "todo" /\ OnList(u, "new"))
<1>1. PICK s \in Seq(AnyTo), t \in Seq(AnyTo) :
         s = queue["todo"] /\ t = queue["new"] /\ NoDup(s) /\ NoDup(t)
  BY DEF ListTypes, ListsOK, Queue
<1>2. Elements(s) \cap Elements(t) = {}
  <2>1. Elements(s) \subseteq AnyTo
    BY <1>1 DEF Elements
  <2>2. QED
    BY <1>1, <2>1 DEF OnList
<1>3. s \o t \in Seq(AnyTo) /\ NoDup(s \o t) /\ Elements(s \o t) = Elements(s) \cup Elements(t)
  BY <1>1, <1>2, ConcatFacts
<1>4. <<>> \in Seq(AnyTo) /\ NoDup(<<>>) /\ Elements(<<>>) = {}
  BY DEF NoDup, Elements
<1>5. PICK j : j = s \o t
  OBVIOUS
<1>6. queue' = [queue EXCEPT !["todo"] = j, !["new"] = <<>>]
  BY <1>1, <1>5
<1>7. /\ queue' \in [Queue -> Seq(AnyTo)] /\ queue'["todo"] = j /\ queue'["new"] = <<>>
      /\ \A q \in Queue \ {"todo", "new"} : queue'[q] = queue[q]
  BY <1>3, <1>4, <1>5, <1>6 DEF ListTypes, Queue
<1>8. ListTypes' /\ ListsOK'
  BY <1>3, <1>4, <1>5, <1>7 DEF ListTypes, ListsOK, BucketSet
<1>9. ASSUME NEW u \in AnyTo, NEW l \in List
      PROVE  OnList(u, l)' <=> /\ l # "new"
                               /\ OnList(u, l) \/ (l = "todo" /\ OnList(u, "new"))
  <2>1. CASE l = "wheel"
    BY <2>1 DEF OnList
  <2>2. CASE l = "new"
    BY <1>4, <1>7, <2>2 DEF OnList
  <2>3. CASE l = "todo"
    BY <1>1, <1>3, <1>5, <1>7, <2>3 DEF OnList
  <2>4. CASE l \notin {"wheel", "new", "todo"}
    BY <1>7, <2>4 DEF OnList, List
  <2>5. QED
    BY <2>1, <2>2, <2>3, <2>4
<1>10. QED
  BY <1>8, <1>9

\* The first of a queue, and the rest.
LEMMA HeadFacts ==
    ASSUME NEW T, NEW s \in Seq(T), NoDup(s), s # <<>>
    PROVE  /\ Head(s) \in T /\ Head(s) \in Elements(s)
           /\ Tail(s) \in Seq(T) /\ NoDup(Tail(s))
           /\ Elements(Tail(s)) = Elements(s) \ {Head(s)}
<1>1. /\ Len(s) \in Nat /\ Len(s) >= 1 /\ Head(s) = s[1]
      /\ Tail(s) \in Seq(T) /\ Len(Tail(s)) = Len(s) - 1
      /\ \A i \in 1 .. Len(s) - 1 : Tail(s)[i] = s[i + 1]
  OBVIOUS
<1>2. 1 \in 1 .. Len(s)
  BY <1>1
<1>3. PICK r : r = Tail(s)
  OBVIOUS
<1>4. NoDup(r)
  <2> SUFFICES ASSUME NEW i \in 1 .. Len(s) - 1, NEW j \in 1 .. Len(s) - 1, r[i] = r[j]
               PROVE  i = j
    BY <1>1, <1>3 DEF NoDup
  <2>1. s[i + 1] = s[j + 1] /\ i + 1 \in 1 .. Len(s) /\ j + 1 \in 1 .. Len(s)
    BY <1>1, <1>3
  <2>2. i + 1 = j + 1
    BY <2>1 DEF NoDup
  <2>3. QED
    BY <2>2
<1>5. Elements(r) = Elements(s) \ {s[1]}
  <2>1. \A i \in 1 .. Len(s) - 1 : i + 1 \in 1 .. Len(s) /\ i + 1 # 1 /\ r[i] = s[i + 1]
    BY <1>1, <1>3
  <2>2. \A i \in 1 .. Len(s) - 1 : r[i] \in Elements(s) \ {s[1]}
    BY <1>2, <2>1 DEF Elements, NoDup
  <2>3. \A i \in 1 .. Len(s) : i # 1 => i - 1 \in 1 .. Len(s) - 1 /\ r[i - 1] = s[i]
    BY <1>1, <1>3
  <2>4. \A i \in 1 .. Len(s) : s[i] # s[1] => s[i] \in Elements(r)
    BY <1>1, <1>3, <2>3 DEF Elements
  <2>5. Len(r) = Len(s) - 1
    BY <1>1, <1>3
  <2>6. \A u \in Elements(r) : u \in Elements(s) \ {s[1]}
    BY <2>2, <2>5 DEF Elements
  <2>7. \A u \in Elements(s) \ {s[1]} : u \in Elements(r)
    <3>1. ASSUME NEW u \in Elements(s), u # s[1] PROVE u \in Elements(r)
      <4>1. PICK i \in 1 .. Len(s) : u = s[i]
        BY DEF Elements
      <4>2. QED
        BY <2>4, <3>1, <4>1
    <3>2. QED
      BY <3>1
  <2>8. QED
    BY <2>6, <2>7
<1>6. s[1] \in T /\ s[1] \in Elements(s)
  BY <1>2 DEF Elements
<1>7. QED
  BY <1>1, <1>3, <1>4, <1>5, <1>6

\* CIRCQ_INSERT_HEAD.
LEMMA PushFacts ==
    ASSUME NEW T, NEW s \in Seq(T), NEW x \in T, NoDup(s), x \notin Elements(s)
    PROVE  /\ <<x>> \o s \in Seq(T) /\ NoDup(<<x>> \o s)
           /\ Elements(<<x>> \o s) = Elements(s) \cup {x}
<1> /\ <<x>> \in Seq(T) /\ Len(<<x>>) = 1 /\ <<x>>[1] = x
  OBVIOUS
<1>1. PICK t \in Seq(T) : t = <<x>> /\ Len(t) = 1 /\ t[1] = x
  OBVIOUS
<1>2. NoDup(t) /\ Elements(t) = {x}
  BY <1>1 DEF NoDup, Elements
<1>3. Elements(t) \cap Elements(s) = {}
  BY <1>2
<1>4. t \o s \in Seq(T) /\ NoDup(t \o s) /\ Elements(t \o s) = Elements(t) \cup Elements(s)
  BY <1>2, <1>3, ConcatFacts
<1>5. QED
  BY <1>1, <1>2, <1>4

\* The first of a queue is taken off, and goes nowhere (run), to the end of
\* another queue, or on the wheel.
LEMMA PopEffect ==
    ASSUME ListTypes, ListsOK, NEW q \in Queue, queue[q] # <<>>, NEW t, t = Head(queue[q]),
           queue' = [queue EXCEPT ![q] = Tail(@)], UNCHANGED <<wheel, bucket>>
    PROVE  /\ t \in AnyTo /\ OnList(t, q) /\ ListTypes' /\ ListsOK'
           /\ \A u \in AnyTo, l \in List :
                 OnList(u, l)' <=> OnList(u, l) /\ ~(u = t /\ l = q)
<1>1. PICK s \in Seq(AnyTo) : s = queue[q] /\ NoDup(s) /\ s # <<>>
  BY DEF ListTypes, ListsOK
<1>2. /\ t \in AnyTo /\ t \in Elements(s) /\ Tail(s) \in Seq(AnyTo) /\ NoDup(Tail(s))
      /\ Elements(Tail(s)) = Elements(s) \ {t}
  BY <1>1, HeadFacts
<1>3. PICK r : r = Tail(s)
  OBVIOUS
<1>4. /\ queue' \in [Queue -> Seq(AnyTo)] /\ queue'[q] = r
      /\ \A p \in Queue \ {q} : queue'[p] = queue[p]
  BY <1>1, <1>2, <1>3 DEF ListTypes
<1>5. ListTypes' /\ ListsOK'
  BY <1>2, <1>3, <1>4 DEF ListTypes, ListsOK, BucketSet
<1>6. ASSUME NEW u \in AnyTo, NEW l \in List
      PROVE  OnList(u, l)' <=> OnList(u, l) /\ ~(u = t /\ l = q)
  <2>1. CASE l = "wheel"
    BY <2>1, ListsNamed
  <2>2. CASE l = q
    BY <1>1, <1>2, <1>3, <1>4, <2>2, ListsNamed
  <2>3. CASE l # "wheel" /\ l # q
    BY <1>4, <2>3, ListsNamed
  <2>4. QED
    BY <2>1, <2>2, <2>3
<1>7. q \in List /\ q # "wheel"
  BY DEF List, Queue
<1>8. OnList(t, q)
  BY <1>1, <1>2, <1>7, ListsNamed
<1>9. QED
  BY <1>2, <1>5, <1>6, <1>8

\* softclock() gives the first timeout to a thread.
LEMMA TransferEffect ==
    ASSUME ListTypes, ListsOK, queue["todo"] # <<>>, NEW t, t = Head(queue["todo"]),
           NEW x \in ThreadCtx, ~OnList(t, x), UNCHANGED <<wheel, bucket>>,
           queue' = [[queue EXCEPT !["todo"] = Tail(@)] EXCEPT ![x] = Append(@, t)]
    PROVE  /\ t \in AnyTo /\ OnList(t, "todo") /\ ListTypes' /\ ListsOK'
           /\ \A u \in AnyTo, l \in List :
                 OnList(u, l)' <=> \/ OnList(u, l) /\ ~(u = t /\ l = "todo")
                                   \/ u = t /\ l = x
<1>1. PICK s \in Seq(AnyTo), y \in Seq(AnyTo) :
         s = queue["todo"] /\ NoDup(s) /\ s # <<>> /\ y = queue[x] /\ NoDup(y)
  BY DEF ListTypes, ListsOK, Queue, ThreadCtx
<1>2. /\ t \in AnyTo /\ t \in Elements(s) /\ Tail(s) \in Seq(AnyTo) /\ NoDup(Tail(s))
      /\ Elements(Tail(s)) = Elements(s) \ {t}
  BY <1>1, HeadFacts
<1>3. x \in Queue /\ x # "todo" /\ x # "wheel" /\ x \in List
  BY DEF Queue, ThreadCtx, List
<1>4. t \notin Elements(y)
  BY <1>1, <1>3, ListsNamed
<1>5. Append(y, t) \in Seq(AnyTo) /\ NoDup(Append(y, t)) /\ Elements(Append(y, t)) = Elements(y) \cup {t}
  BY <1>1, <1>2, <1>4, AppendFacts
<1>6. PICK r, z : r = Tail(s) /\ z = Append(y, t)
  OBVIOUS
<1>7. PICK f : f = [queue EXCEPT !["todo"] = r]
  OBVIOUS
<1>8. /\ f \in [Queue -> Seq(AnyTo)] /\ f["todo"] = r
      /\ \A p \in Queue \ {"todo"} : f[p] = queue[p]
  BY <1>2, <1>6, <1>7 DEF ListTypes, Queue
<1>9. queue' = [f EXCEPT ![x] = z]
  BY <1>1, <1>3, <1>6, <1>7, <1>8
<1>10. /\ queue' \in [Queue -> Seq(AnyTo)] /\ queue'["todo"] = r /\ queue'[x] = z
       /\ \A p \in Queue \ {"todo", x} : queue'[p] = queue[p]
  <2>1. z \in Seq(AnyTo) /\ x \in Queue
    BY <1>3, <1>5, <1>6
  <2>2. /\ queue' \in [Queue -> Seq(AnyTo)] /\ queue'[x] = z
        /\ \A p \in Queue \ {x} : queue'[p] = f[p]
    BY <1>8, <1>9, <2>1
  <2>3. "todo" \in Queue \ {x}
    BY <1>3 DEF Queue
  <2>4. QED
    BY <1>8, <2>2, <2>3
<1>11. ListTypes' /\ ListsOK'
  BY <1>2, <1>5, <1>6, <1>10 DEF ListTypes, ListsOK, BucketSet
<1>12. ASSUME NEW u \in AnyTo, NEW l \in List
       PROVE  OnList(u, l)' <=> \/ OnList(u, l) /\ ~(u = t /\ l = "todo")
                                \/ u = t /\ l = x
  <2>1. CASE l = "wheel"
    BY <1>3, <2>1, ListsNamed
  <2>2. CASE l = "todo"
    BY <1>1, <1>2, <1>3, <1>6, <1>10, <2>2, ListsNamed
  <2>3. CASE l = x
    BY <1>1, <1>3, <1>5, <1>6, <1>10, <2>3, ListsNamed
  <2>4. CASE l \notin {"wheel", "todo", x}
    BY <1>10, <2>4, ListsNamed
  <2>5. QED
    BY <2>1, <2>2, <2>3, <2>4
<1>13. OnList(t, "todo")
  BY <1>1, <1>2 DEF OnList
<1>14. QED
  BY <1>2, <1>11, <1>12, <1>13

\* softclock() puts the first timeout on the wheel.
LEMMA InsertEffect ==
    ASSUME ListTypes, ListsOK, queue["todo"] # <<>>, NEW t, t = Head(queue["todo"]),
           ~OnList(t, "wheel"), queue' = [queue EXCEPT !["todo"] = Tail(@)],
           wheel' = Append(wheel, t), NEW b \in BucketSet, bucket' = [bucket EXCEPT ![t] = b]
    PROVE  /\ t \in AnyTo /\ OnList(t, "todo") /\ ListTypes' /\ ListsOK'
           /\ \A u \in AnyTo, l \in List :
                 OnList(u, l)' <=> \/ OnList(u, l) /\ ~(u = t /\ l = "todo")
                                   \/ u = t /\ l = "wheel"
<1>1. PICK s \in Seq(AnyTo) : s = queue["todo"] /\ NoDup(s) /\ s # <<>>
  BY DEF ListTypes, ListsOK, Queue
<1>2. /\ t \in AnyTo /\ t \in Elements(s) /\ Tail(s) \in Seq(AnyTo) /\ NoDup(Tail(s))
      /\ Elements(Tail(s)) = Elements(s) \ {t}
  BY <1>1, HeadFacts
<1>3. wheel \in Seq(AnyTo) /\ NoDup(wheel) /\ t \notin Elements(wheel)
  BY DEF ListTypes, ListsOK, OnList
<1>4. wheel' \in Seq(AnyTo) /\ NoDup(wheel') /\ Elements(wheel') = Elements(wheel) \cup {t}
  BY <1>2, <1>3, AppendFacts
<1>5. PICK r : r = Tail(s)
  OBVIOUS
<1>6. /\ queue' \in [Queue -> Seq(AnyTo)] /\ queue'["todo"] = r
      /\ \A p \in Queue \ {"todo"} : queue'[p] = queue[p]
  BY <1>1, <1>2, <1>5 DEF ListTypes, Queue
<1>7. bucket' \in [AnyTo -> {NIL} \cup BucketSet]
  BY <1>2 DEF ListTypes
<1>8. ListTypes' /\ ListsOK'
  BY <1>2, <1>4, <1>5, <1>6, <1>7 DEF ListTypes, ListsOK, BucketSet
<1>9. ASSUME NEW u \in AnyTo, NEW l \in List
      PROVE  OnList(u, l)' <=> \/ OnList(u, l) /\ ~(u = t /\ l = "todo")
                               \/ u = t /\ l = "wheel"
  <2>1. CASE l = "wheel"
    BY <1>4, <2>1, ListsNamed
  <2>2. CASE l = "todo"
    BY <1>1, <1>2, <1>5, <1>6, <2>2, ListsNamed
  <2>3. CASE l \notin {"wheel", "todo"}
    BY <1>6, <2>3, ListsNamed
  <2>4. QED
    BY <2>1, <2>2, <2>3
<1>10. OnList(t, "todo")
  BY <1>1, <1>2 DEF OnList
<1>11. QED
  BY <1>2, <1>8, <1>9, <1>10

\* A barrier goes to the head of a queue.
LEMMA PushEffect ==
    ASSUME ListTypes, ListsOK, NEW q \in Queue, NEW t \in AnyTo, ~OnList(t, q),
           queue' = [queue EXCEPT ![q] = <<t>> \o @], UNCHANGED <<wheel, bucket>>
    PROVE  /\ ListTypes' /\ ListsOK'
           /\ \A u \in AnyTo, l \in List :
                 OnList(u, l)' <=> OnList(u, l) \/ (u = t /\ l = q)
<1>1. PICK s \in Seq(AnyTo) : s = queue[q] /\ NoDup(s) /\ t \notin Elements(s)
  <2>1. q \in List /\ q # "wheel"
    BY DEF List, Queue
  <2>2. t \notin Elements(queue[q])
    BY <2>1, ListsNamed
  <2>3. QED
    BY <2>2 DEF ListTypes, ListsOK
<1>2. PICK r : r = <<t>> \o s
  OBVIOUS
<1>3. r \in Seq(AnyTo) /\ NoDup(r) /\ Elements(r) = Elements(s) \cup {t}
  BY <1>1, <1>2, PushFacts
<1>4. queue' = [queue EXCEPT ![q] = r]
  BY <1>1, <1>2
<1>5. /\ queue' \in [Queue -> Seq(AnyTo)] /\ queue'[q] = r
      /\ \A p \in Queue \ {q} : queue'[p] = queue[p]
  BY <1>3, <1>4 DEF ListTypes
<1>6. ListTypes' /\ ListsOK'
  BY <1>3, <1>5 DEF ListTypes, ListsOK, BucketSet
<1>7. ASSUME NEW u \in AnyTo, NEW l \in List
      PROVE  OnList(u, l)' <=> OnList(u, l) \/ (u = t /\ l = q)
  <2>1. CASE l = "wheel"
    BY <2>1, ListsNamed
  <2>2. CASE l = q
    BY <1>1, <1>3, <1>5, <2>2, ListsNamed
  <2>3. CASE l # "wheel" /\ l # q
    BY <1>5, <2>3, ListsNamed
  <2>4. QED
    BY <2>1, <2>2, <2>3
<1>8. QED
  BY <1>6, <1>7

-----------------------------------------------------------------------------
(* The invariant.                                                          *)

\* A timeout that is marked is on a list, one that is on a list is marked,
\* and it is on no other.
Marked(t) ==
    /\ "ONQUEUE" \in to_flags[t] => \E l \in List : OnList(t, l)
    /\ \A l \in List : OnList(t, l) =>
          /\ "ONQUEUE" \in to_flags[t]
          /\ \A m \in List \ {l} : ~OnList(t, m)

\* tctx_running says whether the context runs a function.
Busy(x) == tctx_running[x] # NIL <=> tpc[x] \in {"run", "signalled"}

\* The caller sleeps in cond_wait().
Pends(c) == tpc[c] = "wait" /\ ~signalled[c]

\* The lists that its barrier may be on.
Place(c, l) == l = Todo(Flags[arg[c]]) \/ (l = "wheel" /\ Flags[arg[c]] = "si")

\* A barrier is on a list of its context or runs there while its caller
\* waits; and the run the caller is to wait for has not been left.
BarrierOK(c) ==
    /\ tpc[c] \in {"idle", "barrier", "wait", "returned"}
    /\ tpc[c] # "idle" => arg[c] \in To
    /\ \A l \in List : OnList(c, l) => Pends(c) /\ Place(c, l)
    /\ \A x \in Ctx : tctx_running[x] = c /\ tpc[x] = "run" =>
          Pends(c) /\ x = Flags[arg[c]] /\ \A l \in List : ~OnList(c, l)
    /\ awaits[c] # NIL =>
          /\ tpc[c] = "barrier" \/ Pends(c)
          /\ awaits[c] = Flags[arg[c]] /\ tctx_running[awaits[c]] = arg[c]

ClockTypes ==
    /\ load \in Workloads
    /\ ticks \in -INT_MAX - 1 .. INT_MAX
    /\ uptime \in Nat /\ kc_lastscan \in Nat /\ nap \in Nat /\ adds \in Nat
    /\ to_time \in [AnyTo -> Int]
SoftTypes ==
    /\ tctx_running \in [Ctx -> AnyTo \cup {NIL}]
    /\ timeout_mutex \in Ctx \cup {NIL}
    /\ softclock_si \in BOOLEAN
    /\ needs \subseteq ThreadCtx
    /\ tpc \in [Ctx \cup Caller -> TmoPC]
CallerTypes ==
    /\ arg \in [Caller -> To \cup {NIL}]
    /\ signalled \in [Caller -> BOOLEAN]
    /\ awaits \in [Caller -> Ctx \cup {NIL}]
FlagTypes == to_flags \in [AnyTo -> SUBSET {"ONQUEUE", "TRIGGERED"}]

TmoInv ==
    /\ ClockTypes /\ SoftTypes /\ CallerTypes /\ FlagTypes /\ ListTypes
    /\ ListsOK
    /\ \A t \in AnyTo : Marked(t)
    /\ \A x \in Ctx : Busy(x)
    /\ \A c \in Caller : BarrierOK(c)

\* It is what Linked says, and more.
LEMMA InvLinked == TmoInv => Linked
<1> SUFFICES ASSUME TmoInv PROVE Linked
  OBVIOUS
<1>1. TmoTypeOK
  BY DEF TmoInv, TmoTypeOK, ClockTypes, SoftTypes, CallerTypes, FlagTypes, ListTypes, BucketSet
<1>2. ASSUME NEW t \in AnyTo, t \in Caller, "ONQUEUE" \in to_flags[t]
      PROVE  tpc[t] = "wait"
  <2>1. Marked(t) /\ BarrierOK(t)
    BY <1>2 DEF TmoInv
  <2>2. QED
    BY <1>2, <2>1 DEF Marked, BarrierOK, Pends
<1>3. QED
  BY <1>1, <1>2 DEF TmoInv, Linked, ListsOK, Marked

-----------------------------------------------------------------------------
(* What a step leaves alone.                                               *)

\* Contexts, timeouts and callers are different things.
LEMMA Apart ==
    ASSUME NEW c \in Caller
    PROVE  c \in AnyTo /\ c \notin To /\ c \notin Ctx /\ c # NIL /\ c \in Ctx \cup Caller
           /\ \A x \in Ctx : x # NIL /\ x # c /\ x \in Ctx \cup Caller
           /\ \A t \in To : t # NIL /\ t # c /\ t \in AnyTo
  BY TimeoutAssumption DEF AnyTo

\* The mark of a timeout that stays on a list, or stays off them.
LEMMA MarkedKeeps ==
    ASSUME NEW t \in AnyTo, Marked(t), to_flags'[t] = to_flags[t],
           (\E l \in List : OnList(t, l)) <=> (\E l \in List : OnList(t, l)'),
           \A l, m \in List : OnList(t, l)' /\ OnList(t, m)' => l = m
    PROVE  Marked(t)'
  BY DEF Marked

\* The lists are as they were.
LEMMA SameLists ==
    ASSUME TmoInv, UNCHANGED <<queue, wheel, bucket>>
    PROVE  /\ ListTypes' /\ ListsOK'
           /\ \A u \in AnyTo, l \in List : OnList(u, l)' <=> OnList(u, l)
  BY DEF TmoInv, ListTypes, ListsOK, BucketSet, OnList

\* A caller that does not move, and whose barrier is not started.
LEMMA BarrierFrame ==
    ASSUME NEW c \in Caller, BarrierOK(c), tpc'[c] = tpc[c], arg'[c] = arg[c],
           signalled'[c] = signalled[c],
           awaits'[c] = awaits[c] \/ awaits'[c] = NIL,
           \A l \in List : OnList(c, l)' =>
              \/ OnList(c, l)
              \/ l \in {"todo", "wheel"} /\ (OnList(c, "todo") \/ OnList(c, "wheel")),
           \A x \in Ctx : tctx_running'[x] = c /\ tpc'[x] = "run" =>
              tctx_running[x] = c /\ tpc[x] = "run",
           awaits'[c] # NIL => tctx_running'[awaits[c]] = tctx_running[awaits[c]]
    PROVE  BarrierOK(c)'
<1>1. {"todo", "wheel"} \subseteq List
  BY DEF List, Queue
<1>2. Pends(c)' <=> Pends(c)
  BY DEF Pends
<1>3. \A l : Place(c, l)' <=> Place(c, l)
  BY DEF Place, Todo
<1>4. ASSUME NEW l \in List, OnList(c, l)'
      PROVE  Pends(c)' /\ Place(c, l)'
  <2>1. CASE OnList(c, l)
    BY <1>2, <1>3, <2>1 DEF BarrierOK
  <2>2. CASE l \in {"todo", "wheel"} /\ (OnList(c, "todo") \/ OnList(c, "wheel"))
    <3>1. Pends(c) /\ (Place(c, "todo") \/ Place(c, "wheel"))
      BY <1>1, <2>2 DEF BarrierOK
    <3>2. arg[c] \in To
      BY <3>1 DEF Pends, BarrierOK
    <3>3. Flags[arg[c]] = "si"
      BY <3>1, <3>2, TimeoutAssumption DEF Place, Todo, Ctx, Queue
    <3>4. Place(c, l)
      BY <2>2, <3>3 DEF Place, Todo
    <3>5. QED
      BY <1>2, <1>3, <3>1, <3>4
  <2>3. QED
    BY <1>4, <2>1, <2>2
<1>5. ASSUME NEW x \in Ctx, tctx_running'[x] = c, tpc'[x] = "run"
      PROVE  Pends(c)' /\ x = Flags[arg'[c]] /\ \A l \in List : ~OnList(c, l)'
  <2>1. Pends(c) /\ x = Flags[arg[c]] /\ \A l \in List : ~OnList(c, l)
    BY <1>5 DEF BarrierOK
  <2>2. QED
    BY <1>1, <1>2, <2>1
<1>6. ASSUME awaits'[c] # NIL
      PROVE  /\ tpc'[c] = "barrier" \/ Pends(c)'
             /\ awaits'[c] = Flags[arg'[c]] /\ tctx_running'[awaits'[c]] = arg'[c]
  BY <1>2, <1>6 DEF BarrierOK
<1>7. QED
  BY <1>4, <1>5, <1>6 DEF BarrierOK

\* A step of a context between two functions, or of the clock.
LEMMA CalmStep ==
    ASSUME TmoInv, ClockTypes',
           UNCHANGED <<queue, wheel, bucket, to_flags, tctx_running, arg, signalled, awaits>>,
           timeout_mutex' \in Ctx \cup {NIL}, softclock_si' \in BOOLEAN,
           needs' \subseteq ThreadCtx, NEW z \in Ctx, NEW l \in TmoPC \ {"run", "signalled"},
           (tpc' = tpc) \/ (tpc[z] \notin {"run", "signalled"} /\ tpc' = [tpc EXCEPT ![z] = l])
    PROVE  TmoInv'
<1>1. ListTypes' /\ ListsOK' /\ \A u \in AnyTo, k \in List : OnList(u, k)' <=> OnList(u, k)
  BY SameLists
<1>2. SoftTypes' /\ CallerTypes' /\ FlagTypes'
  BY DEF TmoInv, SoftTypes, CallerTypes, FlagTypes
<1>3. ASSUME NEW t \in AnyTo PROVE Marked(t)'
  <2>1. Marked(t)
    BY DEF TmoInv
  <2>2. QED
    BY <1>1, <2>1 DEF Marked
<1>4. ASSUME NEW x \in Ctx PROVE Busy(x)' /\ (tpc'[x] = "run" => tpc[x] = "run")
  BY DEF TmoInv, SoftTypes, Busy
<1>5. ASSUME NEW c \in Caller PROVE BarrierOK(c)'
  <2>1. BarrierOK(c) /\ tpc'[c] = tpc[c]
    BY Apart DEF TmoInv, SoftTypes
  <2>2. QED
    BY <1>1, <1>4, <2>1, Apart, BarrierFrame
<1>6. QED
  BY <1>1, <1>2, <1>3, <1>4, <1>5 DEF TmoInv

-----------------------------------------------------------------------------
(* The steps, one by one.                                                  *)

\* The steps of the contexts between two functions, and tc_setclock().
LEMMA CalmSteps ==
    ASSUME TmoInv,
           \/ tc_setclock
           \/ SoftclockEnd
           \/ SoftclockWake
           \/ \E x \in ThreadCtx :
                 ThreadSetup(x) \/ ThreadSleep(x) \/ ThreadEnter(x) \/ ThreadEnd(x)
    PROVE  TmoInv'
<1> USE DEF clockVars, linkVars, softVars, callerVars, TmoAt, TmoGoto
<1>1. "si" \in Ctx /\ ThreadCtx \subseteq Ctx /\ NIL \notin Ctx
      /\ {"idle", "loop", "wake", "left", "setup", "asleep", "woken"}
            \subseteq TmoPC \ {"run", "signalled"}
  BY TimeoutAssumption DEF Ctx, ThreadCtx, TmoPC
<1>2. ClockTypes /\ SoftTypes
  BY DEF TmoInv
<1>3. CASE tc_setclock
  <2>1. ClockTypes'
    <3>1. PICK adj \in load.adjust : uptime' = uptime + adj /\ nap' = adj
      BY <1>3 DEF tc_setclock
    <3>2. adj \in Nat
      BY <1>2, WorkloadsAssumption DEF ClockTypes
    <3>3. UNCHANGED <<load, ticks, kc_lastscan, to_time, adds>>
      BY <1>3 DEF tc_setclock
    <3>4. QED
      BY <1>2, <3>1, <3>2, <3>3, SpanType DEF ClockTypes
  <2>2. tpc' = tpc /\ UNCHANGED <<queue, wheel, bucket, to_flags, tctx_running, arg,
                                  signalled, awaits, timeout_mutex, softclock_si, needs>>
    BY <1>3 DEF tc_setclock
  <2>3. QED
    BY <1>1, <1>2, <2>1, <2>2, CalmStep DEF SoftTypes
<1>4. CASE \/ SoftclockEnd
           \/ SoftclockWake
           \/ \E x \in ThreadCtx :
                 ThreadSetup(x) \/ ThreadSleep(x) \/ ThreadEnter(x) \/ ThreadEnd(x)
  <2>1. /\ UNCHANGED <<load, ticks, uptime, kc_lastscan, nap, to_time, adds>>
        /\ UNCHANGED <<queue, wheel, bucket, to_flags, tctx_running, arg, signalled, awaits>>
        /\ UNCHANGED softclock_si
    BY <1>4 DEF SoftclockEnd, SoftclockWake, ThreadSetup, ThreadSleep, ThreadEnter, ThreadEnd
  <2>2. ClockTypes'
    BY <1>2, <2>1 DEF ClockTypes
  <2>3. CASE SoftclockEnd
    BY <1>1, <1>2, <2>1, <2>2, <2>3, CalmStep DEF SoftclockEnd, SoftTypes
  <2>4. CASE SoftclockWake
    <3>1. CASE tpc' = tpc
      BY <1>1, <1>2, <2>1, <2>2, <2>4, <3>1, CalmStep DEF SoftclockWake, SoftTypes
    <3>2. CASE tpc' # tpc /\ needs = {}
      BY <1>1, <1>2, <2>1, <2>2, <2>4, <3>2, CalmStep DEF SoftclockWake, SoftTypes
    <3>3. CASE tpc' # tpc /\ needs # {}
      <4>1. PICK x \in needs : /\ needs' = needs \ {x}
                               /\ tpc[x] \in {"setup", "asleep"}
                               /\ tpc' = [tpc EXCEPT ![x] = "woken"]
        BY <2>4, <3>3 DEF SoftclockWake
      <4>2. x \in Ctx /\ needs' \subseteq ThreadCtx
        BY <1>1, <1>2, <4>1 DEF SoftTypes
      <4>3. timeout_mutex' = timeout_mutex
        BY <2>4 DEF SoftclockWake
      <4>4. QED
        BY <1>1, <1>2, <2>1, <2>2, <4>1, <4>2, <4>3, CalmStep DEF SoftTypes
    <3>4. QED
      BY <3>1, <3>2, <3>3
  <2>5. ASSUME NEW x \in ThreadCtx,
               ThreadSetup(x) \/ ThreadSleep(x) \/ ThreadEnter(x) \/ ThreadEnd(x)
        PROVE  TmoInv'
    <3>1. PICK l \in {"setup", "asleep", "woken", "loop", "left"} :
             tpc' = [tpc EXCEPT ![x] = l]
      BY <2>5 DEF ThreadSetup, ThreadSleep, ThreadEnter, ThreadEnd
    <3>2. tpc[x] \notin {"run", "signalled"} /\ x \in Ctx /\ needs' = needs
      BY <1>1, <2>5 DEF ThreadSetup, ThreadSleep, ThreadEnter, ThreadEnd
    <3>3. timeout_mutex' \in Ctx \cup {NIL}
      BY <1>1, <1>2, <2>5 DEF ThreadSetup, ThreadSleep, ThreadEnter, ThreadEnd, SoftTypes
    <3>4. QED
      BY <1>1, <1>2, <2>1, <2>2, <3>1, <3>2, <3>3, CalmStep DEF SoftTypes
  <2>6. QED
    BY <1>4, <2>3, <2>4, <2>5
<1>5. QED
  BY <1>3, <1>4

\* A step that moves timeouts between the lists without running one.
LEMMA MoveStep ==
    ASSUME TmoInv, ClockTypes', SoftTypes', ListTypes', ListsOK',
           UNCHANGED <<to_flags, tctx_running, arg, signalled, awaits>>,
           \A x \in Ctx : tpc'[x] \in {"run", "signalled"} <=> tpc[x] \in {"run", "signalled"},
           \A x \in Ctx : tpc'[x] = "run" => tpc[x] = "run",
           \A c \in Caller : tpc'[c] = tpc[c],
           \A u \in AnyTo : \A l, m \in List : OnList(u, l)' /\ OnList(u, m)' => l = m,
           \A u \in AnyTo : (\E l \in List : OnList(u, l)) <=> (\E l \in List : OnList(u, l)'),
           \A c \in Caller : \A l \in List : OnList(c, l)' =>
              \/ OnList(c, l)
              \/ l \in {"todo", "wheel"} /\ (OnList(c, "todo") \/ OnList(c, "wheel"))
    PROVE  TmoInv'
<1>1. CallerTypes' /\ FlagTypes'
  BY DEF TmoInv, CallerTypes, FlagTypes
<1>2. ASSUME NEW t \in AnyTo PROVE Marked(t)'
  BY MarkedKeeps DEF TmoInv
<1>3. ASSUME NEW x \in Ctx PROVE Busy(x)'
  BY DEF TmoInv, Busy
<1>4. ASSUME NEW c \in Caller PROVE BarrierOK(c)'
  <2>1. BarrierOK(c)
    BY DEF TmoInv
  <2>2. QED
    BY <2>1, BarrierFrame
<1>5. QED
  BY <1>1, <1>2, <1>3, <1>4 DEF TmoInv

\* A timeout is on one list at most.
LEMMA OneList ==
    ASSUME TmoInv, NEW u \in AnyTo, NEW l \in List, NEW m \in List, OnList(u, l), OnList(u, m)
    PROVE  l = m
  BY DEF TmoInv, Marked

\* hardclock() and timeout_adjust_ticks().
LEMMA DumpSteps ==
    ASSUME TmoInv, hardclock \/ timeout_adjust_ticks
    PROVE  TmoInv'
<1> USE DEF clockVars, linkVars, softVars, callerVars
<1>1. PICK b : Dump(b)
  BY DEF hardclock, timeout_adjust_ticks
<1>2. /\ UNCHANGED <<to_flags, tctx_running, timeout_mutex, needs, tpc, arg, signalled,
                     awaits, adds, load>>
      /\ softclock_si' \in BOOLEAN
  BY DEF hardclock, timeout_adjust_ticks, TmoInv, SoftTypes
<1>3. {"todo", "wheel"} \subseteq List
  BY DEF List, Queue
<1>4. \A u \in AnyTo : ~(OnList(u, "todo") /\ OnList(u, "wheel"))
  BY <1>3, OneList
<1>5. /\ ListTypes' /\ ListsOK'
      /\ \A u \in AnyTo, l \in List \ {"todo", "wheel"} : OnList(u, l)' <=> OnList(u, l)
      /\ \A u \in AnyTo :
            /\ OnList(u, "todo") => OnList(u, "todo")'
            /\ OnList(u, "wheel")' => OnList(u, "wheel")
            /\ OnList(u, "wheel") => OnList(u, "todo")' \/ OnList(u, "wheel")'
            /\ OnList(u, "todo")' => OnList(u, "todo") \/ OnList(u, "wheel")
            /\ ~(OnList(u, "todo")' /\ OnList(u, "wheel")')
  BY <1>1, <1>4, DumpEffect DEF TmoInv
<1>6. ClockTypes'
  <2>1. ClockTypes
    BY DEF TmoInv
  <2>2. CASE hardclock
    <3>1. PICK step \in load.steps : uptime' = uptime + step
      BY <2>2 DEF hardclock
    <3>2. step \in Nat
      BY <2>1, WorkloadsAssumption DEF ClockTypes
    <3>3. ticks' = Int32(ticks + 1) /\ kc_lastscan' = uptime' /\ UNCHANGED <<nap, to_time>>
      BY <2>2 DEF hardclock
    <3>4. ticks + 1 \in Int
      BY <2>1, SpanType DEF ClockTypes
    <3>5. Int32(ticks + 1) \in -INT_MAX - 1 .. INT_MAX
      BY <3>4, Int32Type
    <3>6. QED
      BY <1>2, <2>1, <3>1, <3>2, <3>3, <3>5, SpanType DEF ClockTypes
  <2>3. CASE timeout_adjust_ticks
    <3>1. /\ ticks' = Int32(ticks + nap) /\ nap' = 0 /\ UNCHANGED <<uptime, kc_lastscan>>
          /\ to_time' = [t \in AnyTo |->
                IF /\ t \in Elements(wheel) /\ Clock(t) = "none"
                   /\ Int32(to_time[t] - ticks) < nap
                THEN ticks' ELSE to_time[t]]
      BY <2>3 DEF timeout_adjust_ticks
    <3>2. ticks + nap \in Int
      BY <2>1, SpanType DEF ClockTypes
    <3>3. ticks' \in -INT_MAX - 1 .. INT_MAX /\ ticks' \in Int
      BY <3>1, <3>2, Int32Type, SpanType
    <3>4. to_time' \in [AnyTo -> Int]
      BY <2>1, <3>1, <3>3 DEF ClockTypes
    <3>5. QED
      BY <1>2, <2>1, <3>1, <3>3, <3>4 DEF ClockTypes
  <2>4. QED
    BY <2>2, <2>3
<1>7. SoftTypes'
  BY <1>2 DEF TmoInv, SoftTypes
<1>8. \A u \in AnyTo : \A l, m \in List : OnList(u, l)' /\ OnList(u, m)' => l = m
  <2> SUFFICES ASSUME NEW u \in AnyTo, NEW l \in List, NEW m \in List,
                      OnList(u, l)', OnList(u, m)'
               PROVE  l = m
    OBVIOUS
  <2>1. ASSUME NEW k \in List, OnList(u, k)'
        PROVE  \/ k \notin {"todo", "wheel"} /\ OnList(u, k)
               \/ k \in {"todo", "wheel"} /\ (OnList(u, "todo") \/ OnList(u, "wheel"))
    BY <1>5, <2>1
  <2>2. QED
    BY <1>3, <1>5, <2>1, OneList
<1>9. \A u \in AnyTo : (\E l \in List : OnList(u, l)) <=> (\E l \in List : OnList(u, l)')
  BY <1>3, <1>5
<1>10. \A c \in Caller : \A l \in List : OnList(c, l)' =>
          \/ OnList(c, l)
          \/ l \in {"todo", "wheel"} /\ (OnList(c, "todo") \/ OnList(c, "wheel"))
  BY <1>5, Apart
<1>11. QED
  BY <1>2, <1>5, <1>6, <1>7, <1>8, <1>9, <1>10, MoveStep

\* softclock() takes over what is new.
LEMMA SoftclockKeeps ==
    ASSUME TmoInv, softclock
    PROVE  TmoInv'
<1> USE DEF clockVars, linkVars, softVars, callerVars, TmoAt, TmoGoto
<1>1. {"todo", "new", "wheel"} \subseteq List /\ "si" \in Ctx /\ {"loop"} \subseteq TmoPC
  BY DEF List, Queue, Ctx, TmoPC
<1>2. \A u \in AnyTo : ~(OnList(u, "todo") /\ OnList(u, "new"))
  BY <1>1, OneList
<1>3. /\ queue' = [queue EXCEPT !["todo"] = @ \o queue["new"], !["new"] = <<>>]
      /\ UNCHANGED <<wheel, bucket>>
  BY DEF softclock
<1>4. /\ ListTypes' /\ ListsOK'
      /\ \A u \in AnyTo, l \in List :
            OnList(u, l)' <=> /\ l # "new"
                              /\ OnList(u, l) \/ (l = "todo" /\ OnList(u, "new"))
  BY <1>2, <1>3, JoinEffect DEF TmoInv
<1>5. ClockTypes'
  BY DEF TmoInv, ClockTypes, softclock
<1>6. /\ tpc[("si")] = "idle" /\ tpc' = [tpc EXCEPT !["si"] = "loop"]
      /\ softclock_si' = FALSE /\ timeout_mutex' = "si" /\ UNCHANGED <<tctx_running, needs>>
      /\ UNCHANGED <<to_flags, arg, signalled, awaits>>
  BY DEF softclock
<1>7. SoftTypes'
  BY <1>1, <1>6 DEF TmoInv, SoftTypes
<1>8. /\ \A x \in Ctx : tpc'[x] \in {"run", "signalled"} <=> tpc[x] \in {"run", "signalled"}
      /\ \A x \in Ctx : tpc'[x] = "run" => tpc[x] = "run"
      /\ \A c \in Caller : tpc'[c] = tpc[c]
  BY <1>1, <1>6, Apart DEF TmoInv, SoftTypes
<1>9. \A u \in AnyTo : \A l, m \in List : OnList(u, l)' /\ OnList(u, m)' => l = m
  BY <1>1, <1>4, OneList
<1>10. \A u \in AnyTo : (\E l \in List : OnList(u, l)) <=> (\E l \in List : OnList(u, l)')
  BY <1>1, <1>4
<1>11. \A c \in Caller : \A l \in List : OnList(c, l)' => OnList(c, l)
  <2> SUFFICES ASSUME NEW c \in Caller, NEW l \in List, OnList(c, l)'
               PROVE  OnList(c, l)
    OBVIOUS
  <2>1. ~OnList(c, "new")
    <3>1. ASSUME OnList(c, "new") PROVE FALSE
      <4>1. Place(c, "new") /\ arg[c] \in To
        BY <1>1, <3>1 DEF TmoInv, BarrierOK, Pends
      <4>2. QED
        BY <4>1, TimeoutAssumption DEF Place, Todo, Ctx
    <3>2. QED
      BY <3>1
  <2>2. QED
    BY <1>4, <2>1, Apart
<1>12. QED
  BY <1>4, <1>5, <1>6, <1>7, <1>8, <1>9, <1>10, <1>11, MoveStep

\* The first of a list is run: the list is that of the context, so that a
\* barrier runs where its caller expects it.
LEMMA RunKeeps ==
    ASSUME TmoInv, NEW x \in Ctx, tpc[x] = "loop", NEW q \in Queue, q = Todo(x),
           queue[q] # <<>>, NEW t, t = Head(queue[q]), timeout_run(x, t),
           queue' = [queue EXCEPT ![q] = Tail(@)],
           UNCHANGED <<clockVars, wheel, bucket, to_time, softclock_si, needs, callerVars, adds>>
    PROVE  TmoInv'
<1> USE DEF clockVars, linkVars, softVars, callerVars, TmoGoto
<1>1. q \in List
  BY DEF List
<1>2. /\ t \in AnyTo /\ OnList(t, q) /\ ListTypes' /\ ListsOK'
      /\ \A u \in AnyTo, l \in List : OnList(u, l)' <=> OnList(u, l) /\ ~(u = t /\ l = q)
  BY PopEffect DEF TmoInv
<1>3. /\ to_flags' = [to_flags EXCEPT ![t] = {"TRIGGERED"}]
      /\ tctx_running' = [tctx_running EXCEPT ![x] = t]
      /\ timeout_mutex' = NIL /\ tpc' = [tpc EXCEPT ![x] = "run"]
  BY DEF timeout_run
<1>4. ClockTypes' /\ CallerTypes'
  BY DEF TmoInv, ClockTypes, CallerTypes
<1>5. FlagTypes' /\ to_flags'[t] = {"TRIGGERED"}
      /\ \A u \in AnyTo \ {t} : to_flags'[u] = to_flags[u]
  BY <1>2, <1>3 DEF TmoInv, FlagTypes
<1>6. /\ tctx_running' \in [Ctx -> AnyTo \cup {NIL}] /\ tctx_running'[x] = t
      /\ \A y \in Ctx \ {x} : tctx_running'[y] = tctx_running[y]
  BY <1>2, <1>3 DEF TmoInv, SoftTypes
<1>7. /\ tpc' \in [Ctx \cup Caller -> TmoPC] /\ tpc'[x] = "run"
      /\ \A y \in Ctx \ {x} : tpc'[y] = tpc[y]
      /\ \A c \in Caller : tpc'[c] = tpc[c]
  BY <1>3, Apart DEF TmoInv, SoftTypes, TmoPC
<1>8. SoftTypes'
  BY <1>3, <1>6, <1>7 DEF TmoInv, SoftTypes
<1>9. \A l \in List : ~OnList(t, l)'
  BY <1>1, <1>2, OneList
<1>10. ASSUME NEW u \in AnyTo PROVE Marked(u)'
  <2>1. CASE u = t
    BY <1>5, <1>9, <2>1 DEF Marked
  <2>2. CASE u # t
    BY <1>2, <1>5, <2>2 DEF TmoInv, Marked
  <2>3. QED
    BY <2>1, <2>2
<1>11. tctx_running[x] = NIL
  BY DEF TmoInv, Busy
<1>12. ASSUME NEW y \in Ctx PROVE Busy(y)'
  <2>1. t # NIL
    BY <1>2, TimeoutAssumption
  <2>2. QED
    BY <1>6, <1>7, <2>1 DEF TmoInv, Busy
<1>13. ASSUME NEW c \in Caller PROVE BarrierOK(c)'
  <2>1. BarrierOK(c) /\ UNCHANGED <<arg, signalled, awaits>>
    BY DEF TmoInv
  <2>2. awaits[c] # NIL => awaits[c] \in Ctx /\ awaits[c] # x
    <3>1. awaits[c] # NIL => awaits[c] \in Ctx /\ arg[c] \in To
      BY <2>1 DEF TmoInv, CallerTypes, BarrierOK, Pends
    <3>2. QED
      BY <1>11, <2>1, <3>1, Apart DEF BarrierOK
  <2>3. CASE c # t
    BY <1>2, <1>6, <1>7, <2>1, <2>2, <2>3, Apart, BarrierFrame
  <2>4. CASE c = t
    <3>1. Pends(c) /\ Place(c, q) /\ arg[c] \in To
      BY <1>1, <1>2, <2>1, <2>4 DEF BarrierOK, Pends
    <3>2. Flags[arg[c]] = x
      BY <3>1, TimeoutAssumption DEF Place, Todo, Ctx, Queue
    <3>3. Pends(c)' /\ arg'[c] = arg[c]
      BY <1>7, <2>1, <3>1 DEF Pends
    <3>4. ASSUME NEW y \in Ctx, tctx_running'[y] = c, tpc'[y] = "run" PROVE y = x
      <4>1. CASE y # x
        <5>1. tctx_running[y] = c /\ tpc[y] = "run"
          BY <1>6, <1>7, <3>4, <4>1
        <5>2. y = Flags[arg[c]]
          BY <2>1, <5>1 DEF BarrierOK
        <5>3. QED
          BY <3>2, <5>2
      <4>2. QED
        BY <4>1
    <3>5. awaits'[c] = NIL
      BY <2>1, <2>2, <3>2 DEF BarrierOK
    <3>6. tpc'[c] = "wait"
      BY <3>3 DEF Pends
    <3>7. QED
      BY <1>9, <2>4, <3>1, <3>2, <3>3, <3>4, <3>5, <3>6 DEF BarrierOK
  <2>5. QED
    BY <2>3, <2>4
<1>14. QED
  BY <1>2, <1>4, <1>5, <1>8, <1>10, <1>12, <1>13 DEF TmoInv

\* What a timeout has left is a number.
LEMMA LeftType ==
    ASSUME ClockTypes, NEW t \in AnyTo
    PROVE  Left(t) \in Int /\ to_time[t] \in Int
<1>1. to_time[t] \in Int /\ ticks \in Int /\ kc_lastscan \in Int
  BY SpanType DEF ClockTypes
<1>2. to_time[t] - ticks \in Int /\ to_time[t] - kc_lastscan \in Int
  BY <1>1
<1>3. Int32(to_time[t] - ticks) \in Int
  BY <1>2, Int32Type, SpanType
<1>4. QED
  BY <1>1, <1>2, <1>3 DEF Left

\* The loop of softclock().
LEMMA SoftclockNextKeeps ==
    ASSUME TmoInv, SoftclockNext
    PROVE  TmoInv'
<1> USE DEF clockVars, linkVars, softVars, callerVars, TmoAt
<1>1. PICK t : t = Head(queue["todo"])
  OBVIOUS
<1>2. /\ "todo" \in Queue /\ {"todo", "wheel"} \subseteq List /\ "si" \in Ctx
      /\ Todo("si") = "todo" /\ ThreadCtx \subseteq List \ {"todo", "wheel"}
  BY DEF Queue, List, Ctx, Todo, ThreadCtx
<1>3. /\ tpc["si"] = "loop" /\ queue["todo"] # <<>>
      /\ UNCHANGED <<clockVars, to_time, softclock_si, needs, callerVars, adds>>
      /\ \/ /\ Left(t) > 0
            /\ queue' = [queue EXCEPT !["todo"] = Tail(@)]
            /\ wheel' = Append(wheel, t)
            /\ bucket' = [bucket EXCEPT ![t] =
                  IF Clock(t) = "none" THEN BUCKET(Left(t), to_time[t])
                  ELSE timeout_bucket(to_time[t])]
            /\ UNCHANGED <<to_flags, tctx_running, timeout_mutex, tpc>>
         \/ /\ Context(t) \in ThreadCtx
            /\ queue' = [[queue EXCEPT !["todo"] = Tail(@)] EXCEPT ![Context(t)] = Append(@, t)]
            /\ UNCHANGED <<wheel, bucket, to_flags, tctx_running, timeout_mutex, tpc>>
         \/ /\ queue' = [queue EXCEPT !["todo"] = Tail(@)]
            /\ timeout_run("si", t)
            /\ UNCHANGED <<wheel, bucket>>
  BY <1>1 DEF SoftclockNext
<1>4. t \in AnyTo /\ OnList(t, "todo") /\ \A m \in List \ {"todo"} : ~OnList(t, m)
  <2>1. PICK s \in Seq(AnyTo) : s = queue["todo"] /\ NoDup(s) /\ s # <<>>
    BY <1>2, <1>3 DEF TmoInv, ListTypes, ListsOK
  <2>2. t \in AnyTo /\ t \in Elements(s)
    BY <1>1, <2>1, HeadFacts
  <2>3. OnList(t, "todo")
    BY <2>1, <2>2 DEF OnList
  <2>4. QED
    BY <1>2, <2>2, <2>3, OneList
<1>5. ClockTypes' /\ ClockTypes
  BY <1>3 DEF TmoInv, ClockTypes
<1>6. ASSUME NEW d \in List \ {"todo"}, ListTypes', ListsOK',
             d = "wheel" \/ t \notin Caller,
             UNCHANGED <<to_flags, tctx_running, timeout_mutex, tpc>>,
             \A u \in AnyTo, l \in List :
                OnList(u, l)' <=> \/ OnList(u, l) /\ ~(u = t /\ l = "todo")
                                  \/ u = t /\ l = d
      PROVE  TmoInv'
  <2>1. SoftTypes'
    BY <1>3, <1>6 DEF TmoInv, SoftTypes
  <2>2. \A u \in AnyTo : \A l, m \in List : OnList(u, l)' /\ OnList(u, m)' => l = m
    BY <1>4, <1>6, OneList
  <2>3. \A u \in AnyTo : (\E l \in List : OnList(u, l)) <=> (\E l \in List : OnList(u, l)')
    <3>1. ASSUME NEW u \in AnyTo
          PROVE  (\E l \in List : OnList(u, l)) <=> (\E l \in List : OnList(u, l)')
      <4>1. CASE u = t
        BY <1>2, <1>4, <1>6, <4>1
      <4>2. CASE u # t
        BY <1>6, <4>2
      <4>3. QED
        BY <4>1, <4>2
    <3>2. QED
      BY <3>1
  <2>4. \A c \in Caller : \A l \in List : OnList(c, l)' =>
           \/ OnList(c, l)
           \/ l \in {"todo", "wheel"} /\ (OnList(c, "todo") \/ OnList(c, "wheel"))
    BY <1>4, <1>6, Apart
  <2>5. QED
    BY <1>3, <1>5, <1>6, <2>1, <2>2, <2>3, <2>4, MoveStep
<1>7. CASE /\ queue' = [queue EXCEPT !["todo"] = Tail(@)] /\ wheel' = Append(wheel, t)
           /\ bucket' = [bucket EXCEPT ![t] =
                 IF Clock(t) = "none" THEN BUCKET(Left(t), to_time[t])
                 ELSE timeout_bucket(to_time[t])]
           /\ UNCHANGED <<to_flags, tctx_running, timeout_mutex, tpc>>
  <2>1. Left(t) \in Int /\ to_time[t] \in Int
    BY <1>4, <1>5, LeftType
  <2>2. PICK b \in BucketSet : bucket' = [bucket EXCEPT ![t] = b]
    BY <1>7, <2>1, BUCKETType
  <2>3. /\ ListTypes' /\ ListsOK'
        /\ \A u \in AnyTo, l \in List :
              OnList(u, l)' <=> \/ OnList(u, l) /\ ~(u = t /\ l = "todo")
                                \/ u = t /\ l = "wheel"
    BY <1>1, <1>2, <1>3, <1>4, <1>7, <2>2, InsertEffect DEF TmoInv
  <2>4. QED
    BY <1>2, <1>6, <1>7, <2>3
<1>8. CASE /\ Context(t) \in ThreadCtx
           /\ queue' = [[queue EXCEPT !["todo"] = Tail(@)] EXCEPT ![Context(t)] = Append(@, t)]
           /\ UNCHANGED <<wheel, bucket, to_flags, tctx_running, timeout_mutex, tpc>>
  <2>1. PICK x \in ThreadCtx : x = Context(t)
    BY <1>8
  <2>2. x \in List \ {"todo"} /\ ~OnList(t, x)
    BY <1>2, <1>4
  <2>3. /\ ListTypes' /\ ListsOK'
        /\ \A u \in AnyTo, l \in List :
              OnList(u, l)' <=> \/ OnList(u, l) /\ ~(u = t /\ l = "todo")
                                \/ u = t /\ l = x
    <3>1. /\ queue' = [[queue EXCEPT !["todo"] = Tail(@)] EXCEPT ![x] = Append(@, t)]
          /\ UNCHANGED <<wheel, bucket>>
      BY <1>8, <2>1
    <3>2. ListTypes /\ ListsOK /\ queue["todo"] # <<>>
      BY <1>3 DEF TmoInv
    <3>3. QED
      BY <1>1, <2>2, <3>1, <3>2, TransferEffect
  <2>4. t \notin Caller
    <3>1. ASSUME t \in Caller PROVE FALSE
      <4>1. Place(t, "todo") /\ arg[t] \in To
        BY <1>2, <1>4, <3>1 DEF TmoInv, BarrierOK, Pends
      <4>2. Flags[arg[t]] = "si"
        BY <4>1, TimeoutAssumption DEF Place, Todo, Ctx
      <4>3. Context(t) = "si"
        BY <3>1, <4>2, Apart DEF Context
      <4>4. QED
        BY <1>8, <4>3 DEF ThreadCtx
    <3>2. QED
      BY <3>1
  <2>5. QED
    BY <1>6, <1>8, <2>2, <2>3, <2>4
<1>9. CASE /\ queue' = [queue EXCEPT !["todo"] = Tail(@)] /\ timeout_run("si", t)
           /\ UNCHANGED <<wheel, bucket>>
  BY <1>1, <1>2, <1>3, <1>9, RunKeeps
<1>10. QED
  BY <1>3, <1>7, <1>8, <1>9

\* The loop of a softclock thread.
LEMMA ThreadNextKeeps ==
    ASSUME TmoInv, NEW x \in ThreadCtx, ThreadNext(x)
    PROVE  TmoInv'
<1>1. x \in Ctx /\ x \in Queue /\ Todo(x) = x
  BY DEF ThreadCtx, Ctx, Queue, Todo
<1>2. QED
  BY <1>1, RunKeeps DEF ThreadNext, TmoAt

\* The function of a barrier: the caller is signalled, its barrier is gone.
LEMMA BarrierSignalKeeps ==
    ASSUME TmoInv, NEW x \in Ctx, BarrierSignal(x)
    PROVE  TmoInv'
<1> USE DEF clockVars, linkVars, softVars, callerVars, TmoAt, TmoGoto
<1>1. PICK d \in Caller : d = tctx_running[x]
  BY DEF BarrierSignal
<1>2. /\ tpc[x] = "run" /\ tpc' = [tpc EXCEPT ![x] = "signalled"]
      /\ signalled' = [signalled EXCEPT ![d] = TRUE]
      /\ UNCHANGED <<load, ticks, uptime, kc_lastscan, nap, queue, wheel, bucket, to_time,
                     to_flags, tctx_running, timeout_mutex, softclock_si, needs, arg, awaits, adds>>
  BY <1>1 DEF BarrierSignal
<1>3. ListTypes' /\ ListsOK' /\ \A u \in AnyTo, k \in List : OnList(u, k)' <=> OnList(u, k)
  BY <1>2, SameLists
<1>4. /\ tpc' \in [Ctx \cup Caller -> TmoPC] /\ tpc'[x] = "signalled"
      /\ \A y \in Ctx \ {x} : tpc'[y] = tpc[y]
      /\ \A c \in Caller : tpc'[c] = tpc[c]
  BY <1>2, Apart DEF TmoInv, SoftTypes, TmoPC
<1>5. ClockTypes' /\ SoftTypes' /\ FlagTypes'
  BY <1>2, <1>4 DEF TmoInv, ClockTypes, SoftTypes, FlagTypes
<1>6. CallerTypes' /\ signalled'[d] = TRUE /\ \A c \in Caller \ {d} : signalled'[c] = signalled[c]
  BY <1>2 DEF TmoInv, CallerTypes
<1>7. ASSUME NEW t \in AnyTo PROVE Marked(t)'
  <2>1. Marked(t) /\ to_flags' = to_flags
    BY <1>2 DEF TmoInv
  <2>2. QED
    BY <1>3, <2>1 DEF Marked
<1>8. ASSUME NEW y \in Ctx PROVE Busy(y)'
  BY <1>2, <1>4 DEF TmoInv, Busy
<1>9. ASSUME NEW c \in Caller PROVE BarrierOK(c)'
  <2>1. BarrierOK(c)
    BY DEF TmoInv
  <2>2. CASE c # d
    BY <1>2, <1>3, <1>4, <1>6, <2>1, <2>2, Apart, BarrierFrame
  <2>3. CASE c = d
    <3>1. Pends(c) /\ x = Flags[arg[c]] /\ \A l \in List : ~OnList(c, l)
      BY <1>1, <1>2, <2>1, <2>3 DEF BarrierOK
    <3>2. tpc[c] = "wait" /\ arg[c] \in To
      BY <2>1, <3>1 DEF Pends, BarrierOK
    <3>3. awaits[c] = NIL
      <4>1. ASSUME awaits[c] # NIL PROVE FALSE
        <5>1. tctx_running[x] = arg[c]
          BY <2>1, <3>1, <4>1 DEF BarrierOK
        <5>2. QED
          BY <1>1, <3>2, <5>1, Apart
      <4>2. QED
        BY <4>1
    <3>4. ASSUME NEW y \in Ctx, tctx_running'[y] = c, tpc'[y] = "run" PROVE FALSE
      <4>1. y # x
        BY <1>4, <3>4
      <4>2. tctx_running[y] = c /\ tpc[y] = "run"
        BY <1>2, <1>4, <3>4, <4>1
      <4>3. QED
        BY <2>1, <3>1, <4>1, <4>2 DEF BarrierOK
    <3>5. /\ \A l \in List : ~OnList(c, l)'
          /\ tpc'[c] = "wait" /\ arg'[c] \in To /\ awaits'[c] = NIL
      BY <1>2, <1>3, <1>4, <3>1, <3>2, <3>3, Apart
    <3>6. QED
      BY <3>4, <3>5 DEF BarrierOK
  <2>4. QED
    BY <2>2, <2>3
<1>10. QED
  BY <1>3, <1>5, <1>6, <1>7, <1>8, <1>9 DEF TmoInv

\* The function has returned.
LEMMA RunDoneKeeps ==
    ASSUME TmoInv, NEW x \in Ctx, RunDone(x)
    PROVE  TmoInv'
<1> USE DEF clockVars, linkVars, softVars, callerVars, TmoAt, TmoGoto
<1>1. /\ tpc[x] \in {"run", "signalled"} /\ tpc' = [tpc EXCEPT ![x] = "loop"]
      /\ timeout_mutex' = x
      /\ tctx_running' = [tctx_running EXCEPT ![x] = NIL]
      /\ awaits' = [c \in Caller |-> IF awaits[c] = x THEN NIL ELSE awaits[c]]
      /\ UNCHANGED <<load, ticks, uptime, kc_lastscan, nap, queue, wheel, bucket, to_time,
                     to_flags, softclock_si, needs, arg, signalled, adds>>
  BY DEF RunDone
<1>2. ListTypes' /\ ListsOK' /\ \A u \in AnyTo, k \in List : OnList(u, k)' <=> OnList(u, k)
  BY <1>1, SameLists
<1>3. /\ tpc' \in [Ctx \cup Caller -> TmoPC] /\ tpc'[x] = "loop"
      /\ \A y \in Ctx \ {x} : tpc'[y] = tpc[y]
      /\ \A c \in Caller : tpc'[c] = tpc[c]
  BY <1>1, Apart DEF TmoInv, SoftTypes, TmoPC
<1>4. /\ tctx_running' \in [Ctx -> AnyTo \cup {NIL}] /\ tctx_running'[x] = NIL
      /\ \A y \in Ctx \ {x} : tctx_running'[y] = tctx_running[y]
  BY <1>1 DEF TmoInv, SoftTypes
<1>5. ClockTypes' /\ SoftTypes' /\ FlagTypes'
  BY <1>1, <1>3, <1>4 DEF TmoInv, ClockTypes, SoftTypes, FlagTypes
<1>6. CallerTypes' /\ \A c \in Caller : awaits'[c] = IF awaits[c] = x THEN NIL ELSE awaits[c]
  BY <1>1 DEF TmoInv, CallerTypes
<1>7. ASSUME NEW t \in AnyTo PROVE Marked(t)'
  <2>1. Marked(t) /\ to_flags' = to_flags
    BY <1>1 DEF TmoInv
  <2>2. QED
    BY <1>2, <2>1 DEF Marked
<1>8. ASSUME NEW y \in Ctx PROVE Busy(y)'
  BY <1>3, <1>4 DEF TmoInv, Busy
<1>9. ASSUME NEW c \in Caller PROVE BarrierOK(c)'
  <2>1. BarrierOK(c) /\ awaits[c] \in Ctx \cup {NIL}
    BY DEF TmoInv, CallerTypes
  <2>2. awaits'[c] = awaits[c] \/ awaits'[c] = NIL
    BY <1>6
  <2>3. awaits'[c] # NIL => tctx_running'[awaits[c]] = tctx_running[awaits[c]]
    BY <1>4, <1>6, <2>1
  <2>4. \A y \in Ctx : tctx_running'[y] = c /\ tpc'[y] = "run" =>
           tctx_running[y] = c /\ tpc[y] = "run"
    BY <1>3, <1>4
  <2>5. QED
    BY <1>1, <1>2, <1>3, <2>1, <2>2, <2>3, <2>4, Apart, BarrierFrame
<1>10. QED
  BY <1>2, <1>5, <1>6, <1>7, <1>8, <1>9 DEF TmoInv

\* The times that timeout_add() and timeout_abs_ts() are called with.
LEMMA TimesType ==
    ASSUME ClockTypes, NEW t \in To, NEW time \in Times(t)
    PROVE  time \in Int
<1>1. load.ticks \subseteq Nat /\ load.abs \subseteq Nat
  BY WorkloadsAssumption DEF ClockTypes
<1>2. CASE Kclock[t] = "none"
  <2>1. PICK r \in load.ticks : time = Int32(ticks + r)
    BY <1>2 DEF Times
  <2>2. ticks + r \in Int
    BY <1>1, SpanType DEF ClockTypes
  <2>3. QED
    BY <2>1, <2>2, Int32Type, SpanType
<1>3. CASE Kclock[t] # "none"
  BY <1>1, <1>3 DEF Times
<1>4. QED
  BY <1>2, <1>3

\* timeout_add() and timeout_abs_ts().
LEMMA AddKeeps ==
    ASSUME TmoInv, NEW b, NEW t \in To, timeout_add(b, t)
    PROVE  TmoInv'
<1> USE DEF clockVars, linkVars, softVars, callerVars
<1>1. PICK time \in Times(t) : Schedule(t, time)
  BY DEF timeout_add
<1>2. /\ adds > 0 /\ adds' = adds - 1
      /\ UNCHANGED <<load, ticks, uptime, kc_lastscan, nap, tctx_running, timeout_mutex,
                     softclock_si, needs, tpc, arg, signalled, awaits>>
  BY DEF timeout_add
<1>3. /\ to_time' = [to_time EXCEPT ![t] = time]
      /\ to_flags' = [to_flags EXCEPT ![t] = {"ONQUEUE"}]
      /\ \/ MoveToNew(t)
         \/ "ONQUEUE" \in to_flags[t] /\ UNCHANGED <<queue, wheel, bucket>>
  BY <1>1 DEF Schedule
<1>4. t \in AnyTo /\ \A c \in Caller : c # t /\ c \in AnyTo
  BY Apart DEF AnyTo
<1>5. ClockTypes'
  <2>1. ClockTypes /\ time \in Int
    BY <1>1, TimesType DEF TmoInv
  <2>2. to_time' \in [AnyTo -> Int]
    BY <1>3, <1>4, <2>1 DEF ClockTypes
  <2>3. QED
    BY <1>2, <2>1, <2>2 DEF ClockTypes
<1>6. SoftTypes' /\ CallerTypes'
  BY <1>2 DEF TmoInv, SoftTypes, CallerTypes
<1>7. FlagTypes' /\ to_flags'[t] = {"ONQUEUE"}
      /\ \A u \in AnyTo \ {t} : to_flags'[u] = to_flags[u]
  BY <1>3, <1>4 DEF TmoInv, FlagTypes
<1>8. /\ ListTypes' /\ ListsOK'
      /\ \A u \in AnyTo \ {t}, l \in List : OnList(u, l)' <=> OnList(u, l)
      /\ \E l \in List : OnList(t, l)'
      /\ \A l, m \in List : OnList(t, l)' /\ OnList(t, m)' => l = m
  <2>1. CASE MoveToNew(t)
    <3>1. /\ ListTypes' /\ ListsOK'
          /\ \A u \in AnyTo, l \in List :
                OnList(u, l)' <=> (OnList(u, l) /\ u # t) \/ (u = t /\ l = "new")
      BY <1>4, <2>1, MoveToNewEffect DEF TmoInv
    <3>2. "new" \in List
      BY DEF List, Queue
    <3>3. QED
      BY <1>4, <3>1, <3>2
  <2>2. CASE "ONQUEUE" \in to_flags[t] /\ UNCHANGED <<queue, wheel, bucket>>
    <3>1. ListTypes' /\ ListsOK' /\ \A u \in AnyTo, k \in List : OnList(u, k)' <=> OnList(u, k)
      BY <2>2, SameLists
    <3>2. \E l \in List : OnList(t, l)
      BY <1>4, <2>2 DEF TmoInv, Marked
    <3>3. QED
      BY <1>4, <3>1, <3>2, OneList
  <2>3. QED
    BY <1>3, <2>1, <2>2
<1>9. ASSUME NEW u \in AnyTo PROVE Marked(u)'
  <2>1. CASE u = t
    BY <1>7, <1>8, <2>1 DEF Marked
  <2>2. CASE u # t
    BY <1>7, <1>8, <2>2 DEF TmoInv, Marked
  <2>3. QED
    BY <2>1, <2>2
<1>10. ASSUME NEW y \in Ctx PROVE Busy(y)'
  BY <1>2 DEF TmoInv, Busy
<1>11. ASSUME NEW c \in Caller PROVE BarrierOK(c)'
  <2>1. BarrierOK(c)
    BY DEF TmoInv
  <2>2. QED
    BY <1>2, <1>4, <1>8, <2>1, BarrierFrame
<1>12. QED
  BY <1>5, <1>6, <1>7, <1>8, <1>9, <1>10, <1>11 DEF TmoInv

\* A step of one caller, whose barrier is shown to be as it should.
LEMMA CallerStep ==
    ASSUME TmoInv, ClockTypes', CallerTypes', FlagTypes', ListTypes', ListsOK',
           UNCHANGED <<tctx_running, timeout_mutex, softclock_si, needs>>,
           NEW c \in Caller, NEW pc \in TmoPC, tpc' = [tpc EXCEPT ![c] = pc],
           \A t \in AnyTo : Marked(t)',
           \A d \in Caller \ {c} :
              arg'[d] = arg[d] /\ signalled'[d] = signalled[d] /\ awaits'[d] = awaits[d],
           \A d \in Caller \ {c} : \A l \in List : OnList(d, l)' => OnList(d, l),
           BarrierOK(c)'
    PROVE  TmoInv'
<1>1. /\ tpc' \in [Ctx \cup Caller -> TmoPC]
      /\ \A y \in Ctx : tpc'[y] = tpc[y]
      /\ \A d \in Caller \ {c} : tpc'[d] = tpc[d]
  BY Apart DEF TmoInv, SoftTypes
<1>2. SoftTypes'
  BY <1>1 DEF TmoInv, SoftTypes
<1>3. ASSUME NEW y \in Ctx PROVE Busy(y)'
  BY <1>1 DEF TmoInv, Busy
<1>4. ASSUME NEW d \in Caller PROVE BarrierOK(d)'
  <2>1. CASE d = c
    BY <2>1
  <2>2. CASE d # c
    <3>1. BarrierOK(d)
      BY DEF TmoInv
    <3>2. QED
      BY <1>1, <2>2, <3>1, BarrierFrame
  <2>3. QED
    BY <2>1, <2>2
<1>5. QED
  BY <1>2, <1>3, <1>4 DEF TmoInv

\* A caller whose barrier is neither queued nor running.
LEMMA Clear ==
    ASSUME TmoInv, NEW c \in Caller, ~Pends(c)
    PROVE  /\ \A l \in List : ~OnList(c, l)
           /\ \A x \in Ctx : ~(tctx_running[x] = c /\ tpc[x] = "run")
  BY DEF TmoInv, BarrierOK

\* timeout_del().
LEMMA DelKeeps ==
    ASSUME TmoInv, NEW c \in Caller, NEW t \in To, timeout_del(c, t)
    PROVE  TmoInv'
<1> USE DEF clockVars, linkVars, softVars, callerVars, TmoAt, TmoGoto
<1>1. /\ tpc[c] = "idle" /\ tpc' = [tpc EXCEPT ![c] = "barrier"]
      /\ to_flags' = [to_flags EXCEPT ![t] = {}]
      /\ \/ Unlink(t)
         \/ "ONQUEUE" \notin to_flags[t] /\ UNCHANGED <<queue, wheel, bucket>>
      /\ arg' = [arg EXCEPT ![c] = t]
      /\ awaits' = [awaits EXCEPT ![c] = IF tctx_running[Flags[t]] = t THEN Flags[t] ELSE NIL]
      /\ UNCHANGED <<load, ticks, uptime, kc_lastscan, nap, to_time, tctx_running,
                     timeout_mutex, softclock_si, needs, signalled, adds>>
  BY DEF timeout_del
<1>2. t \in AnyTo /\ Flags[t] \in Ctx /\ \A d \in Caller : d # t /\ d \in AnyTo
  BY Apart, TimeoutAssumption DEF AnyTo
<1>3. ClockTypes'
  BY <1>1 DEF TmoInv, ClockTypes
<1>4. PICK w \in Ctx \cup {NIL} :
         w = (IF tctx_running[Flags[t]] = t THEN Flags[t] ELSE NIL)
  BY <1>2
<1>5. /\ CallerTypes' /\ arg'[c] = t /\ awaits'[c] = w
      /\ \A d \in Caller \ {c} : arg'[d] = arg[d] /\ awaits'[d] = awaits[d]
  BY <1>1, <1>4 DEF TmoInv, CallerTypes
<1>6. FlagTypes' /\ to_flags'[t] = {} /\ \A u \in AnyTo \ {t} : to_flags'[u] = to_flags[u]
  BY <1>1, <1>2 DEF TmoInv, FlagTypes
<1>7. /\ ListTypes' /\ ListsOK'
      /\ \A u \in AnyTo \ {t}, l \in List : OnList(u, l)' <=> OnList(u, l)
      /\ \A l \in List : ~OnList(t, l)'
  <2>1. CASE Unlink(t)
    <3>1. /\ ListTypes' /\ ListsOK'
          /\ \A u \in AnyTo, l \in List : OnList(u, l)' <=> OnList(u, l) /\ u # t
      BY <1>2, <2>1, UnlinkEffect DEF TmoInv
    <3>2. QED
      BY <1>2, <3>1
  <2>2. CASE "ONQUEUE" \notin to_flags[t] /\ UNCHANGED <<queue, wheel, bucket>>
    <3>1. ListTypes' /\ ListsOK' /\ \A u \in AnyTo, k \in List : OnList(u, k)' <=> OnList(u, k)
      BY <2>2, SameLists
    <3>2. \A l \in List : ~OnList(t, l)
      BY <1>2, <2>2 DEF TmoInv, Marked
    <3>3. QED
      BY <1>2, <3>1, <3>2
  <2>3. QED
    BY <1>1, <2>1, <2>2
<1>8. ASSUME NEW u \in AnyTo PROVE Marked(u)'
  <2>1. CASE u = t
    BY <1>6, <1>7, <2>1 DEF Marked
  <2>2. CASE u # t
    BY <1>6, <1>7, <2>2 DEF TmoInv, Marked
  <2>3. QED
    BY <2>1, <2>2
<1>9. tpc'[c] = "barrier" /\ "barrier" \in TmoPC /\ \A y \in Ctx : tpc'[y] = tpc[y]
  BY <1>1, Apart DEF TmoInv, SoftTypes, TmoPC
<1>10. BarrierOK(c)'
  <2>1. /\ \A l \in List : ~OnList(c, l)'
        /\ \A x \in Ctx : ~(tctx_running'[x] = c /\ tpc'[x] = "run")
    <3>1. ~Pends(c)
      BY <1>1 DEF Pends
    <3>2. QED
      BY <1>1, <1>2, <1>7, <1>9, <3>1, Clear
  <2>2. awaits'[c] # NIL => awaits'[c] = Flags[arg'[c]] /\ tctx_running'[awaits'[c]] = arg'[c]
    BY <1>1, <1>4, <1>5
  <2>3. QED
    BY <1>5, <1>9, <2>1, <2>2 DEF BarrierOK
<1>11. \A d \in Caller \ {c} : \A l \in List : OnList(d, l)' => OnList(d, l)
  BY <1>2, <1>7
<1>12. QED
  BY <1>1, <1>3, <1>5, <1>6, <1>7, <1>8, <1>9, <1>10, <1>11, CallerStep

\* timeout_barrier().
LEMMA BarrierKeeps ==
    ASSUME TmoInv, NEW c \in Caller, timeout_barrier(c)
    PROVE  TmoInv'
<1> USE DEF clockVars, linkVars, softVars, callerVars, TmoAt, TmoGoto
<1>1. PICK t \in To : t = arg[c] /\ tpc[c] = "barrier"
  BY DEF timeout_barrier, TmoInv, BarrierOK
<1>2. PICK x \in Ctx : x = Flags[t]
  BY TimeoutAssumption
<1>3. UNCHANGED <<load, ticks, uptime, kc_lastscan, nap, wheel, bucket, tctx_running,
                  timeout_mutex, softclock_si, needs, arg, adds>>
  BY DEF timeout_barrier
<1>4. /\ \A l \in List : ~OnList(c, l)
      /\ \A y \in Ctx : ~(tctx_running[y] = c /\ tpc[y] = "run")
  <2>1. ~Pends(c)
    BY <1>1 DEF Pends
  <2>2. QED
    BY <2>1, Clear
<1>5. /\ {"wait", "returned"} \subseteq TmoPC
      /\ \A pc : tpc' = [tpc EXCEPT ![c] = pc] =>
            tpc'[c] = pc /\ \A y \in Ctx : tpc'[y] = tpc[y]
  BY Apart DEF TmoInv, SoftTypes, TmoPC
<1>6. CASE /\ tctx_running[x] # t /\ tpc' = [tpc EXCEPT ![c] = "returned"]
           /\ UNCHANGED <<queue, to_time, to_flags, signalled, awaits>>
  <2>1. ListTypes' /\ ListsOK' /\ \A u \in AnyTo, k \in List : OnList(u, k)' <=> OnList(u, k)
    BY <1>3, <1>6, SameLists
  <2>2. ClockTypes' /\ CallerTypes' /\ FlagTypes'
    BY <1>3, <1>6 DEF TmoInv, ClockTypes, CallerTypes, FlagTypes
  <2>3. ASSUME NEW u \in AnyTo PROVE Marked(u)'
    BY <1>6, <2>1 DEF TmoInv, Marked
  <2>4. awaits[c] = NIL
    <3>1. BarrierOK(c)
      BY DEF TmoInv
    <3>2. awaits[c] # NIL => awaits[c] = x /\ tctx_running[awaits[c]] = t
      BY <1>1, <1>2, <3>1 DEF BarrierOK
    <3>3. QED
      BY <1>6, <3>2
  <2>5. tpc'[c] = "returned" /\ \A y \in Ctx : tpc'[y] = tpc[y]
    BY <1>5, <1>6
  <2>6. /\ \A l \in List : ~OnList(c, l)'
        /\ \A y \in Ctx : ~(tctx_running'[y] = c /\ tpc'[y] = "run")
    BY <1>3, <1>4, <2>1, <2>5, Apart
  <2>7. BarrierOK(c)'
    BY <1>1, <1>3, <1>6, <2>4, <2>5, <2>6 DEF BarrierOK
  <2>8. \A d \in Caller \ {c} : \A l \in List : OnList(d, l)' => OnList(d, l)
    BY <2>1, Apart
  <2>9. QED
    BY <1>3, <1>5, <1>6, <2>1, <2>2, <2>3, <2>7, <2>8, CallerStep
<1>7. CASE /\ tctx_running[x] = t /\ tpc' = [tpc EXCEPT ![c] = "wait"]
           /\ to_time' = [to_time EXCEPT ![c] = ticks]
           /\ to_flags' = [to_flags EXCEPT ![c] = {"ONQUEUE"}]
           /\ queue' = [queue EXCEPT ![Todo(x)] = <<c>> \o @]
           /\ signalled' = [signalled EXCEPT ![c] = FALSE]
           /\ awaits' = [awaits EXCEPT ![c] = x]
  <2>1. PICK q \in Queue : q = Todo(x)
    BY DEF Todo, Queue, Ctx
  <2>2. q \in List /\ c \in AnyTo /\ ~OnList(c, q)
    BY <1>4, Apart DEF List
  <2>3. queue' = [queue EXCEPT ![q] = <<c>> \o @]
    BY <1>7, <2>1
  <2>4. /\ ListTypes' /\ ListsOK'
        /\ \A u \in AnyTo, l \in List : OnList(u, l)' <=> OnList(u, l) \/ (u = c /\ l = q)
    BY <1>3, <2>2, <2>3, PushEffect DEF TmoInv
  <2>5. ClockTypes'
    <3>1. ClockTypes /\ ticks \in Int
      BY SpanType DEF TmoInv, ClockTypes
    <3>2. to_time' \in [AnyTo -> Int]
      BY <1>7, <2>2, <3>1 DEF ClockTypes
    <3>3. QED
      BY <1>3, <3>1, <3>2 DEF ClockTypes
  <2>6. /\ CallerTypes' /\ signalled'[c] = FALSE /\ awaits'[c] = x
        /\ \A d \in Caller \ {c} : signalled'[d] = signalled[d] /\ awaits'[d] = awaits[d]
    BY <1>3, <1>7 DEF TmoInv, CallerTypes
  <2>7. FlagTypes' /\ to_flags'[c] = {"ONQUEUE"}
        /\ \A u \in AnyTo \ {c} : to_flags'[u] = to_flags[u]
    BY <1>7, <2>2 DEF TmoInv, FlagTypes
  <2>8. ASSUME NEW u \in AnyTo PROVE Marked(u)'
    <3>1. CASE u = c
      BY <1>4, <2>2, <2>4, <2>7, <3>1 DEF Marked
    <3>2. CASE u # c
      BY <2>4, <2>7, <3>2 DEF TmoInv, Marked
    <3>3. QED
      BY <3>1, <3>2
  <2>9. tpc'[c] = "wait" /\ \A y \in Ctx : tpc'[y] = tpc[y]
    BY <1>5, <1>7
  <2>10. BarrierOK(c)'
    <3>1. Pends(c)' /\ arg'[c] = t
      BY <1>1, <1>3, <2>6, <2>9 DEF Pends
    <3>2. \A l \in List : OnList(c, l)' => Place(c, l)'
      BY <1>2, <1>4, <2>1, <2>2, <2>4, <3>1 DEF Place
    <3>3. \A y \in Ctx : ~(tctx_running'[y] = c /\ tpc'[y] = "run")
      BY <1>3, <1>4, <2>9
    <3>4. awaits'[c] = Flags[arg'[c]] /\ tctx_running'[awaits'[c]] = arg'[c]
      BY <1>2, <1>3, <1>7, <2>6, <3>1
    <3>5. QED
      BY <2>9, <3>1, <3>2, <3>3, <3>4 DEF BarrierOK
  <2>11. \A d \in Caller \ {c} : \A l \in List : OnList(d, l)' => OnList(d, l)
    BY <2>4, Apart
  <2>12. QED
    BY <1>3, <1>5, <1>7, <2>4, <2>5, <2>6, <2>7, <2>8, <2>10, <2>11, CallerStep
<1>8. QED
  BY <1>1, <1>2, <1>6, <1>7 DEF timeout_barrier

\* The caller has been signalled, and goes on.
LEMMA WaitReturnKeeps ==
    ASSUME TmoInv, NEW c \in Caller, BarrierWait(c) \/ Return(c)
    PROVE  TmoInv'
<1> USE DEF clockVars, linkVars, softVars, callerVars, TmoAt, TmoGoto
<1>1. /\ UNCHANGED <<load, ticks, uptime, kc_lastscan, nap, queue, wheel, bucket, to_time,
                     to_flags, tctx_running, timeout_mutex, softclock_si, needs, signalled, adds>>
      /\ ~Pends(c)
  BY DEF BarrierWait, Return, Pends
<1>2. /\ \A l \in List : ~OnList(c, l)
      /\ \A y \in Ctx : ~(tctx_running[y] = c /\ tpc[y] = "run")
  BY <1>1, Clear
<1>3. BarrierOK(c) /\ awaits[c] = NIL
  <2>1. tpc[c] # "barrier" /\ BarrierOK(c)
    BY DEF BarrierWait, Return, TmoInv
  <2>2. QED
    BY <1>1, <2>1 DEF BarrierOK
<1>4. ListTypes' /\ ListsOK' /\ \A u \in AnyTo, k \in List : OnList(u, k)' <=> OnList(u, k)
  BY <1>1, SameLists
<1>5. PICK pc \in {"returned", "idle"} :
         /\ tpc' = [tpc EXCEPT ![c] = pc]
         /\ \/ pc = "returned" /\ tpc[c] = "wait" /\ UNCHANGED <<arg, awaits>>
            \/ /\ pc = "idle" /\ arg' = [arg EXCEPT ![c] = NIL]
               /\ awaits' = [awaits EXCEPT ![c] = NIL]
  BY DEF BarrierWait, Return
<1>6. pc \in TmoPC /\ tpc'[c] = pc /\ \A y \in Ctx : tpc'[y] = tpc[y]
  BY <1>5, Apart DEF TmoInv, SoftTypes, TmoPC
<1>7. /\ CallerTypes' /\ awaits'[c] = NIL /\ (pc # "idle" => arg'[c] \in To)
      /\ \A d \in Caller \ {c} : arg'[d] = arg[d] /\ awaits'[d] = awaits[d]
  <2>1. CallerTypes
    BY DEF TmoInv
  <2>2. CASE pc = "idle"
    BY <1>1, <1>5, <2>1, <2>2 DEF CallerTypes
  <2>3. CASE pc = "returned"
    BY <1>1, <1>3, <1>5, <2>1, <2>3 DEF CallerTypes, BarrierOK
  <2>4. QED
    BY <1>5, <2>2, <2>3
<1>8. ClockTypes' /\ FlagTypes'
  BY <1>1 DEF TmoInv, ClockTypes, FlagTypes
<1>9. ASSUME NEW u \in AnyTo PROVE Marked(u)'
  BY <1>1, <1>4 DEF TmoInv, Marked
<1>10. BarrierOK(c)'
  <2>1. /\ \A l \in List : ~OnList(c, l)'
        /\ \A y \in Ctx : ~(tctx_running'[y] = c /\ tpc'[y] = "run")
    BY <1>1, <1>2, <1>4, <1>6, Apart
  <2>2. QED
    BY <1>6, <1>7, <2>1 DEF BarrierOK
<1>11. \A d \in Caller \ {c} : \A l \in List : OnList(d, l)' => OnList(d, l)
  BY <1>4, Apart
<1>12. QED
  BY <1>1, <1>4, <1>5, <1>6, <1>7, <1>8, <1>9, <1>10, <1>11, CallerStep

-----------------------------------------------------------------------------
(* The invariant holds.                                                    *)

\* The lists of timeout_startup() are empty.
LEMMA TmoInvInit == TmoInit => TmoInv
<1> SUFFICES ASSUME TmoInit PROVE TmoInv
  OBVIOUS
<1> USE DEF TmoInit
<1>1. ClockTypes
  <2>1. load.start \in -INT_MAX - 1 .. INT_MAX /\ load.adds \in Nat
    BY WorkloadsAssumption
  <2>2. QED
    BY <2>1 DEF ClockTypes
<1>2. SoftTypes /\ CallerTypes /\ FlagTypes
  BY DEF SoftTypes, CallerTypes, FlagTypes, TmoPC
<1>3. ListTypes
  BY DEF ListTypes
<1>4. wheel = <<>> /\ Elements(wheel) = {} /\ NoDup(wheel)
      /\ \A q \in Queue : queue[q] = <<>> /\ Elements(queue[q]) = {} /\ NoDup(queue[q])
  <2>1. Elements(<<>>) = {} /\ NoDup(<<>>)
    BY DEF Elements, NoDup
  <2>2. QED
    BY <2>1
<1>5. ListsOK /\ \A t \in AnyTo, l \in List : ~OnList(t, l)
  BY <1>4 DEF ListsOK, OnList, List
<1>6. ASSUME NEW t \in AnyTo PROVE Marked(t)
  BY <1>5 DEF Marked
<1>7. ASSUME NEW x \in Ctx PROVE Busy(x)
  BY DEF Busy
<1>8. ASSUME NEW c \in Caller PROVE BarrierOK(c)
  <2>1. tpc[c] = "idle"
    BY Apart DEF ThreadCtx, Ctx
  <2>2. QED
    BY <1>5, <2>1, Apart DEF BarrierOK
<1>9. QED
  BY <1>1, <1>2, <1>3, <1>5, <1>6, <1>7, <1>8 DEF TmoInv

\* Every step keeps it.
LEMMA TmoInvNext == TmoInv /\ [TmoNext]_tmoVars => TmoInv'
<1> SUFFICES ASSUME TmoInv, [TmoNext]_tmoVars PROVE TmoInv'
  OBVIOUS
<1>1. CASE hardclock \/ timeout_adjust_ticks
  BY <1>1, DumpSteps
<1>2. CASE tc_setclock
  BY <1>2, CalmSteps
<1>3. CASE SoftclockStep
  BY <1>3, SoftclockKeeps, SoftclockNextKeeps, CalmSteps DEF SoftclockStep
<1>4. ASSUME NEW x \in ThreadCtx, ThreadStep(x) PROVE TmoInv'
  BY <1>4, ThreadNextKeeps, CalmSteps DEF ThreadStep
<1>5. ASSUME NEW x \in Ctx, BarrierSignal(x) \/ RunDone(x) PROVE TmoInv'
  BY <1>5, BarrierSignalKeeps, RunDoneKeeps
<1>6. ASSUME NEW c \in Caller \cup Ctx, NEW t \in To, timeout_add(c, t) PROVE TmoInv'
  BY <1>6, AddKeeps
<1>7. ASSUME NEW c \in Caller, NEW t \in To, timeout_del(c, t) PROVE TmoInv'
  BY <1>7, DelKeeps
<1>8. ASSUME NEW c \in Caller, timeout_barrier(c) \/ BarrierWait(c) \/ Return(c) PROVE TmoInv'
  BY <1>8, BarrierKeeps, WaitReturnKeeps
<1>9. CASE UNCHANGED tmoVars
  <2>1. ListTypes' /\ ListsOK' /\ \A u \in AnyTo, k \in List : OnList(u, k)' <=> OnList(u, k)
    BY <1>9, SameLists DEF tmoVars
  <2>2. ClockTypes' /\ SoftTypes' /\ CallerTypes' /\ FlagTypes'
    BY <1>9 DEF tmoVars, TmoInv, ClockTypes, SoftTypes, CallerTypes, FlagTypes
  <2>3. ASSUME NEW u \in AnyTo PROVE Marked(u)'
    BY <1>9, <2>1 DEF tmoVars, TmoInv, Marked
  <2>4. ASSUME NEW y \in Ctx PROVE Busy(y)'
    BY <1>9 DEF tmoVars, TmoInv, Busy
  <2>5. ASSUME NEW c \in Caller PROVE BarrierOK(c)'
    <3>1. BarrierOK(c) /\ c \in AnyTo
      BY Apart DEF TmoInv
    <3>2. QED
      BY <1>9, <2>1, <3>1, BarrierFrame DEF tmoVars
  <2>6. QED
    BY <2>1, <2>2, <2>3, <2>4, <2>5 DEF TmoInv
<1>10. QED
  BY <1>1, <1>2, <1>3, <1>4, <1>5, <1>6, <1>7, <1>8, <1>9 DEF TmoNext

\* The inductive invariant of the timeouts: one list for each that is marked,
\* and a barrier only in its own context, for as long as its caller waits.
THEOREM TmoInvariant == TmoSpec => []TmoInv
  BY TmoInvInit, TmoInvNext, PTL DEF TmoSpec

\* A timeout is queued once exactly if TIMEOUT_ONQUEUE says so, through
\* timeout_add(), timeout_del(), the dumps of the wheel, softclock() and the
\* threads; a barrier is queued only while its caller is in timeout_barrier().
THEOREM TimeoutsLinked == TmoSpec => []Linked
  BY TmoInvariant, InvLinked, PTL

\* timeout_del_barrier() returns only when the run that timeout_del() met has
\* ended.
THEOREM RunsHaveEnded == TmoSpec => []RunHasEnded
<1>1. TmoInv => RunHasEnded
  <2> SUFFICES ASSUME TmoInv, NEW c \in Caller, tpc[c] = "returned" PROVE awaits[c] = NIL
    BY DEF RunHasEnded
  <2>1. BarrierOK(c)
    BY DEF TmoInv
  <2>2. QED
    BY <2>1 DEF BarrierOK, Pends
<1>2. QED
  BY <1>1, TmoInvariant, PTL

-----------------------------------------------------------------------------
(* Nobody is forgotten.                                                    *)

\* The context has not yet left its loop.
Active == {"loop", "run", "signalled"}

\* The two parts of NoneForgotten.
Heard(x) ==
    tpc[x] = "asleep" /\ queue[x] # <<>> => tpc["si"] \in Active \/ x \in needs
Sure(c) ==
    tpc[c] = "wait" =>
        LET x == Flags[arg[c]] IN
        \/ signalled[c]
        \/ tctx_running[x] = c /\ tpc[x] = "run"
        \/ c \in Elements(queue[Todo(x)]) /\ tpc[x] \in Active

\* softclock() finds a barrier due whose caller still waits. timeout_barrier()
\* sets it to the tick it is called at, so it stays due until 2^31 ticks later:
\* a bound on the time that a timeout's function may take.
BarriersDue == \A c \in Caller : Pends(c) => Left(c) <= 0

\* NoneForgotten in these terms.
LEMMA ForgottenParts ==
    NoneForgotten <=> (\A x \in ThreadCtx : Heard(x)) /\ (\A c \in Caller : Sure(c))
  BY DEF NoneForgotten, Heard, Sure, Active

\* A thread that neither falls asleep nor is given anything.
LEMMA HeardFrame ==
    ASSUME NEW x \in ThreadCtx, Heard(x),
           tpc'[x] = "asleep" /\ queue'[x] # <<>> => tpc[x] = "asleep" /\ queue[x] # <<>>,
           tpc["si"] \in Active => tpc'["si"] \in Active,
           x \in needs => x \in needs'
    PROVE  Heard(x)'
  BY DEF Heard, Active

\* A caller whose barrier is where it was.
LEMMA SureFrame ==
    ASSUME TmoInv, NEW c \in Caller, Sure(c),
           tpc'[c] = "wait" => /\ tpc[c] = "wait" /\ arg'[c] = arg[c]
                               /\ signalled[c] => signalled'[c],
           \A x \in Ctx :
              /\ tctx_running[x] = c /\ tpc[x] = "run" =>
                    tctx_running'[x] = c /\ tpc'[x] = "run"
              /\ c \in Elements(queue[Todo(x)]) /\ tpc[x] \in Active =>
                    c \in Elements(queue'[Todo(x)]) /\ tpc'[x] \in Active
    PROVE  Sure(c)'
<1> SUFFICES ASSUME tpc'[c] = "wait"
             PROVE  LET x == Flags[arg'[c]] IN
                    \/ signalled'[c]
                    \/ tctx_running'[x] = c /\ tpc'[x] = "run"
                    \/ c \in Elements(queue'[Todo(x)]) /\ tpc'[x] \in Active
  BY DEF Sure, Todo, Active
<1>1. arg[c] \in To /\ arg'[c] = arg[c] /\ tpc[c] = "wait" /\ (signalled[c] => signalled'[c])
  BY DEF TmoInv, BarrierOK
<1>2. PICK x \in Ctx : x = Flags[arg[c]]
  BY <1>1, TimeoutAssumption
<1>3. \/ signalled[c]
      \/ tctx_running[x] = c /\ tpc[x] = "run"
      \/ c \in Elements(queue[Todo(x)]) /\ tpc[x] \in Active
  BY <1>1, <1>2 DEF Sure
<1>4. QED
  BY <1>1, <1>2, <1>3

\* A thread's list after Unlink and MoveToNew is empty if it was; and the
\* barriers keep their places.
LEMMA WithoutKeeps ==
    ASSUME ListTypes, ListsOK, NEW t \in AnyTo, Unlink(t) \/ MoveToNew(t)
    PROVE  /\ \A x \in ThreadCtx : queue'[x] # <<>> => queue[x] # <<>>
           /\ \A c \in AnyTo \ {t}, q \in Queue :
                 c \in Elements(queue[q]) => c \in Elements(queue'[q])
<1>1. ThreadCtx \subseteq Queue \ {"new"}
  BY DEF ThreadCtx, Queue
<1>2. ASSUME NEW x \in ThreadCtx, queue'[x] # <<>> PROVE queue[x] # <<>>
  <2>1. PICK s \in Seq(AnyTo) : s = queue[x] /\ NoDup(s) /\ queue'[x] = Without(s, t)
    BY <1>1 DEF ListTypes, ListsOK, Unlink, MoveToNew
  <2>2. Without(s, t) \in Seq(AnyTo) /\ NoDup(Without(s, t))
        /\ Elements(Without(s, t)) = Elements(s) \ {t}
    BY <2>1, WithoutFacts
  <2>3. s = <<>> => Elements(s) = {}
    BY DEF Elements
  <2>4. ASSUME NEW r \in Seq(AnyTo), NoDup(r), r # <<>> PROVE Elements(r) # {}
    BY <2>4, HeadFacts
  <2>5. QED
    BY <1>2, <2>1, <2>2, <2>3, <2>4
<1>3. ASSUME NEW c \in AnyTo \ {t}, NEW q \in Queue, c \in Elements(queue[q])
      PROVE  c \in Elements(queue'[q])
  <2>1. q \in List /\ q # "wheel"
    BY DEF List, Queue
  <2>2. OnList(c, q)'
    <3>1. OnList(c, q)
      BY <1>3, <2>1, ListsNamed
    <3>2. CASE Unlink(t)
      BY <2>1, <3>1, <3>2, UnlinkEffect
    <3>3. CASE MoveToNew(t)
      BY <2>1, <3>1, <3>3, MoveToNewEffect
    <3>4. QED
      BY <3>2, <3>3
  <2>3. QED
    BY <2>1, <2>2, ListsNamed
<1>4. QED
  BY <1>2, <1>3

\* The clock, and the calls that do not put a barrier on a list.
LEMMA StillSteps ==
    ASSUME TmoInv, NoneForgotten,
           \/ hardclock \/ tc_setclock \/ timeout_adjust_ticks \/ UNCHANGED tmoVars
           \/ \E c \in Caller \cup Ctx, t \in To : timeout_add(c, t)
           \/ \E c \in Caller, t \in To : timeout_del(c, t)
           \/ \E c \in Caller : BarrierWait(c) \/ Return(c)
    PROVE  NoneForgotten'
<1> USE DEF clockVars, linkVars, softVars, callerVars, TmoAt, TmoGoto
<1>1. /\ UNCHANGED <<tctx_running, needs, signalled>>
      /\ \A x \in Ctx : tpc'[x] = tpc[x]
      /\ \A c \in Caller : tpc'[c] = "wait" => tpc[c] = "wait" /\ arg'[c] = arg[c]
  <2>1. SoftTypes /\ CallerTypes
    BY DEF TmoInv
  <2>2. CASE \E c \in Caller, t \in To : timeout_del(c, t)
    <3>1. PICK c \in Caller, t \in To : timeout_del(c, t)
      BY <2>2
    <3>2. /\ tpc' = [tpc EXCEPT ![c] = "barrier"] /\ arg' = [arg EXCEPT ![c] = t]
          /\ UNCHANGED <<tctx_running, needs, signalled>>
      BY <3>1 DEF timeout_del
    <3>3. QED
      BY <2>1, <3>2, Apart DEF SoftTypes, CallerTypes
  <2>3. CASE \E c \in Caller : BarrierWait(c) \/ Return(c)
    <3>1. PICK c \in Caller : BarrierWait(c) \/ Return(c)
      BY <2>3
    <3>2. PICK pc \in {"returned", "idle"}, w \in {arg[c], NIL} :
             /\ tpc' = [tpc EXCEPT ![c] = pc] /\ arg' = [arg EXCEPT ![c] = w]
             /\ UNCHANGED <<tctx_running, needs, signalled>>
      BY <2>1, <3>1 DEF BarrierWait, Return, CallerTypes
    <3>3. QED
      BY <2>1, <3>2, Apart DEF SoftTypes, CallerTypes
  <2>4. CASE \/ hardclock \/ tc_setclock \/ timeout_adjust_ticks \/ UNCHANGED tmoVars
             \/ \E c \in Caller \cup Ctx, t \in To : timeout_add(c, t)
    BY <2>4 DEF hardclock, tc_setclock, timeout_adjust_ticks, timeout_add, tmoVars
  <2>5. QED
    BY <2>2, <2>3, <2>4
<1>2. /\ \A x \in ThreadCtx : queue'[x] # <<>> => queue[x] # <<>>
      /\ \A c \in Caller, q \in Queue : c \in Elements(queue[q]) => c \in Elements(queue'[q])
  <2>1. ListTypes /\ ListsOK
    BY DEF TmoInv
  <2>2. CASE UNCHANGED queue
    BY <2>2
  <2>3. ASSUME NEW t \in To, Unlink(t) \/ MoveToNew(t)
        PROVE  /\ \A x \in ThreadCtx : queue'[x] # <<>> => queue[x] # <<>>
               /\ \A c \in Caller, q \in Queue :
                     c \in Elements(queue[q]) => c \in Elements(queue'[q])
    <3>1. t \in AnyTo /\ \A c \in Caller : c \in AnyTo \ {t}
      BY Apart DEF AnyTo
    <3>2. QED
      BY <2>1, <2>3, <3>1, WithoutKeeps
  <2>4. ASSUME NEW b, Dump(b)
        PROVE  /\ \A x \in ThreadCtx : queue'[x] # <<>> => queue[x] # <<>>
               /\ \A c \in Caller, q \in Queue :
                     c \in Elements(queue[q]) => c \in Elements(queue'[q])
    <3>1. \E s : queue' = [queue EXCEPT !["todo"] = s]
      BY <2>4 DEF Dump
    <3>2. \A x \in Queue \ {"todo"} : queue'[x] = queue[x]
      BY <2>1, <3>1 DEF ListTypes
    <3>3. "todo" \in List /\ "wheel" \in List /\ ThreadCtx \subseteq Queue \ {"todo"}
      BY DEF List, Queue, ThreadCtx
    <3>4. \A u \in AnyTo : ~(OnList(u, "todo") /\ OnList(u, "wheel"))
      BY <3>3, OneList
    <3>5. \A u \in AnyTo : OnList(u, "todo") => OnList(u, "todo")'
      BY <2>1, <2>4, <3>4, DumpEffect
    <3>6. \A c \in Caller : c \in Elements(queue["todo"]) => c \in Elements(queue'["todo"])
      BY <3>3, <3>5, Apart, ListsNamed
    <3>7. QED
      BY <3>2, <3>3, <3>6
  <2>5. \/ UNCHANGED queue
        \/ \E t \in To : Unlink(t) \/ MoveToNew(t)
        \/ \E b : Dump(b)
    BY DEF hardclock, tc_setclock, timeout_adjust_ticks, timeout_add, Schedule, timeout_del,
           BarrierWait, Return, tmoVars
  <2>6. QED
    BY <2>2, <2>3, <2>4, <2>5
<1>3. "si" \in Ctx /\ ThreadCtx \subseteq Ctx /\ \A x \in Ctx : Todo(x) \in Queue
  BY DEF Ctx, ThreadCtx, Todo, Queue
<1>4. ASSUME NEW x \in ThreadCtx PROVE Heard(x)'
  <2>1. Heard(x)
    BY ForgottenParts
  <2>2. QED
    BY <1>1, <1>2, <1>3, <2>1, HeardFrame
<1>5. ASSUME NEW c \in Caller PROVE Sure(c)'
  <2>1. Sure(c)
    BY ForgottenParts
  <2>2. QED
    BY <1>1, <1>2, <1>3, <2>1, SureFrame
<1>6. (\A x \in ThreadCtx : Heard(x)') /\ (\A c \in Caller : Sure(c)')
  BY <1>4, <1>5
<1>7. QED
  BY <1>6 DEF NoneForgotten, Heard, Sure, Active

\* From the parts.
LEMMA ForgottenJoin ==
    ASSUME \A x \in ThreadCtx : Heard(x)', \A c \in Caller : Sure(c)'
    PROVE  NoneForgotten'
  BY DEF NoneForgotten, Heard, Sure, Active

\* A context leaves its loop only when its list is empty.
LEMMA LeaveSteps ==
    ASSUME TmoInv, NoneForgotten,
           \/ SoftclockEnd
           \/ SoftclockWake
           \/ \E x \in ThreadCtx :
                 ThreadSetup(x) \/ ThreadSleep(x) \/ ThreadEnter(x) \/ ThreadEnd(x)
    PROVE  NoneForgotten'
<1> USE DEF clockVars, linkVars, softVars, callerVars, TmoAt, TmoGoto
<1>1. "si" \in Ctx /\ ThreadCtx \subseteq Ctx /\ "si" \notin ThreadCtx
      /\ Todo("si") = "todo" /\ \A x \in ThreadCtx : Todo(x) = x
  BY DEF Ctx, ThreadCtx, Todo
<1>2. tpc \in [Ctx \cup Caller -> TmoPC] /\ needs \subseteq ThreadCtx
  BY DEF TmoInv, SoftTypes
<1>3. UNCHANGED <<queue, tctx_running, arg, signalled>>
  BY DEF SoftclockEnd, SoftclockWake, ThreadSetup, ThreadSleep, ThreadEnter, ThreadEnd
<1>4. ASSUME NEW c \in Caller, NEW z \in Ctx, NEW l, tpc' = [tpc EXCEPT ![z] = l],
             tpc[z] # "run",
             tpc[z] \in Active => queue[Todo(z)] = <<>>
      PROVE  Sure(c)'
  <2>1. Elements(<<>>) = {}
    BY DEF Elements
  <2>2. tpc'[c] = tpc[c] /\ \A y \in Ctx \ {z} : tpc'[y] = tpc[y]
    BY <1>2, <1>4, Apart
  <2>3. Sure(c)
    BY ForgottenParts
  <2>4. QED
    BY <1>3, <1>4, <2>1, <2>2, <2>3, SureFrame
<1>5. ASSUME tpc' = tpc, NEW c \in Caller PROVE Sure(c)'
  <2>1. Sure(c)
    BY ForgottenParts
  <2>2. QED
    BY <1>3, <1>5, <2>1, SureFrame
<1>6. ASSUME NEW x \in ThreadCtx PROVE Heard(x)
  BY ForgottenParts
<1>7. CASE SoftclockEnd
  <2>1. /\ tpc["si"] = "loop" /\ queue["todo"] = <<>> /\ tpc' = [tpc EXCEPT !["si"] = "wake"]
        /\ needs' = {x \in ThreadCtx : queue[x] # <<>>}
    BY <1>7 DEF SoftclockEnd
  <2>2. \A x \in ThreadCtx : Heard(x)'
    BY <1>3, <2>1 DEF Heard
  <2>3. \A c \in Caller : Sure(c)'
    BY <1>1, <1>4, <2>1
  <2>4. QED
    BY <2>2, <2>3, ForgottenJoin
<1>8. CASE SoftclockWake
  <2>1. CASE needs = {}
    <3>1. tpc["si"] = "wake" /\ tpc' = [tpc EXCEPT !["si"] = "idle"] /\ needs' = needs
      BY <1>8, <2>1 DEF SoftclockWake
    <3>2. \A c \in Caller : Sure(c)'
      BY <1>1, <1>4, <3>1 DEF Active
    <3>3. ASSUME NEW x \in ThreadCtx PROVE Heard(x)'
      <4>1. tpc'[x] = tpc[x] /\ queue'[x] = queue[x]
        BY <1>1, <1>2, <1>3, <3>1
      <4>2. ~(tpc[x] = "asleep" /\ queue[x] # <<>>)
        BY <1>6, <2>1, <3>1 DEF Heard, Active
      <4>3. QED
        BY <4>1, <4>2 DEF Heard
    <3>4. QED
      BY <3>2, <3>3, ForgottenJoin
  <2>2. CASE needs # {}
    <3>1. PICK z \in needs :
             /\ needs' = needs \ {z}
             /\ \/ tpc[z] \in {"setup", "asleep"} /\ tpc' = [tpc EXCEPT ![z] = "woken"]
                \/ tpc[z] \notin {"setup", "asleep"} /\ tpc' = tpc
      BY <1>8, <2>2 DEF SoftclockWake
    <3>2. z \in ThreadCtx /\ z \in Ctx
      BY <1>1, <1>2
    <3>3. \A c \in Caller : Sure(c)'
      BY <1>4, <1>5, <3>1, <3>2 DEF Active
    <3>4. tpc'[z] # "asleep" /\ \A y \in Ctx \ {z} : tpc'[y] = tpc[y]
      BY <1>2, <3>1, <3>2
    <3>5. ASSUME NEW x \in ThreadCtx PROVE Heard(x)'
      <4>1. CASE x = z
        BY <3>4, <4>1 DEF Heard
      <4>2. CASE x # z
        <5>1. tpc'[x] = tpc[x] /\ tpc'["si"] = tpc["si"] /\ (x \in needs => x \in needs')
          BY <1>1, <3>1, <3>2, <3>4, <4>2
        <5>2. QED
          BY <1>3, <1>6, <5>1, HeardFrame
      <4>3. QED
        BY <4>1, <4>2
    <3>6. QED
      BY <3>3, <3>5, ForgottenJoin
  <2>3. QED
    BY <2>1, <2>2
<1>9. ASSUME NEW z \in ThreadCtx,
             ThreadSetup(z) \/ ThreadSleep(z) \/ ThreadEnter(z) \/ ThreadEnd(z)
      PROVE  NoneForgotten'
  <2>1. PICK l : tpc' = [tpc EXCEPT ![z] = l] /\ (l = "asleep" => queue[z] = <<>>)
    BY <1>9 DEF ThreadSetup, ThreadSleep, ThreadEnter, ThreadEnd
  <2>2. tpc[z] # "run" /\ (tpc[z] \in Active => queue[z] = <<>>) /\ needs' = needs
    BY <1>9 DEF ThreadSetup, ThreadSleep, ThreadEnter, ThreadEnd, Active
  <2>3. \A c \in Caller : Sure(c)'
    BY <1>1, <1>4, <2>1, <2>2
  <2>4. z \in Ctx /\ tpc'[z] = l /\ \A y \in Ctx \ {z} : tpc'[y] = tpc[y]
    BY <1>1, <1>2, <2>1
  <2>5. ASSUME NEW x \in ThreadCtx PROVE Heard(x)'
    <3>1. CASE x = z
      BY <1>3, <2>1, <2>4, <3>1 DEF Heard
    <3>2. CASE x # z
      <4>1. tpc'[x] = tpc[x] /\ tpc'["si"] = tpc["si"]
        BY <1>1, <2>4, <3>2
      <4>2. QED
        BY <1>3, <1>6, <2>2, <4>1, HeardFrame
    <3>3. QED
      BY <3>1, <3>2
  <2>6. QED
    BY <2>3, <2>5, ForgottenJoin
<1>10. QED
  BY <1>7, <1>8, <1>9

\* A barrier signals its caller before its context goes on.
LEMMA RunEndSteps ==
    ASSUME TmoInv, NoneForgotten, NEW z \in Ctx, BarrierSignal(z) \/ RunDone(z)
    PROVE  NoneForgotten'
<1> USE DEF clockVars, linkVars, softVars, callerVars, TmoAt, TmoGoto
<1>1. "si" \in Ctx /\ ThreadCtx \subseteq Ctx
  BY DEF Ctx, ThreadCtx
<1>2. tpc \in [Ctx \cup Caller -> TmoPC] /\ tctx_running \in [Ctx -> AnyTo \cup {NIL}]
      /\ signalled \in [Caller -> BOOLEAN]
  BY DEF TmoInv, SoftTypes, CallerTypes
<1>3. PICK l \in {"signalled", "loop"} : tpc' = [tpc EXCEPT ![z] = l]
  BY DEF BarrierSignal, RunDone
<1>4. UNCHANGED <<queue, arg, needs>>
  BY DEF BarrierSignal, RunDone
<1>5. /\ tpc'[z] = l /\ l \in Active /\ \A y \in Ctx \ {z} : tpc'[y] = tpc[y]
      /\ \A c \in Caller : tpc'[c] = tpc[c]
  BY <1>2, <1>3, Apart DEF Active
<1>6. ASSUME NEW x \in ThreadCtx PROVE Heard(x)'
  <2>1. Heard(x)
    BY ForgottenParts
  <2>2. tpc'[x] = "asleep" => tpc[x] = "asleep"
    BY <1>1, <1>5 DEF Active
  <2>3. tpc["si"] \in Active => tpc'["si"] \in Active
    BY <1>1, <1>5
  <2>4. QED
    BY <1>4, <2>1, <2>2, <2>3, HeardFrame
<1>7. ASSUME NEW c \in Caller PROVE Sure(c)'
  <2>1. Sure(c)
    BY ForgottenParts
  <2>2. CASE tctx_running[z] = c /\ tpc[z] = "run"
    <3>1. BarrierSignal(z)
      BY <2>2, Apart DEF RunDone
    <3>2. signalled' = [signalled EXCEPT ![c] = TRUE]
      BY <2>2, <3>1 DEF BarrierSignal
    <3>3. signalled'[c]
      BY <1>2, <3>2
    <3>4. QED
      BY <3>3 DEF Sure
  <2>3. CASE ~(tctx_running[z] = c /\ tpc[z] = "run")
    <3>1. signalled[c] => signalled'[c]
      BY <1>2 DEF BarrierSignal, RunDone
    <3>2. \A y \in Ctx \ {z} : tctx_running'[y] = tctx_running[y]
      BY <1>2 DEF BarrierSignal, RunDone
    <3>3. QED
      BY <1>4, <1>5, <2>1, <2>3, <3>1, <3>2, SureFrame
  <2>4. QED
    BY <2>2, <2>3
<1>8. QED
  BY <1>6, <1>7, ForgottenJoin

\* A barrier that leaves the list of its context runs.
LEMMA PopSteps ==
    ASSUME TmoInv, NoneForgotten, NEW z \in Ctx, tpc[z] = "loop", NEW q \in Queue, q = Todo(z),
           queue[q] # <<>>, NEW t, t = Head(queue[q]), timeout_run(z, t),
           queue' = [queue EXCEPT ![q] = Tail(@)],
           UNCHANGED <<wheel, bucket, needs, arg, signalled>>
    PROVE  NoneForgotten'
<1> USE DEF TmoGoto
<1>1. "si" \in Ctx /\ ThreadCtx \subseteq Ctx /\ ThreadCtx \subseteq Queue
      /\ (\A x \in Ctx : Todo(x) \in Queue) /\ \A x \in ThreadCtx : Todo(x) = x
  BY DEF Ctx, ThreadCtx, Todo, Queue
<1>2. tpc \in [Ctx \cup Caller -> TmoPC] /\ tctx_running \in [Ctx -> AnyTo \cup {NIL}]
      /\ queue \in [Queue -> Seq(AnyTo)]
  BY DEF TmoInv, SoftTypes, ListTypes
<1>3. tpc' = [tpc EXCEPT ![z] = "run"] /\ tctx_running' = [tctx_running EXCEPT ![z] = t]
  BY DEF timeout_run
<1>4. /\ tpc'[z] = "run" /\ tctx_running'[z] = t
      /\ \A y \in Ctx \ {z} : tpc'[y] = tpc[y] /\ tctx_running'[y] = tctx_running[y]
      /\ \A c \in Caller : tpc'[c] = tpc[c]
  BY <1>2, <1>3, Apart
<1>5. /\ \A p \in Queue \ {q} : queue'[p] = queue[p]
      /\ \A c \in AnyTo \ {t} : c \in Elements(queue[q]) => c \in Elements(queue'[q])
  <2>1. queue'[q] = Tail(queue[q]) /\ \A p \in Queue \ {q} : queue'[p] = queue[p]
    BY <1>2
  <2>2. PICK s \in Seq(AnyTo) : s = queue[q] /\ NoDup(s)
    BY <1>2 DEF TmoInv, ListsOK
  <2>3. Elements(Tail(s)) = Elements(s) \ {t}
    BY <2>2, HeadFacts
  <2>4. QED
    BY <2>1, <2>2, <2>3
<1>6. ASSUME NEW x \in ThreadCtx PROVE Heard(x)'
  <2>1. Heard(x)
    BY ForgottenParts
  <2>2. CASE x = z
    BY <1>4, <2>2 DEF Heard
  <2>3. CASE x # z
    <3>1. x # q
      BY <1>1, <2>3 DEF Todo, ThreadCtx, Ctx
    <3>2. tpc'[x] = tpc[x] /\ queue'[x] = queue[x]
      BY <1>1, <1>4, <1>5, <2>3, <3>1
    <3>3. tpc["si"] \in Active => tpc'["si"] \in Active
      BY <1>1, <1>4 DEF Active
    <3>4. QED
      BY <2>1, <3>2, <3>3, HeardFrame
  <2>4. QED
    BY <2>2, <2>3
<1>7. ASSUME NEW c \in Caller PROVE Sure(c)'
  <2>1. Sure(c)
    BY ForgottenParts
  <2>2. CASE c = t
    <3>1. ASSUME tpc[c] = "wait" PROVE z = Flags[arg[c]]
      <4>1. BarrierOK(c) /\ arg[c] \in To
        BY <3>1 DEF TmoInv, BarrierOK
      <4>2. q \in List /\ q # "wheel" /\ OnList(c, q)
        <5>1. q \in List /\ q # "wheel"
          BY DEF List, Queue
        <5>2. PICK s \in Seq(AnyTo) : s = queue[q] /\ NoDup(s)
          BY <1>2 DEF TmoInv, ListsOK
        <5>3. t \in Elements(s)
          BY <5>2, HeadFacts
        <5>4. QED
          BY <2>2, <5>1, <5>2, <5>3, ListsNamed
      <4>3. Place(c, q)
        BY <4>1, <4>2 DEF BarrierOK
      <4>4. QED
        BY <4>1, <4>2, <4>3, TimeoutAssumption DEF Place, Todo, Ctx
    <3>2. QED
      BY <1>4, <2>2, <3>1 DEF Sure
  <2>3. CASE c # t
    <3>1. ASSUME NEW x \in Ctx, tctx_running[x] = c, tpc[x] = "run"
          PROVE  tctx_running'[x] = c /\ tpc'[x] = "run"
      BY <1>4, <3>1
    <3>2. ASSUME NEW x \in Ctx, c \in Elements(queue[Todo(x)]), tpc[x] \in Active
          PROVE  c \in Elements(queue'[Todo(x)]) /\ tpc'[x] \in Active
      <4>1. tpc'[x] \in Active
        BY <1>4, <3>2 DEF Active
      <4>2. QED
        BY <1>1, <1>5, <2>3, <3>2, <4>1, Apart
    <3>3. QED
      BY <1>4, <2>1, <3>1, <3>2, SureFrame
  <2>4. QED
    BY <2>2, <2>3
<1>8. QED
  BY <1>6, <1>7, ForgottenJoin

\* softclock() finds a barrier due, and so runs it: it neither inserts it in
\* the wheel again nor gives it to a thread.
LEMMA SoftclockTurns ==
    ASSUME TmoInv, NoneForgotten, BarriersDue, softclock \/ SoftclockNext
    PROVE  NoneForgotten'
<1> USE DEF clockVars, linkVars, softVars, callerVars, TmoAt, TmoGoto
<1>1. /\ "si" \in Ctx /\ ThreadCtx \subseteq Ctx \ {"si"} /\ {"todo", "new"} \subseteq Queue
      /\ ThreadCtx \subseteq Queue \ {"todo", "new"} /\ Todo("si") = "todo"
      /\ \A x \in Ctx \ {"si"} : Todo(x) = x /\ x \in ThreadCtx
      /\ "todo" \in List /\ \A x \in Ctx : Todo(x) \in Queue
  BY DEF Ctx, ThreadCtx, Todo, Queue, List
<1>2. tpc \in [Ctx \cup Caller -> TmoPC] /\ queue \in [Queue -> Seq(AnyTo)]
  BY DEF TmoInv, SoftTypes, ListTypes
<1>3. ASSUME NEW l \in Active, tpc' = [tpc EXCEPT !["si"] = l], tpc["si"] # "run",
             UNCHANGED <<arg, signalled, tctx_running>>,
             \A c \in Caller, x \in Ctx :
                c \in Elements(queue[Todo(x)]) => c \in Elements(queue'[Todo(x)])
      PROVE  NoneForgotten'
  <2>1. /\ tpc'["si"] = l /\ \A y \in Ctx \ {"si"} : tpc'[y] = tpc[y]
        /\ \A c \in Caller : tpc'[c] = tpc[c]
    BY <1>1, <1>2, <1>3, Apart
  <2>2. ASSUME NEW x \in ThreadCtx PROVE Heard(x)'
    BY <2>1 DEF Heard, Active
  <2>3. ASSUME NEW c \in Caller PROVE Sure(c)'
    <3>1. Sure(c)
      BY ForgottenParts
    <3>2. ASSUME NEW x \in Ctx, tctx_running[x] = c, tpc[x] = "run"
          PROVE  tctx_running'[x] = c /\ tpc'[x] = "run"
      BY <1>3, <2>1, <3>2
    <3>3. ASSUME NEW x \in Ctx, c \in Elements(queue[Todo(x)]), tpc[x] \in Active
          PROVE  c \in Elements(queue'[Todo(x)]) /\ tpc'[x] \in Active
      BY <1>3, <2>1, <3>3
    <3>4. QED
      BY <1>3, <2>1, <3>1, <3>2, <3>3, SureFrame
  <2>4. QED
    BY <2>2, <2>3, ForgottenJoin
<1>4. CASE softclock
  <2>1. /\ tpc["si"] = "idle" /\ tpc' = [tpc EXCEPT !["si"] = "loop"]
        /\ queue' = [queue EXCEPT !["todo"] = @ \o queue["new"], !["new"] = <<>>]
        /\ UNCHANGED <<arg, signalled, tctx_running>>
    BY <1>4 DEF softclock
  <2>2. queue'["todo"] = queue["todo"] \o queue["new"] /\ \A x \in ThreadCtx : queue'[x] = queue[x]
    BY <1>1, <1>2, <2>1
  <2>3. Elements(queue["todo"]) \subseteq Elements(queue'["todo"])
    <3>1. PICK s \in Seq(AnyTo), r \in Seq(AnyTo) : s = queue["todo"] /\ r = queue["new"]
      BY <1>1, <1>2
    <3>2. \A i \in 1 .. Len(s) : i \in 1 .. Len(s \o r) /\ (s \o r)[i] = s[i]
      OBVIOUS
    <3>3. Elements(s) \subseteq Elements(s \o r)
      BY <3>2 DEF Elements
    <3>4. QED
      BY <2>2, <3>1, <3>3
  <2>4. \A c \in Caller, x \in Ctx :
           c \in Elements(queue[Todo(x)]) => c \in Elements(queue'[Todo(x)])
    BY <1>1, <2>2, <2>3
  <2>5. QED
    BY <1>3, <2>1, <2>4 DEF Active
<1>5. CASE SoftclockNext
  <2>1. PICK t : t = Head(queue["todo"])
    OBVIOUS
  <2>2. /\ tpc["si"] = "loop" /\ queue["todo"] # <<>>
        /\ UNCHANGED <<needs, arg, signalled>>
    BY <1>5 DEF SoftclockNext
  <2>3. PICK s \in Seq(AnyTo) : s = queue["todo"] /\ NoDup(s)
    BY <1>1, <1>2 DEF TmoInv, ListsOK
  <2>4. /\ t \in AnyTo /\ t \in Elements(s) /\ Tail(s) \in Seq(AnyTo)
        /\ Elements(Tail(s)) = Elements(s) \ {t}
    BY <2>1, <2>2, <2>3, HeadFacts
  <2>5. OnList(t, "todo")
    BY <1>1, <2>3, <2>4, ListsNamed DEF Queue
  <2>6. ASSUME t \in Caller PROVE Left(t) <= 0 /\ Context(t) = "si"
    <3>1. Pends(t) /\ Place(t, "todo") /\ arg[t] \in To
      BY <1>1, <2>5, <2>6 DEF TmoInv, BarrierOK, Pends
    <3>2. Flags[arg[t]] = "si"
      BY <3>1, TimeoutAssumption DEF Place, Todo, Ctx
    <3>3. QED
      BY <2>6, <3>1, <3>2, Apart DEF BarriersDue, Context
  <2>7. CASE Left(t) <= 0 /\ Context(t) = "si"
    <3>1. /\ queue' = [queue EXCEPT !["todo"] = Tail(@)] /\ timeout_run("si", t)
          /\ UNCHANGED <<wheel, bucket>>
      <4>1. ~(Left(t) > 0)
        <5>1. Left(t) \in Int
          BY <2>4, LeftType DEF TmoInv
        <5>2. QED
          BY <2>7, <5>1
      <4>2. Context(t) \notin ThreadCtx
        BY <2>7 DEF ThreadCtx
      <4>3. QED
        BY <1>5, <2>1, <4>1, <4>2 DEF SoftclockNext
    <3>2. QED
      BY <1>1, <2>1, <2>2, <3>1, PopSteps
  <2>8. CASE t \notin Caller /\ ~(Left(t) <= 0 /\ Context(t) = "si")
    <3>1. UNCHANGED <<tpc, tctx_running>>
          /\ \/ queue' = [queue EXCEPT !["todo"] = Tail(@)]
             \/ /\ Context(t) \in ThreadCtx
                /\ queue' = [[queue EXCEPT !["todo"] = Tail(@)]
                                EXCEPT ![Context(t)] = Append(@, t)]
      BY <1>5, <2>1, <2>8 DEF SoftclockNext
    <3>2. PICK f \in [Queue -> Seq(AnyTo)] :
             /\ f = [queue EXCEPT !["todo"] = Tail(@)] /\ f["todo"] = Tail(s)
             /\ \A q \in Queue \ {"todo"} : f[q] = queue[q]
      <4>1. PICK f : f = [queue EXCEPT !["todo"] = Tail(@)]
        OBVIOUS
      <4>2. /\ f \in [Queue -> Seq(AnyTo)] /\ f["todo"] = Tail(s)
            /\ \A q \in Queue \ {"todo"} : f[q] = queue[q]
        BY <1>1, <1>2, <2>3, <2>4, <4>1
      <4>3. QED
        BY <4>1, <4>2
    <3>3. \A c \in Caller, q \in Queue : c \in Elements(queue[q]) => c \in Elements(f[q])
      BY <2>3, <2>4, <2>8, <3>2
    <3>4. \A c \in Caller, q \in Queue : c \in Elements(f[q]) => c \in Elements(queue'[q])
      <4>1. CASE queue' = f
        BY <4>1
      <4>2. CASE Context(t) \in ThreadCtx /\ queue' = [f EXCEPT ![Context(t)] = Append(@, t)]
        <5>1. PICK x \in ThreadCtx : x = Context(t) /\ queue' = [f EXCEPT ![x] = Append(@, t)]
          BY <4>2
        <5>2. queue'[x] = Append(f[x], t) /\ \A q \in Queue \ {x} : queue'[q] = f[q]
          BY <1>1, <5>1
        <5>3. PICK r \in Seq(AnyTo) : r = f[x]
          BY <1>1
        <5>4. Elements(r) \subseteq Elements(Append(r, t))
          <6>1. \A i \in 1 .. Len(r) :
                   i \in 1 .. Len(Append(r, t)) /\ Append(r, t)[i] = r[i]
            BY <2>4
          <6>2. QED
            BY <6>1 DEF Elements
        <5>5. QED
          BY <5>2, <5>3, <5>4
      <4>3. QED
        BY <3>1, <3>2, <4>1, <4>2
    <3>5. \A c \in Caller, x \in Ctx :
             c \in Elements(queue[Todo(x)]) => c \in Elements(queue'[Todo(x)])
      BY <1>1, <3>3, <3>4
    <3>6. tpc' = [tpc EXCEPT !["si"] = "loop"] /\ "loop" \in Active
      BY <1>1, <1>2, <2>2, <3>1 DEF Active
    <3>7. QED
      BY <1>3, <2>2, <3>1, <3>5, <3>6
  <2>9. QED
    BY <2>6, <2>7, <2>8
<1>6. QED
  BY <1>4, <1>5

\* A barrier is queued in a context that runs.
LEMMA BarrierQueued ==
    ASSUME TmoInv, NoneForgotten, NEW c \in Caller, timeout_barrier(c)
    PROVE  NoneForgotten'
<1> USE DEF clockVars, linkVars, softVars, callerVars, TmoAt, TmoGoto
<1>1. PICK t \in To : t = arg[c] /\ tpc[c] = "barrier"
  BY DEF timeout_barrier, TmoInv, BarrierOK
<1>2. PICK x \in Ctx : x = Flags[t]
  BY TimeoutAssumption
<1>3. UNCHANGED <<tctx_running, needs, arg>>
  BY DEF timeout_barrier
<1>4. /\ tpc \in [Ctx \cup Caller -> TmoPC] /\ queue \in [Queue -> Seq(AnyTo)]
      /\ signalled \in [Caller -> BOOLEAN] /\ "si" \in Ctx /\ ThreadCtx \subseteq Ctx
      /\ ThreadCtx \subseteq Queue /\ \A y \in Ctx : Todo(y) \in Queue
  BY DEF TmoInv, SoftTypes, ListTypes, CallerTypes, Ctx, ThreadCtx, Queue, Todo
<1>5. PICK pc \in {"returned", "wait"} : tpc' = [tpc EXCEPT ![c] = pc]
  BY DEF timeout_barrier
<1>6. /\ tpc'[c] = pc /\ \A y \in Ctx : tpc'[y] = tpc[y]
      /\ \A d \in Caller \ {c} : tpc'[d] = tpc[d]
  BY <1>4, <1>5, Apart
<1>7. CASE pc = "returned"
  <2>1. UNCHANGED <<queue, signalled>>
    <3>1. tpc'[c] # "wait"
      BY <1>6, <1>7
    <3>2. QED
      BY <1>4, <3>1, Apart DEF timeout_barrier
  <2>2. ASSUME NEW y \in ThreadCtx PROVE Heard(y)'
    <3>1. Heard(y)
      BY ForgottenParts
    <3>2. QED
      BY <1>3, <1>4, <1>6, <2>1, <3>1, HeardFrame
  <2>3. ASSUME NEW d \in Caller PROVE Sure(d)'
    <3>1. Sure(d)
      BY ForgottenParts
    <3>2. QED
      BY <1>3, <1>6, <1>7, <2>1, <3>1, SureFrame
  <2>4. QED
    BY <2>2, <2>3, ForgottenJoin
<1>8. CASE pc = "wait"
  <2>1. /\ tctx_running[x] = t /\ queue' = [queue EXCEPT ![Todo(x)] = <<c>> \o @]
        /\ signalled' = [signalled EXCEPT ![c] = FALSE]
    <3>1. tpc'[c] # "returned"
      BY <1>6, <1>8
    <3>2. QED
      BY <1>1, <1>2, <1>4, <3>1, Apart DEF timeout_barrier
  <2>2. tpc[x] \in {"run", "signalled"}
    <3>1. t # NIL
      BY TimeoutAssumption DEF AnyTo
    <3>2. QED
      BY <2>1, <3>1 DEF TmoInv, Busy
  <2>3. PICK q \in Queue : q = Todo(x)
    BY <1>4
  <2>4. queue'[q] = <<c>> \o queue[q] /\ \A p \in Queue \ {q} : queue'[p] = queue[p]
    BY <1>4, <2>1, <2>3
  <2>5. Elements(queue'[q]) = Elements(queue[q]) \cup {c}
    <3>1. q \in List /\ q # "wheel" /\ ~Pends(c)
      BY <1>1 DEF List, Queue, Pends
    <3>2. c \notin Elements(queue[q]) /\ c \in AnyTo
      BY <3>1, Clear, ListsNamed, Apart
    <3>3. PICK s \in Seq(AnyTo) : s = queue[q] /\ NoDup(s)
      BY <1>4 DEF TmoInv, ListsOK
    <3>4. QED
      BY <2>4, <3>2, <3>3, PushFacts
  <2>6. \A y \in ThreadCtx : y # x => y # q
    BY <2>3 DEF Todo, ThreadCtx, Ctx
  <2>7. ASSUME NEW y \in ThreadCtx PROVE Heard(y)'
    <3>1. CASE y = x
      BY <1>6, <2>2, <3>1 DEF Heard
    <3>2. CASE y # x
      <4>1. Heard(y) /\ queue'[y] = queue[y]
        BY <1>4, <2>4, <2>6, <3>2, ForgottenParts
      <4>2. QED
        BY <1>3, <1>4, <1>6, <4>1, HeardFrame
    <3>3. QED
      BY <3>1, <3>2
  <2>8. ASSUME NEW d \in Caller PROVE Sure(d)'
    <3>1. CASE d = c
      BY <1>1, <1>2, <1>3, <1>6, <2>2, <2>3, <2>5, <3>1 DEF Sure, Active
    <3>2. CASE d # c
      <4>1. Sure(d) /\ signalled'[d] = signalled[d]
        BY <1>4, <2>1, <3>2, ForgottenParts
      <4>2. \A p \in Queue : d \in Elements(queue[p]) => d \in Elements(queue'[p])
        BY <2>4, <2>5
      <4>3. QED
        BY <1>3, <1>4, <1>6, <3>2, <4>1, <4>2, SureFrame
    <3>3. QED
      BY <3>1, <3>2
  <2>9. QED
    BY <2>7, <2>8, ForgottenJoin
<1>9. QED
  BY <1>5, <1>7, <1>8

\* A softclock thread that has work is woken, and a caller of
\* timeout_barrier() is signalled: neither is left with nobody to do it, as
\* long as no timeout's function runs for 2^31 ticks.
THEOREM NobodyForgotten == TmoSpec /\ []BarriersDue => []NoneForgotten
<1>1. TmoInit => NoneForgotten
  <2> SUFFICES ASSUME TmoInit PROVE NoneForgotten
    OBVIOUS
  <2>1. \A x \in ThreadCtx : queue[x] = <<>>
    BY DEF TmoInit, ThreadCtx, Queue
  <2>2. \A c \in Caller : tpc[c] = "idle"
    BY Apart DEF TmoInit, ThreadCtx, Ctx
  <2>3. QED
    BY <2>1, <2>2 DEF NoneForgotten
<1>2. TmoInv /\ BarriersDue /\ NoneForgotten /\ [TmoNext]_tmoVars => NoneForgotten'
  <2> SUFFICES ASSUME TmoInv, BarriersDue, NoneForgotten, [TmoNext]_tmoVars
               PROVE  NoneForgotten'
    OBVIOUS
  <2>1. CASE \/ hardclock \/ tc_setclock \/ timeout_adjust_ticks \/ UNCHANGED tmoVars
             \/ \E c \in Caller \cup Ctx, t \in To : timeout_add(c, t)
             \/ \E c \in Caller, t \in To : timeout_del(c, t)
             \/ \E c \in Caller : BarrierWait(c) \/ Return(c)
    BY <2>1, StillSteps
  <2>2. CASE SoftclockStep
    BY <2>2, SoftclockTurns, LeaveSteps DEF SoftclockStep
  <2>3. ASSUME NEW x \in ThreadCtx, ThreadStep(x) PROVE NoneForgotten'
    <3>1. CASE ThreadNext(x)
      <4>1. x \in Ctx /\ x \in Queue /\ Todo(x) = x
        BY DEF ThreadCtx, Ctx, Queue, Todo
      <4>2. /\ tpc[x] = "loop" /\ queue[x] # <<>> /\ timeout_run(x, Head(queue[x]))
            /\ queue' = [queue EXCEPT ![x] = Tail(@)]
            /\ UNCHANGED <<wheel, bucket, needs, arg, signalled>>
        BY <3>1 DEF ThreadNext, TmoAt, callerVars
      <4>3. QED
        BY <4>1, <4>2, PopSteps
    <3>2. CASE ThreadSetup(x) \/ ThreadSleep(x) \/ ThreadEnter(x) \/ ThreadEnd(x)
      BY <3>2, LeaveSteps
    <3>3. QED
      BY <2>3, <3>1, <3>2 DEF ThreadStep
  <2>4. ASSUME NEW x \in Ctx, BarrierSignal(x) \/ RunDone(x) PROVE NoneForgotten'
    BY <2>4, RunEndSteps
  <2>5. ASSUME NEW c \in Caller, timeout_barrier(c) PROVE NoneForgotten'
    BY <2>5, BarrierQueued
  <2>6. QED
    BY <2>1, <2>2, <2>3, <2>4, <2>5 DEF TmoNext
<1>3. QED
  BY <1>1, <1>2, TmoInvariant, PTL DEF TmoSpec

-----------------------------------------------------------------------------
(* Barriers are due for half of the range of an int.                        *)

\* Division leaves one remainder only.
LEMMA ModUnique ==
    ASSUME NEW M \in Nat \ {0}, NEW q \in Int, NEW a \in Int, NEW r \in 0 .. M - 1, a = M * q + r
    PROVE  a % M = r
<1>1. PICK d \in Int, m \in 0 .. M - 1 : a = M * d + m /\ m = a % M
  <2>1. a \div M \in Int /\ a % M \in 0 .. M - 1 /\ a = M * (a \div M) + (a % M)
    OBVIOUS
  <2>2. QED
    BY <2>1
<1>2. M * q - M * d = m - r
  <2>1. PICK u \in Int, v \in Int : u = M * q /\ v = M * d
    OBVIOUS
  <2>2. a = u + r /\ a = v + m
    BY <1>1, <2>1
  <2>3. u - v = m - r
    BY <2>2
  <2>4. QED
    BY <2>1, <2>3
<1>3. M * (q - d) = m - r
  BY <1>2
<1>4. ASSUME q - d >= 1 PROVE FALSE
  <2>1. M * (q - d) >= M
    BY <1>4
  <2>2. QED
    BY <1>3, <2>1
<1>5. ASSUME q - d <= -1 PROVE FALSE
  <2>1. M * (q - d) <= -M
    BY <1>5
  <2>2. QED
    BY <1>3, <2>1
<1>6. q = d
  BY <1>4, <1>5
<1>7. m = r
  <2>1. M * q - M * q = 0
    OBVIOUS
  <2>2. m - r = 0
    BY <1>2, <1>6, <2>1
  <2>3. QED
    BY <2>2
<1>8. QED
  BY <1>1, <1>7

\* A remainder may be taken early.
LEMMA ModAdd ==
    ASSUME NEW M \in Nat \ {0}, NEW a \in Int, NEW j \in Int
    PROVE  ((a % M) + j) % M = (a + j) % M
<1>1. PICK q \in Int, r \in 0 .. M - 1 : a = M * q + r /\ r = a % M
  <2>1. a \div M \in Int /\ a % M \in 0 .. M - 1 /\ a = M * (a \div M) + (a % M)
    OBVIOUS
  <2>2. QED
    BY <2>1
<1>2. PICK d \in Int, m \in 0 .. M - 1 : a + j = M * d + m /\ m = (a + j) % M
  <2>1. PICK b \in Int : b = a + j
    OBVIOUS
  <2>2. b \div M \in Int /\ b % M \in 0 .. M - 1 /\ b = M * (b \div M) + (b % M)
    OBVIOUS
  <2>3. QED
    BY <2>1, <2>2
<1>3. PICK b \in Int : b = r + j
  OBVIOUS
<1>4. b = M * (d - q) + m
  <2>1. M * (d - q) = M * d - M * q
    OBVIOUS
  <2>2. QED
    BY <1>1, <1>2, <1>3, <2>1
<1>5. b % M = m
  BY <1>4, ModUnique
<1>6. QED
  BY <1>1, <1>2, <1>3, <1>5

\* Adding to an int before or after it is one.
LEMMA Int32Add ==
    ASSUME NEW n \in Int, NEW j \in Int
    PROVE  Int32(Int32(n) + j) = Int32(n + j)
<1>1. PICK m \in Nat, M \in Nat \ {0} : m = INT_MAX /\ M = 2 * (m + 1)
  BY SpanType
<1>2. PICK a \in Int, r \in Int : a = n + m + 1 /\ r = a % M
  <2>1. n + m + 1 \in Int /\ (n + m + 1) % M \in Int
    OBVIOUS
  <2>2. QED
    BY <2>1
<1>3. Int32(n) = r - m - 1
  BY <1>1, <1>2 DEF Int32
<1>4. Int32(n) + j + m + 1 = r + j
  BY <1>3
<1>5. Int32(Int32(n) + j) = ((r + j) % M) - m - 1
  BY <1>1, <1>4 DEF Int32
<1>6. (r + j) % M = (a + j) % M
  BY <1>2, ModAdd
<1>7. a + j = n + j + m + 1
  BY <1>2
<1>8. Int32(n + j) = ((a + j) % M) - m - 1
  BY <1>1, <1>7 DEF Int32
<1>9. QED
  BY <1>5, <1>6, <1>8

\* A number in its range is an int.
LEMMA Int32Id ==
    ASSUME NEW n \in -INT_MAX - 1 .. INT_MAX
    PROVE  Int32(n) = n
<1>1. PICK m \in Nat, M \in Nat \ {0} : m = INT_MAX /\ M = 2 * (m + 1)
  BY SpanType
<1>2. PICK a \in 0 .. M - 1 : a = n + m + 1
  BY <1>1
<1>3. a = M * 0 + a
  OBVIOUS
<1>4. a % M = a
  BY <1>3, ModUnique
<1>5. QED
  BY <1>1, <1>2, <1>4 DEF Int32

\* A barrier that was set k ticks ago has -k left.
LEMMA Int32Back ==
    ASSUME NEW n \in Int, NEW k \in 0 .. INT_MAX + 1
    PROVE  Int32(n - Int32(n + k)) = -k
<1>1. PICK m \in Nat, M \in Nat \ {0} : m = INT_MAX /\ M = 2 * (m + 1)
  BY SpanType
<1>2. PICK a \in Int, q \in Int, r \in 0 .. M - 1 :
         a = n + k + m + 1 /\ a = M * q + r /\ r = a % M
  <2>1. PICK a \in Int : a = n + k + m + 1
    BY <1>1
  <2>2. a \div M \in Int /\ a % M \in 0 .. M - 1 /\ a = M * (a \div M) + (a % M)
    OBVIOUS
  <2>3. QED
    BY <2>1, <2>2
<1>3. PICK i \in Int : i = Int32(n + k) /\ i = r - m - 1
  <2>1. (n + k + m + 1) % M = r
    BY <1>2
  <2>2. Int32(n + k) = ((n + k + m + 1) % M) - m - 1
    BY <1>1 DEF Int32
  <2>3. r - m - 1 \in Int
    OBVIOUS
  <2>4. QED
    BY <2>1, <2>2, <2>3
<1>4. PICK b \in Int, s \in 0 .. M - 1 : b = n - i + m + 1 /\ s = m + 1 - k
  <2>1. n - i + m + 1 \in Int /\ m + 1 - k \in 0 .. M - 1
    BY <1>1
  <2>2. QED
    BY <2>1
<1>5. b = M * q + s
  <2>1. PICK u \in Int : u = M * q
    OBVIOUS
  <2>2. n + k + m + 1 = u + r
    BY <1>2, <2>1
  <2>3. QED
    BY <1>1, <1>3, <1>4, <2>1, <2>2
<1>6. b % M = s
  BY <1>5, ModUnique
<1>7. Int32(n - i) = (b % M) - m - 1
  BY <1>1, <1>4 DEF Int32
<1>8. s - m - 1 = -k
  BY <1>4
<1>9. Int32(n - i) = -k
  BY <1>6, <1>7, <1>8
<1>10. QED
  BY <1>3, <1>9

\* The workloads in which callers use timeout_del_barrier() end before the
\* tick counter has gone through half of its range. (A tick takes time.)
ShortWorkloads ==
    \A w \in Workloads :
        /\ 0 \notin w.steps /\ w.until \in Nat
        /\ w.deleted # {} => w.until <= INT_MAX + 1

\* A barrier was set to a tick since the start.
Recent(c) == Pends(c) => \E k \in 0 .. uptime - nap : ticks = Int32(to_time[c] + k)
Deletes(c) == tpc[c] # "idle" => load.deleted # {}
DueInv ==
    /\ nap <= uptime /\ uptime <= load.until
    /\ \A c \in Caller : Recent(c) /\ Deletes(c)

\* Then every barrier is due.
LEMMA InvDue ==
    ASSUME ShortWorkloads, TmoInv, DueInv
    PROVE  BarriersDue
<1> SUFFICES ASSUME NEW c \in Caller, Pends(c) PROVE Left(c) <= 0
  BY DEF BarriersDue
<1>1. load \in Workloads /\ uptime \in Nat /\ nap \in Nat /\ to_time[c] \in Int
  BY Apart DEF TmoInv, ClockTypes
<1>2. load.until \in Nat /\ load.until <= INT_MAX + 1
  <2>1. load.deleted # {}
    BY DEF DueInv, Deletes, Pends
  <2>2. QED
    BY <1>1, <2>1 DEF ShortWorkloads
<1>3. PICK k \in 0 .. uptime - nap : ticks = Int32(to_time[c] + k)
  BY DEF DueInv, Recent
<1>4. k \in 0 .. INT_MAX + 1
  BY <1>1, <1>2, SpanType DEF DueInv
<1>5. Int32(to_time[c] - ticks) = -k
  BY <1>1, <1>3, <1>4, Int32Back
<1>6. Left(c) = Int32(to_time[c] - ticks)
  BY Apart DEF Left, Clock
<1>7. QED
  BY <1>4, <1>5, <1>6

\* A step of neither the clock nor a caller that starts to wait.
LEMMA DueFrame ==
    ASSUME DueInv, UNCHANGED <<load, ticks, uptime, nap>>,
           \A c \in Caller : /\ Pends(c)' => Pends(c) /\ to_time'[c] = to_time[c]
                             /\ tpc'[c] # "idle" => tpc[c] # "idle" \/ load.deleted # {}
    PROVE  DueInv'
<1>1. ASSUME NEW c \in Caller PROVE Recent(c)'
  <2>1. Recent(c)
    BY DEF DueInv
  <2>2. QED
    BY <2>1 DEF Recent
<1>2. ASSUME NEW c \in Caller PROVE Deletes(c)'
  BY DEF DueInv, Deletes
<1>3. QED
  BY <1>1, <1>2 DEF DueInv

\* The clock goes on.
LEMMA DueClock ==
    ASSUME ShortWorkloads, TmoInv, DueInv, hardclock \/ tc_setclock \/ timeout_adjust_ticks
    PROVE  DueInv'
<1> USE DEF clockVars, linkVars, softVars, callerVars
<1>1. UNCHANGED <<load, tpc, signalled>>
  BY DEF hardclock, tc_setclock, timeout_adjust_ticks
<1>2. \A c \in Caller : (Pends(c)' <=> Pends(c)) /\ Deletes(c)'
  BY <1>1 DEF Pends, DueInv, Deletes
<1>3. /\ load \in Workloads /\ uptime \in Nat /\ nap \in Nat /\ ticks \in Int
      /\ ticks \in -INT_MAX - 1 .. INT_MAX
      /\ \A c \in Caller : to_time[c] \in Int
  BY Apart, SpanType DEF TmoInv, ClockTypes
<1>4. nap <= uptime /\ uptime <= load.until /\ load.until \in Nat
  BY <1>3 DEF DueInv, ShortWorkloads
<1>5. ASSUME NEW c \in Caller, Pends(c)
      PROVE  \E k \in 0 .. uptime - nap : ticks = Int32(to_time[c] + k)
  BY <1>5 DEF DueInv, Recent
<1>6. CASE hardclock
  <2>1. PICK step \in load.steps : uptime + step <= load.until /\ uptime' = uptime + step
    BY <1>6 DEF hardclock
  <2>2. ticks' = Int32(ticks + 1) /\ UNCHANGED <<nap, to_time>>
    BY <1>6 DEF hardclock
  <2>3. step \in Nat /\ step >= 1
    BY <1>3, WorkloadsAssumption DEF ShortWorkloads
  <2>4. ASSUME NEW c \in Caller, Pends(c)
        PROVE  \E k \in 0 .. uptime' - nap' : ticks' = Int32(to_time'[c] + k)
    <3>1. PICK k \in 0 .. uptime - nap : ticks = Int32(to_time[c] + k)
      BY <1>5, <2>4
    <3>2. PICK n \in Int : n = to_time[c] + k
      BY <1>3
    <3>3. Int32(Int32(n) + 1) = Int32(n + 1)
      BY Int32Add
    <3>4. n + 1 = to_time[c] + (k + 1)
      BY <1>3, <3>2
    <3>5. ticks' = Int32(to_time'[c] + (k + 1))
      BY <2>2, <3>1, <3>2, <3>3, <3>4
    <3>6. k + 1 \in 0 .. uptime' - nap'
      BY <1>3, <2>1, <2>2, <2>3
    <3>7. QED
      BY <3>5, <3>6
  <2>5. nap' <= uptime' /\ uptime' <= load'.until
    BY <1>1, <1>3, <1>4, <2>1, <2>2, <2>3
  <2>6. \A c \in Caller : Recent(c)'
    BY <1>2, <2>4 DEF Recent
  <2>7. QED
    BY <1>2, <2>5, <2>6 DEF DueInv
<1>7. CASE tc_setclock
  <2>1. PICK adj \in load.adjust :
           nap = 0 /\ uptime + adj <= load.until /\ uptime' = uptime + adj /\ nap' = adj
    BY <1>7 DEF tc_setclock
  <2>2. adj \in Nat /\ UNCHANGED <<ticks, to_time>>
    BY <1>3, <1>7, WorkloadsAssumption DEF tc_setclock
  <2>3. uptime' - nap' = uptime - nap /\ nap' <= uptime' /\ uptime' <= load'.until
    BY <1>1, <1>3, <2>1, <2>2
  <2>4. ASSUME NEW c \in Caller, Pends(c)
        PROVE  \E k \in 0 .. uptime' - nap' : ticks' = Int32(to_time'[c] + k)
    BY <1>5, <2>2, <2>3, <2>4
  <2>5. \A c \in Caller : Recent(c)'
    BY <1>2, <2>4 DEF Recent
  <2>6. QED
    BY <1>2, <2>3, <2>5 DEF DueInv
<1>8. CASE timeout_adjust_ticks
  <2>1. ticks' = Int32(ticks + nap) /\ nap' = 0 /\ uptime' = uptime
    BY <1>8 DEF timeout_adjust_ticks
  <2>2. ticks' \in -INT_MAX - 1 .. INT_MAX /\ ticks' \in Int
    <3>1. ticks + nap \in Int
      BY <1>3
    <3>2. QED
      BY <2>1, <3>1, Int32Type, SpanType
  <2>3. ASSUME NEW c \in Caller PROVE to_time'[c] = ticks' \/ to_time'[c] = to_time[c]
    BY <1>8, Apart DEF timeout_adjust_ticks
  <2>4. ASSUME NEW c \in Caller, Pends(c)
        PROVE  \E k \in 0 .. uptime' - nap' : ticks' = Int32(to_time'[c] + k)
    <3>1. CASE to_time'[c] = ticks'
      <4>1. PICK n \in -INT_MAX - 1 .. INT_MAX : n = ticks' /\ n \in Int
        BY <2>2
      <4>2. n + 0 = n /\ Int32(n) = n
        <5>1. n + 0 = n
          BY SpanType
        <5>2. Int32(n) = n
          BY Int32Id
        <5>3. QED
          BY <5>1, <5>2
      <4>3. n = Int32(to_time'[c] + 0)
        BY <3>1, <4>1, <4>2
      <4>4. 0 \in 0 .. uptime' - nap'
        BY <1>3, <2>1
      <4>5. QED
        BY <4>1, <4>3, <4>4
    <3>2. CASE to_time'[c] = to_time[c]
      <4>1. PICK k \in 0 .. uptime - nap : ticks = Int32(to_time[c] + k)
        BY <1>5, <2>4
      <4>2. PICK n \in Int : n = to_time[c] + k
        BY <1>3
      <4>3. Int32(Int32(n) + nap) = Int32(n + nap)
        BY <1>3, Int32Add
      <4>4. n + nap = to_time[c] + (k + nap)
        BY <1>3, <4>2
      <4>5. ticks' = Int32(to_time'[c] + (k + nap))
        BY <2>1, <3>2, <4>1, <4>2, <4>3, <4>4
      <4>6. k + nap \in 0 .. uptime' - nap'
        BY <1>3, <1>4, <2>1
      <4>7. QED
        BY <4>5, <4>6
    <3>3. QED
      BY <2>3, <3>1, <3>2
  <2>5. nap' <= uptime' /\ uptime' <= load'.until
    BY <1>1, <1>3, <1>4, <2>1
  <2>6. \A c \in Caller : Recent(c)'
    BY <1>2, <2>4 DEF Recent
  <2>7. QED
    BY <1>2, <2>5, <2>6 DEF DueInv
<1>9. QED
  BY <1>6, <1>7, <1>8

\* A caller starts to wait: it has come here through timeout_del(), and sets
\* its barrier to the tick of the moment.
LEMMA DueBarrier ==
    ASSUME TmoInv, DueInv, NEW c \in Caller, timeout_barrier(c)
    PROVE  DueInv'
<1> USE DEF clockVars, linkVars, softVars, callerVars, TmoAt, TmoGoto
<1>1. tpc[c] = "barrier" /\ UNCHANGED <<load, ticks, uptime, nap>>
  BY DEF timeout_barrier
<1>2. /\ tpc \in [Ctx \cup Caller -> TmoPC] /\ signalled \in [Caller -> BOOLEAN]
      /\ to_time \in [AnyTo -> Int] /\ ticks \in -INT_MAX - 1 .. INT_MAX /\ ticks \in Int
      /\ uptime \in Nat /\ nap \in Nat /\ nap <= uptime /\ c \in AnyTo
  BY Apart, SpanType DEF TmoInv, SoftTypes, CallerTypes, ClockTypes, DueInv
<1>3. ASSUME NEW d \in Caller \ {c} PROVE Recent(d)' /\ Deletes(d)'
  <2>1. Recent(d) /\ Deletes(d) /\ d \in AnyTo /\ d # c
    BY Apart DEF DueInv
  <2>2. tpc'[d] = tpc[d] /\ signalled'[d] = signalled[d] /\ to_time'[d] = to_time[d]
    BY <1>2, <2>1, Apart DEF timeout_barrier
  <2>3. Pends(d)' <=> Pends(d)
    BY <2>2 DEF Pends
  <2>4. QED
    BY <1>1, <2>1, <2>2, <2>3 DEF Recent, Deletes
<1>4. Deletes(c)'
  BY <1>1 DEF DueInv, Deletes
<1>5. Recent(c)'
  <2>1. CASE tpc' = [tpc EXCEPT ![c] = "returned"]
    <3>1. tpc'[c] = "returned"
      BY <1>2, <2>1, Apart
    <3>2. QED
      BY <3>1 DEF Recent, Pends
  <2>2. CASE to_time' = [to_time EXCEPT ![c] = ticks]
    <3>1. to_time'[c] = ticks /\ Int32(ticks) = ticks /\ ticks + 0 = ticks
      BY <1>2, <2>2, Int32Id
    <3>2. 0 \in 0 .. uptime' - nap' /\ ticks' = ticks
      BY <1>1, <1>2
    <3>3. QED
      BY <3>1, <3>2 DEF Recent
  <2>3. QED
    BY <2>1, <2>2 DEF timeout_barrier
<1>6. QED
  BY <1>1, <1>3, <1>4, <1>5 DEF DueInv

\* No other step delays a barrier.
LEMMA DueRest ==
    ASSUME TmoInv, DueInv,
           \/ SoftclockStep \/ UNCHANGED tmoVars
           \/ \E x \in ThreadCtx : ThreadStep(x)
           \/ \E x \in Ctx : BarrierSignal(x) \/ RunDone(x)
           \/ \E c \in Caller \cup Ctx, t \in To : timeout_add(c, t)
           \/ \E c \in Caller, t \in To : timeout_del(c, t)
           \/ \E c \in Caller : BarrierWait(c) \/ Return(c)
    PROVE  DueInv'
<1> USE DEF clockVars, linkVars, softVars, callerVars, TmoAt, TmoGoto
<1>1. /\ tpc \in [Ctx \cup Caller -> TmoPC] /\ signalled \in [Caller -> BOOLEAN]
      /\ to_time \in [AnyTo -> Int] /\ needs \subseteq Ctx /\ "si" \in Ctx /\ ThreadCtx \subseteq Ctx
  BY DEF TmoInv, SoftTypes, CallerTypes, ClockTypes, Ctx, ThreadCtx
<1>2. ASSUME NEW z \in Ctx, NEW l, tpc' = [tpc EXCEPT ![z] = l] \/ tpc' = tpc,
             UNCHANGED <<load, ticks, uptime, nap, to_time>>,
             signalled' = signalled \/ \E d \in Caller : signalled' = [signalled EXCEPT ![d] = TRUE]
      PROVE  DueInv'
  <2>1. \A c \in Caller : tpc'[c] = tpc[c] /\ (signalled[c] => signalled'[c])
    BY <1>1, <1>2, Apart
  <2>2. QED
    BY <1>2, <2>1, DueFrame DEF Pends
<1>3. CASE SoftclockStep
  <2>1. UNCHANGED <<load, ticks, uptime, nap, to_time, signalled>>
    BY <1>3 DEF SoftclockStep, softclock, SoftclockNext, SoftclockEnd, SoftclockWake
  <2>2. PICK z \in Ctx : (\E l : tpc' = [tpc EXCEPT ![z] = l]) \/ tpc' = tpc
    BY <1>1, <1>3 DEF SoftclockStep, softclock, SoftclockNext, SoftclockEnd, SoftclockWake, timeout_run
  <2>3. QED
    BY <1>2, <2>1, <2>2
<1>4. ASSUME NEW x \in ThreadCtx, ThreadStep(x) PROVE DueInv'
  <2>1. UNCHANGED <<load, ticks, uptime, nap, to_time, signalled>>
    BY <1>4 DEF ThreadStep, ThreadSetup, ThreadSleep, ThreadEnter, ThreadNext, ThreadEnd
  <2>2. PICK z \in Ctx : \E l : tpc' = [tpc EXCEPT ![z] = l]
    BY <1>1, <1>4 DEF ThreadStep, ThreadSetup, ThreadSleep, ThreadEnter, ThreadNext, ThreadEnd,
                      timeout_run
  <2>3. QED
    BY <1>2, <2>1, <2>2
<1>5. ASSUME NEW x \in Ctx, BarrierSignal(x) \/ RunDone(x) PROVE DueInv'
  <2>1. UNCHANGED <<load, ticks, uptime, nap, to_time>>
    BY <1>5 DEF BarrierSignal, RunDone
  <2>2. /\ \E l : tpc' = [tpc EXCEPT ![x] = l]
        /\ signalled' = signalled \/ \E d \in Caller : signalled' = [signalled EXCEPT ![d] = TRUE]
    BY <1>5 DEF BarrierSignal, RunDone
  <2>3. QED
    BY <1>2, <2>1, <2>2
<1>6. ASSUME NEW b, NEW t \in To, timeout_add(b, t) PROVE DueInv'
  <2>1. UNCHANGED <<load, ticks, uptime, nap, tpc, signalled>>
    BY <1>6 DEF timeout_add
  <2>2. \A c \in Caller : to_time'[c] = to_time[c]
    BY <1>1, <1>6, Apart DEF timeout_add, Schedule
  <2>3. QED
    BY <2>1, <2>2, DueFrame DEF Pends
<1>7. ASSUME NEW b \in Caller, NEW t \in To, timeout_del(b, t) PROVE DueInv'
  <2>1. /\ UNCHANGED <<load, ticks, uptime, nap, to_time, signalled>> /\ load.deleted # {}
        /\ tpc' = [tpc EXCEPT ![b] = "barrier"]
    BY <1>7 DEF timeout_del
  <2>2. \A c \in Caller : tpc'[c] = "wait" => tpc[c] = "wait"
    BY <1>1, <2>1, Apart
  <2>3. QED
    BY <2>1, <2>2, DueFrame DEF Pends
<1>8. ASSUME NEW b \in Caller, BarrierWait(b) \/ Return(b) PROVE DueInv'
  <2>1. UNCHANGED <<load, ticks, uptime, nap, to_time, signalled>>
    BY <1>8 DEF BarrierWait, Return
  <2>2. PICK pc \in {"returned", "idle"} :
           tpc[b] # "idle" /\ tpc' = [tpc EXCEPT ![b] = pc]
    BY <1>8 DEF BarrierWait, Return
  <2>3. \A c \in Caller : /\ tpc'[c] = "wait" => tpc[c] = "wait"
                          /\ tpc'[c] # "idle" => tpc[c] # "idle"
    BY <1>1, <2>2, Apart
  <2>4. QED
    BY <2>1, <2>3, DueFrame DEF Pends
<1>9. CASE UNCHANGED tmoVars
  BY <1>9, DueFrame DEF tmoVars, Pends
<1>10. QED
  BY <1>3, <1>4, <1>5, <1>6, <1>7, <1>8, <1>9

\* The same without a condition on the behaviour: nobody is forgotten in a
\* run whose clock stays within half of the range of ticks.
THEOREM NobodyForgottenShort ==
    ASSUME ShortWorkloads
    PROVE  TmoSpec => []NoneForgotten
<1>1. TmoInit => DueInv
  <2> SUFFICES ASSUME TmoInit PROVE DueInv
    OBVIOUS
  <2>1. \A c \in Caller : tpc[c] = "idle"
    BY Apart DEF TmoInit, ThreadCtx, Ctx
  <2>2. nap <= uptime /\ uptime <= load.until
    BY DEF TmoInit, ShortWorkloads
  <2>3. QED
    BY <2>1, <2>2 DEF DueInv, Recent, Deletes, Pends
<1>2. TmoInv /\ DueInv /\ [TmoNext]_tmoVars => DueInv'
  BY DueClock, DueBarrier, DueRest DEF TmoNext
<1>3. TmoInv /\ DueInv => BarriersDue
  BY InvDue
<1>4. TmoSpec => []BarriersDue
  BY <1>1, <1>2, <1>3, TmoInvariant, PTL DEF TmoSpec
<1>5. QED
  BY <1>4, NobodyForgotten, PTL

-----------------------------------------------------------------------------
(* Division, as the wheels use it.                                          *)

\* Division leaves one quotient and one remainder only.
LEMMA DivUnique ==
    ASSUME NEW s \in Nat \ {0}, NEW q \in Int, NEW a \in Int, NEW r \in 0 .. s - 1, a = s * q + r
    PROVE  a % s = r /\ a \div s = q
<1>1. a % s = r
  BY ModUnique
<1>2. PICK d \in Int : a = s * d + r /\ d = a \div s
  <2>1. a \div s \in Int /\ a = s * (a \div s) + (a % s)
    OBVIOUS
  <2>2. QED
    BY <1>1, <2>1
<1>3. s * (q - d) = 0
  <2>1. PICK u \in Int, v \in Int : u = s * q /\ v = s * d
    OBVIOUS
  <2>2. u = v
    BY <1>2, <2>1
  <2>3. s * (q - d) = s * q - s * d
    OBVIOUS
  <2>4. QED
    BY <2>1, <2>2, <2>3
<1>4. ASSUME q - d >= 1 PROVE FALSE
  <2>1. s * (q - d) >= s
    BY <1>4
  <2>2. QED
    BY <1>3, <2>1
<1>5. ASSUME q - d <= -1 PROVE FALSE
  <2>1. s * (q - d) <= -s
    BY <1>5
  <2>2. QED
    BY <1>3, <2>1
<1>6. q = d
  BY <1>4, <1>5
<1>7. QED
  BY <1>1, <1>2, <1>6

\* Every number has them.
LEMMA DivMod ==
    ASSUME NEW s \in Nat \ {0}, NEW a \in Int
    PROVE  /\ a \div s \in Int /\ a % s \in 0 .. s - 1
           /\ a = s * (a \div s) + (a % s)
  OBVIOUS

\* A multiple of the divisor moves the quotient and leaves the remainder.
LEMMA DivAdd ==
    ASSUME NEW s \in Nat \ {0}, NEW a \in Int, NEW k \in Int
    PROVE  /\ (a + s * k) \div s = (a \div s) + k
           /\ (a + s * k) % s = a % s
<1>1. PICK q \in Int, r \in 0 .. s - 1 : q = a \div s /\ r = a % s /\ a = s * q + r
  BY DivMod
<1>2. PICK b \in Int, p \in Int : b = a + s * k /\ p = q + k
  OBVIOUS
<1>3. s * p = s * q + s * k
  BY <1>2
<1>4. b = s * p + r
  <2>1. PICK u \in Int, v \in Int, w \in Int : u = s * q /\ v = s * k /\ w = s * p
    OBVIOUS
  <2>2. w = u + v /\ a = u + r /\ b = a + v
    BY <1>1, <1>2, <1>3, <2>1
  <2>3. b = w + r
    BY <2>2
  <2>4. QED
    BY <2>1, <2>3
<1>5. b % s = r /\ b \div s = p
  BY <1>4, DivUnique
<1>6. QED
  BY <1>1, <1>2, <1>5

\* Dividing keeps the order.
LEMMA DivMono ==
    ASSUME NEW s \in Nat \ {0}, NEW a \in Int, NEW b \in Int, a <= b
    PROVE  a \div s <= b \div s
<1>1. PICK q \in Int, r \in 0 .. s - 1 : q = a \div s /\ a = s * q + r
  BY DivMod
<1>2. PICK p \in Int, m \in 0 .. s - 1 : p = b \div s /\ b = s * p + m
  BY DivMod
<1>3. ASSUME q - p >= 1 PROVE FALSE
  <2>1. s * (q - p) >= s
    BY <1>3
  <2>2. s * (q - p) = s * q - s * p
    OBVIOUS
  <2>3. PICK u \in Int, v \in Int : u = s * q /\ v = s * p
    OBVIOUS
  <2>4. u - v >= s
    BY <2>1, <2>2, <2>3
  <2>5. a = u + r /\ b = v + m
    BY <1>1, <1>2, <2>3
  <2>6. QED
    BY <2>4, <2>5
<1>4. q <= p
  BY <1>3
<1>5. QED
  BY <1>1, <1>2, <1>4

\* Dividing twice is dividing by the product.
LEMMA DivDiv ==
    ASSUME NEW s \in Nat \ {0}, NEW w \in Nat \ {0}, NEW a \in Int
    PROVE  (a \div s) \div w = a \div (s * w)
<1>1. PICK q \in Int, r \in 0 .. s - 1 : q = a \div s /\ a = s * q + r
  BY DivMod
<1>2. PICK p \in Int, m \in 0 .. w - 1 : p = q \div w /\ q = w * p + m
  BY DivMod
<1>3. PICK t \in Nat \ {0} : t = s * w
  OBVIOUS
<1>4. PICK x \in Int : x = s * m + r
  OBVIOUS
<1>5. x \in 0 .. t - 1
  <2>1. s * m >= 0
    OBVIOUS
  <2>2. s * (w - 1 - m) >= 0
    OBVIOUS
  <2>3. s * (w - 1 - m) = s * w - s - s * m
    OBVIOUS
  <2>4. PICK u \in Int : u = s * m
    OBVIOUS
  <2>5. u >= 0 /\ t - s - u >= 0 /\ x = u + r
    BY <1>3, <1>4, <2>1, <2>2, <2>3, <2>4
  <2>6. QED
    BY <2>5
<1>6. a = t * p + x
  <2>1. s * (w * p + m) = s * w * p + s * m
    OBVIOUS
  <2>2. PICK u \in Int, v \in Int : u = s * m /\ v = t * p
    OBVIOUS
  <2>3. s * q = v + u
    BY <1>2, <1>3, <2>1, <2>2
  <2>4. a = v + u + r
    BY <1>1, <2>3
  <2>5. QED
    BY <1>4, <2>2, <2>4
<1>7. a \div t = p
  BY <1>5, <1>6, DivUnique
<1>8. QED
  BY <1>1, <1>2, <1>3, <1>7

-----------------------------------------------------------------------------
(* The levels of the wheels.                                                *)

\* A level's span divides the spans above it, WHEELSIZE times at least, and
\* an int's range.
LEMMA SpanFactors ==
    /\ Span(0) = 1
    /\ \A l \in 0 .. 2 : Span(l + 1) = Span(l) * WHEELSIZE
    /\ 2 * (INT_MAX + 1) = Span(3) * WHEELSIZE
    /\ \A l \in 0 .. 3 : \E c \in Nat : 2 * (INT_MAX + 1) = Span(l) * (WHEELSIZE * c)
    /\ \A l \in 0 .. 3 : \A k \in 0 .. l - 1 : \E c \in Nat : Span(l) = Span(k) * (WHEELSIZE * c)
<1>1. PICK w \in Nat \ {0} : w = WHEELSIZE /\ w % 2 = 0
  BY TimeoutAssumption
<1>2. PICK a \in Nat, b \in Nat, c \in Nat : a = w * w /\ b = a * w /\ c = b * w
  OBVIOUS
<1>3. /\ Span(0) = 1 /\ Span(1) = w /\ Span(2) = w * w /\ Span(3) = w * w * w
  BY <1>1 DEF Span
<1>4. Span(2) = a /\ Span(3) = b
  BY <1>2, <1>3
<1>5. Span(0 + 1) = Span(0) * w /\ Span(1 + 1) = Span(1) * w /\ Span(2 + 1) = Span(2) * w
  <2>1. 1 * w = w /\ 0 + 1 = 1 /\ 1 + 1 = 2 /\ 2 + 1 = 3
    OBVIOUS
  <2>2. QED
    BY <1>2, <1>3, <1>4, <2>1
<1>6. \A l \in 0 .. 2 : Span(l + 1) = Span(l) * WHEELSIZE
  <2>1. \A l \in 0 .. 2 : l = 0 \/ l = 1 \/ l = 2
    OBVIOUS
  <2>2. QED
    BY <1>1, <1>5, <2>1
<1>7. 2 * (INT_MAX + 1) = c
  <2>1. PICK h \in Nat : w = 2 * h
    BY <1>1
  <2>2. c = 2 * (b * h)
    <3>1. b * (2 * h) = 2 * (b * h)
      OBVIOUS
    <3>2. QED
      BY <1>2, <2>1, <3>1
  <2>3. PICK x \in Nat : x = b * h
    OBVIOUS
  <2>4. c \div 2 = x
    BY <2>2, <2>3
  <2>5. w * b = c
    BY <1>2
  <2>6. INT_MAX = x - 1
    BY <1>1, <1>4, <2>4, <2>5 DEF INT_MAX
  <2>7. QED
    BY <2>2, <2>3, <2>6
<1>8. Span(3) * WHEELSIZE = c
  BY <1>1, <1>2, <1>4
<1>9. \A l \in 0 .. 3 : \E d \in Nat : c = Span(l) * (WHEELSIZE * d)
  <2>1. c = 1 * (w * b) /\ c = w * (w * a) /\ c = a * (w * w) /\ c = b * (w * 1)
    BY <1>2
  <2>2. \A l \in 0 .. 3 : l = 0 \/ l = 1 \/ l = 2 \/ l = 3
    OBVIOUS
  <2>3. Span(1) = w /\ Span(0) = 1 /\ Span(2) = a /\ Span(3) = b
    BY <1>3, <1>4
  <2> SUFFICES ASSUME NEW l \in 0 .. 3 PROVE \E d \in Nat : c = Span(l) * (w * d)
    BY <1>1
  <2>4. CASE l = 0
    BY <2>1, <2>3, <2>4
  <2>5. CASE l = 1
    BY <2>1, <2>3, <2>5
  <2>6. CASE l = 2
    BY <2>1, <2>3, <2>6
  <2>7. CASE l = 3
    BY <2>1, <2>3, <2>7
  <2>8. QED
    BY <2>2, <2>4, <2>5, <2>6, <2>7
<1>10. \A l \in 0 .. 3 : \A k \in 0 .. l - 1 : \E d \in Nat : Span(l) = Span(k) * (WHEELSIZE * d)
  <2> SUFFICES ASSUME NEW l \in 0 .. 3, NEW k \in 0 .. l - 1
               PROVE  \E d \in Nat : Span(l) = Span(k) * (w * d)
    BY <1>1
  <2>1. /\ w = 1 * (w * 1) /\ a = 1 * (w * w) /\ b = 1 * (w * a)
        /\ a = w * (w * 1) /\ b = w * (w * w) /\ b = a * (w * 1)
    BY <1>2
  <2>2. \/ l \in {1, 2, 3} /\ k = 0
        \/ l \in {2, 3} /\ k = 1
        \/ l = 3 /\ k = 2
    <3>1. l \in {0, 1, 2, 3} /\ k \in Nat /\ k < l
      OBVIOUS
    <3>2. QED
      BY <3>1
  <2>3. Span(1) = w /\ Span(0) = 1 /\ Span(2) = a /\ Span(3) = b
    BY <1>3, <1>4
  <2>4. CASE l = 1 /\ k = 0
    BY <2>1, <2>3, <2>4
  <2>5. CASE l = 2 /\ k = 0
    BY <2>1, <2>3, <2>5
  <2>6. CASE l = 3 /\ k = 0
    BY <2>1, <2>3, <2>6
  <2>7. CASE l = 2 /\ k = 1
    BY <2>1, <2>3, <2>7
  <2>8. CASE l = 3 /\ k = 1
    BY <2>1, <2>3, <2>8
  <2>9. CASE l = 3 /\ k = 2
    BY <2>1, <2>3, <2>9
  <2>10. QED
    BY <2>2, <2>4, <2>5, <2>6, <2>7, <2>8, <2>9
<1>11. QED
  BY <1>3, <1>6, <1>7, <1>8, <1>9, <1>10

\* An int differs from its number by a multiple of the range.
LEMMA Int32Multiple ==
    ASSUME NEW n \in Int
    PROVE  \E k \in Int : Int32(n) = n + 2 * (INT_MAX + 1) * k
<1>1. PICK m \in Nat, M \in Nat \ {0} : m = INT_MAX /\ M = 2 * (m + 1)
  BY SpanType
<1>2. PICK a \in Int : a = n + m + 1
  OBVIOUS
<1>3. PICK q \in Int, r \in 0 .. M - 1 : q = a \div M /\ r = a % M /\ a = M * q + r
  BY DivMod
<1>4. Int32(n) = r - m - 1
  BY <1>1, <1>2, <1>3 DEF Int32
<1>5. M * (-q) = -(M * q)
  OBVIOUS
<1>6. r - m - 1 = n + M * (-q)
  <2>1. PICK u \in Int : u = M * q
    OBVIOUS
  <2>2. QED
    BY <1>2, <1>3, <1>5, <2>1
<1>7. -q \in Int
  OBVIOUS
<1>8. QED
  BY <1>1, <1>4, <1>6, <1>7

\* The bucket of a tick, on any level, and its place in the bucket do not
\* depend on the laps of the tick counter.
LEMMA MaskLaps ==
    ASSUME NEW n \in Int, NEW j \in Int, NEW l \in 0 .. 3
    PROVE  /\ MASKWHEEL(l, Int32(n) + j) = MASKWHEEL(l, n + j)
           /\ (Int32(n) + j) % Span(l) = (n + j) % Span(l)
<1>1. PICK s \in Nat \ {0}, w \in Nat \ {0} : s = Span(l) /\ w = WHEELSIZE
  BY SpanType, TimeoutAssumption
<1>2. PICK M \in Nat : M = 2 * (INT_MAX + 1)
  BY SpanType
<1>3. PICK c \in Nat : M = s * (w * c)
  BY <1>1, <1>2, SpanFactors
<1>4. PICK k \in Int : Int32(n) = n + M * k
  BY <1>2, Int32Multiple
<1>5. PICK x \in Int, y \in Int, b \in Int : x = w * y /\ y = c * k /\ b = n + j
  OBVIOUS
<1>6. M * k = s * x
  <2>1. s * (w * c) * k = s * (w * (c * k))
    OBVIOUS
  <2>2. QED
    BY <1>3, <1>5, <2>1
<1>7. Int32(n) + j = b + s * x
  <2>1. PICK u \in Int : u = s * x
    OBVIOUS
  <2>2. Int32(n) = n + u
    BY <1>4, <1>6, <2>1
  <2>3. QED
    BY <1>5, <2>1, <2>2
<1>8. (b + s * x) \div s = (b \div s) + x /\ (b + s * x) % s = b % s
  BY DivAdd
<1>9. PICK d \in Int : d = b \div s
  BY DivMod
<1>10. (d + w * y) % w = d % w
  BY DivAdd
<1>11. MASKWHEEL(l, b + s * x) = d % w
  BY <1>1, <1>5, <1>8, <1>9, <1>10 DEF MASKWHEEL
<1>12. MASKWHEEL(l, b) = d % w
  BY <1>1, <1>9 DEF MASKWHEEL
<1>13. QED
  BY <1>1, <1>5, <1>7, <1>8, <1>11, <1>12

\* At the first tick of a bucket the levels below have come round.
LEMMA MaskLow ==
    ASSUME NEW n \in Int, NEW l \in 0 .. 3, n % Span(l) = 0, NEW k \in 0 .. l - 1
    PROVE  MASKWHEEL(k, n) = 0
<1>1. PICK s \in Nat \ {0}, t \in Nat \ {0}, w \in Nat \ {0} :
         s = Span(l) /\ t = Span(k) /\ w = WHEELSIZE
  BY SpanType, TimeoutAssumption
<1>2. PICK c \in Nat : s = t * (w * c)
  BY <1>1, SpanFactors
<1>3. PICK q \in Int : n = s * q
  <2>1. n \div s \in Int /\ n = s * (n \div s) + (n % s)
    BY DivMod
  <2>2. n % s = 0
    BY <1>1
  <2>3. n = s * (n \div s)
    BY <2>1, <2>2
  <2>4. QED
    BY <2>1, <2>3
<1>4. PICK y \in Int, x \in Int : y = c * q /\ x = w * y
  OBVIOUS
<1>5. n = t * x
  <2>1. t * (w * c) * q = t * (w * (c * q))
    OBVIOUS
  <2>2. QED
    BY <1>2, <1>3, <1>4, <2>1
<1>6. n \div t = x
  <2>1. PICK z \in 0 .. t - 1 : z = 0
    OBVIOUS
  <2>2. n = t * x + z
    BY <1>5, <2>1
  <2>3. QED
    BY <2>2, DivUnique
<1>7. x % w = 0
  <2>1. PICK z \in 0 .. w - 1 : z = 0
    OBVIOUS
  <2>2. x = w * y + z
    BY <1>4, <2>1
  <2>3. QED
    BY <2>1, <2>2, DivUnique
<1>8. QED
  BY <1>1, <1>6, <1>7 DEF MASKWHEEL

\* What timeout_bucket() and BUCKET() choose: on a level other than the first
\* the time is more than a bucket of that level away, so that the bucket does
\* not begin before now, and begins no later than the time.
LEMMA TickPlace ==
    ASSUME NEW n \in Int, NEW r \in Nat, r > 0, NEW l \in 0 .. 3, l > 0 => r > Span(l)
    PROVE  \E e \in 1 .. r : /\ (n + e) % Span(l) = 0
                             /\ MASKWHEEL(l, n + e) = MASKWHEEL(l, n + r)
<1>1. PICK s \in Nat \ {0}, b \in Int : s = Span(l) /\ b = n + r
  BY SpanType
<1>2. PICK q \in Int, m \in 0 .. s - 1 : q = b \div s /\ m = b % s /\ b = s * q + m
  BY DivMod
<1>3. PICK e \in Int : e = r - m
  OBVIOUS
<1>4. e \in 1 .. r
  <2>1. CASE l = 0
    <3>1. s = 1
      BY <1>1, <2>1, SpanFactors
    <3>2. QED
      BY <1>3, <3>1
  <2>2. CASE l > 0
    BY <1>1, <1>3, <2>2
  <2>3. QED
    BY <2>1, <2>2
<1>5. PICK z \in 0 .. s - 1, x \in Int : z = 0 /\ x = n + e
  OBVIOUS
<1>6. x = s * q + z
  <2>1. PICK u \in Int : u = s * q
    OBVIOUS
  <2>2. n + r = u + m
    BY <1>1, <1>2, <2>1
  <2>3. x = u
    BY <1>3, <1>5, <2>2
  <2>4. QED
    BY <1>5, <2>1, <2>3
<1>7. x % s = z /\ x \div s = q
  BY <1>6, DivUnique
<1>8. MASKWHEEL(l, x) = MASKWHEEL(l, b)
  BY <1>1, <1>2, <1>7 DEF MASKWHEEL
<1>9. QED
  BY <1>1, <1>4, <1>5, <1>7, <1>8

\* BUCKET() chooses the bucket of the time on a level that the distance is
\* longer than a bucket of.
LEMMA BUCKETLevel ==
    ASSUME NEW rel \in Int, NEW abs \in Int
    PROVE  \E l \in 0 .. 3 : /\ BUCKET(rel, abs) = <<"none", l, MASKWHEEL(l, abs)>>
                             /\ l > 0 => rel > Span(l)
<1>1. Span(1) \in Int /\ Span(2) \in Int /\ Span(3) \in Int
  BY SpanType
<1>2. CASE rel <= Span(1)
  <2>1. BUCKET(rel, abs) = <<"none", 0, MASKWHEEL(0, abs)>>
    BY <1>2 DEF BUCKET
  <2>2. QED
    BY <2>1
<1>3. CASE rel > Span(1) /\ rel <= Span(2)
  <2>1. BUCKET(rel, abs) = <<"none", 1, MASKWHEEL(1, abs)>>
    BY <1>1, <1>3 DEF BUCKET
  <2>2. QED
    BY <1>3, <2>1
<1>4. CASE rel > Span(1) /\ rel > Span(2) /\ rel <= Span(3)
  <2>1. BUCKET(rel, abs) = <<"none", 2, MASKWHEEL(2, abs)>>
    BY <1>1, <1>4 DEF BUCKET
  <2>2. QED
    BY <1>4, <2>1
<1>5. CASE rel > Span(1) /\ rel > Span(2) /\ rel > Span(3)
  <2>1. BUCKET(rel, abs) = <<"none", 3, MASKWHEEL(3, abs)>>
    BY <1>1, <1>5 DEF BUCKET
  <2>2. QED
    BY <1>5, <2>1
<1>6. QED
  BY <1>1, <1>2, <1>3, <1>4, <1>5

-----------------------------------------------------------------------------
(* The wheel of the uptime clock.                                           *)

\* The number of the bucket of a time, without the laps taken off.
Block(l, x) == (x \div Sub) \div Span(l)

\* Its place on the wheel; and the numbers grow with the time.
LEMMA BlockFacts ==
    ASSUME NEW l \in 0 .. 3, NEW x \in Int
    PROVE  /\ Block(l, x) \in Int
           /\ timeout_maskwheel(l, x) = Block(l, x) % WHEELSIZE
           /\ \A y \in Int : x <= y => Block(l, x) <= Block(l, y)
           /\ \A y \in Int : y - x >= Sub * Span(l) => Block(l, x) < Block(l, y)
           /\ l < 3 => Block(l + 1, x) = Block(l, x) \div WHEELSIZE
<1>1. PICK s \in Nat \ {0}, u \in Nat \ {0}, w \in Nat \ {0} :
         s = Span(l) /\ u = Sub /\ w = WHEELSIZE
  BY SpanType, TimeoutAssumption
<1>2. PICK d \in Int : d = x \div u
  BY DivMod
<1>3. d \div s \in Int
  BY DivMod
<1>4. timeout_maskwheel(l, x) = Block(l, x) % WHEELSIZE
  BY DEF timeout_maskwheel, MASKWHEEL, Block
<1>5. ASSUME NEW a \in Int, NEW b \in Int, a <= b PROVE (a \div u) \div s <= (b \div u) \div s
  <2>1. PICK c \in Int, e \in Int : c = a \div u /\ e = b \div u
    BY DivMod
  <2>2. c <= e
    BY <1>5, <2>1, DivMono
  <2>3. c \div s <= e \div s
    BY <2>2, DivMono
  <2>4. QED
    BY <2>1, <2>3
<1>6. ASSUME NEW y \in Int, y - x >= u * s PROVE (x \div u) \div s < (y \div u) \div s
  <2>1. PICK a \in Int, t \in Int : t = u * s /\ a = x + u * s
    OBVIOUS
  <2>2. a \div u = d + s
    BY <1>2, <2>1, DivAdd
  <2>3. PICK one \in Int, v \in Int : one = 1 /\ v = d + s * one
    OBVIOUS
  <2>4. v = d + s
    BY <2>3
  <2>5. v \div s = (d \div s) + 1
    BY <2>3, DivAdd
  <2>6. (a \div u) \div s = (d \div s) + 1
    BY <2>2, <2>4, <2>5
  <2>7. a <= y
    BY <1>6, <2>1
  <2>8. (a \div u) \div s <= (y \div u) \div s
    BY <1>5, <2>7
  <2>9. PICK f \in Int, g \in Int : f = d \div s /\ g = (y \div u) \div s
    <3>1. PICK e \in Int : e = y \div u
      BY DivMod
    <3>2. e \div s \in Int
      BY DivMod
    <3>3. QED
      BY <1>3, <3>1, <3>2
  <2>10. f + 1 <= g
    BY <2>6, <2>8, <2>9
  <2>11. f < g
    BY <2>10
  <2>12. QED
    BY <1>2, <2>9, <2>11
<1>7. ASSUME l < 3 PROVE Block(l + 1, x) = Block(l, x) \div WHEELSIZE
  <2>1. Span(l + 1) = s * w
    BY <1>1, <1>7, SpanFactors
  <2>2. (d \div s) \div w = d \div (s * w)
    BY DivDiv
  <2>3. QED
    BY <1>1, <1>2, <2>1, <2>2 DEF Block
<1>8. QED
  BY <1>1, <1>2, <1>3, <1>4, <1>5, <1>6, <1>7 DEF Block

\* Two times in one bucket of a level are in one of every level above.
LEMMA BlocksAbove ==
    ASSUME NEW k \in 0 .. 3, NEW l \in k .. 3, NEW x \in Int, NEW y \in Int,
           Block(k, x) = Block(k, y)
    PROVE  Block(l, x) = Block(l, y)
<1>1. \A j \in 0 .. 2 : Block(j, x) = Block(j, y) => Block(j + 1, x) = Block(j + 1, y)
  <2> SUFFICES ASSUME NEW j \in 0 .. 2, Block(j, x) = Block(j, y)
               PROVE  Block(j + 1, x) = Block(j + 1, y)
    OBVIOUS
  <2>1. j \in 0 .. 3 /\ j < 3
    OBVIOUS
  <2>2. QED
    BY <2>1, BlockFacts
<1>2. /\ Block(0, x) = Block(0, y) => Block(1, x) = Block(1, y)
      /\ Block(1, x) = Block(1, y) => Block(2, x) = Block(2, y)
      /\ Block(2, x) = Block(2, y) => Block(3, x) = Block(3, y)
  <2>1. 0 + 1 = 1 /\ 1 + 1 = 2 /\ 2 + 1 = 3 /\ {0, 1, 2} \subseteq 0 .. 2
    OBVIOUS
  <2>2. QED
    BY <1>1, <2>1
<1>3. k \in {0, 1, 2, 3} /\ l \in {0, 1, 2, 3} /\ k <= l
  OBVIOUS
<1>4. CASE k = l
  BY <1>4
<1>5. CASE k = 0 /\ l # 0
  BY <1>2, <1>3, <1>5
<1>6. CASE k = 1 /\ l # 1
  BY <1>2, <1>3, <1>6
<1>7. CASE k = 2 /\ l # 2
  BY <1>2, <1>3, <1>7
<1>8. CASE k = 3
  BY <1>3, <1>8
<1>9. QED
  BY <1>3, <1>4, <1>5, <1>6, <1>7, <1>8

\* The scan of a level comes to the right conclusion about laps: either the
\* level's width has passed, or less than a lap of its buckets.
NoLap(then, now) ==
    \A l \in 0 .. 3 : ScanAll(l, then, now) \/ Block(l, now) - Block(l, then) < WHEELSIZE

\* Then a level that is scanned is emptied from the bucket of the last scan to
\* the one of now.
LEMMA ScanCovers ==
    ASSUME NEW then \in Int, NEW now \in Int, then <= now, NoLap(then, now), NEW l \in 0 .. 3,
           ~\E k \in 0 .. l - 1 : ScanDone(k, then, now), NEW n \in Int,
           ScanAll(l, then, now) \/ (Block(l, then) <= n /\ n <= Block(l, now))
    PROVE  <<"uptime", l, n % WHEELSIZE>> \in Elements(ScanLevel(l, then, now))
<1>1. PICK w \in Nat \ {0}, A \in Int, B \in Int :
         /\ w = WHEELSIZE /\ A = Block(l, then) /\ B = Block(l, now) /\ A <= B
         /\ timeout_maskwheel(l, then) = A % w /\ timeout_maskwheel(l, now) = B % w
  <2>1. WHEELSIZE \in Nat \ {0} /\ l \in 0 .. 3
    BY TimeoutAssumption
  <2>2. /\ Block(l, then) \in Int /\ Block(l, now) \in Int /\ Block(l, then) <= Block(l, now)
        /\ timeout_maskwheel(l, then) = Block(l, then) % WHEELSIZE
        /\ timeout_maskwheel(l, now) = Block(l, now) % WHEELSIZE
    BY <2>1, BlockFacts
  <2>3. QED
    BY <2>1, <2>2
<1>2. PICK f \in 0 .. w - 1 : f = A % w /\ f = ScanFirst(l, then)
  BY <1>1, DivMod DEF ScanFirst
<1>3. PICK len \in Nat :
         /\ len = (ScanLast(l, then, now) - ScanFirst(l, then)) % w
         /\ \E j \in 0 .. len : (f + j) % w = n % w
  <2>1. CASE ScanAll(l, then, now)
    <3>1. ScanLast(l, then, now) = (f - 1) % w
      BY <1>1, <1>2, <2>1 DEF ScanLast
    <3>2. PICK g \in Int : g = -f /\ ((f - 1) % w) + g = ((f - 1) % w) - f
      BY DivMod
    <3>3. (((f - 1) % w) + g) % w = ((f - 1) + g) % w
      <4>1. PICK a \in Int : a = f - 1
        OBVIOUS
      <4>2. ((a % w) + g) % w = (a + g) % w
        BY ModAdd
      <4>3. QED
        BY <4>1, <4>2
    <3>4. (f - 1) + g = -1
      BY <3>2
    <3>5. (-1) % w = w - 1
      <4>1. PICK a \in Int, q \in Int, r \in 0 .. w - 1 : a = -1 /\ q = -1 /\ r = w - 1
        OBVIOUS
      <4>2. a = w * q + r
        BY <4>1
      <4>3. QED
        BY <4>1, <4>2, ModUnique
    <3>6. (ScanLast(l, then, now) - ScanFirst(l, then)) % w = w - 1
      BY <1>2, <3>1, <3>2, <3>3, <3>4, <3>5
    <3>7. PICK d \in Int : d = n - A
      OBVIOUS
    <3>8. PICK j \in 0 .. w - 1 : j = d % w
      BY DivMod
    <3>9. (f + j) % w = n % w
      <4>1. f \in Int /\ j \in Int
        OBVIOUS
      <4>2. (j + f) % w = (d + f) % w
        <5>1. ((d % w) + f) % w = (d + f) % w
          BY <4>1, ModAdd
        <5>2. QED
          BY <3>8, <5>1
      <4>3. (f + d) % w = (A + d) % w
        <5>1. ((A % w) + d) % w = (A + d) % w
          BY ModAdd
        <5>2. QED
          BY <1>2, <5>1
      <4>4. f + j = j + f /\ f + d = d + f /\ A + d = n
        BY <3>7
      <4>5. QED
        BY <4>2, <4>3, <4>4
    <3>10. w - 1 \in Nat
      OBVIOUS
    <3>11. QED
      BY <3>6, <3>8, <3>9, <3>10
  <2>2. CASE ~ScanAll(l, then, now)
    <3>1. ScanLast(l, then, now) = B % w
      BY <1>1, <2>2 DEF ScanLast
    <3>2. PICK len \in 0 .. w - 1 : len = B - A
      BY <1>1, <2>2 DEF NoLap
    <3>3. PICK g \in Int : g = -f /\ (B % w) + g = (B % w) - f
      BY DivMod
    <3>4. ((B % w) + g) % w = (B + g) % w
      BY ModAdd
    <3>5. (B + g) % w = len
      <4>1. PICK q \in Int : A = w * q + f
        BY <1>2, DivMod
      <4>2. PICK a \in Int : a = B + g
        OBVIOUS
      <4>3. a = w * q + len
        <5>1. PICK u \in Int : u = w * q
          OBVIOUS
        <5>2. QED
          BY <3>2, <3>3, <4>1, <4>2, <5>1
      <4>4. QED
        BY <4>2, <4>3, ModUnique
    <3>6. (ScanLast(l, then, now) - ScanFirst(l, then)) % w = len
      BY <1>2, <3>1, <3>3, <3>4, <3>5
    <3>7. PICK j \in 0 .. len : j = n - A
      BY <1>1, <2>2, <3>2
    <3>8. ((A % w) + j) % w = (A + j) % w
      <4>1. j \in Int
        OBVIOUS
      <4>2. QED
        BY <4>1, ModAdd
    <3>9. A + j = n
      BY <3>7
    <3>10. (f + j) % w = n % w /\ len \in Nat
      BY <1>2, <3>8, <3>9
    <3>11. QED
      BY <3>6, <3>7, <3>10
  <2>3. QED
    BY <2>1, <2>2
<1>4. PICK j \in 0 .. len : (f + j) % w = n % w
  BY <1>3
<1>5. ScanLevel(l, then, now) = [i \in 1 .. len + 1 |-> <<"uptime", l, (f + i - 1) % w>>]
  BY <1>1, <1>2, <1>3 DEF ScanLevel
<1>6. PICK i \in 1 .. len + 1 : i = j + 1
  OBVIOUS
<1>7. f + i - 1 = f + j
  BY <1>6
<1>8. Len(ScanLevel(l, then, now)) = len + 1
  BY <1>5
<1>9. ScanLevel(l, then, now)[i] = <<"uptime", l, n % w>>
  BY <1>4, <1>5, <1>7
<1>10. QED
  BY <1>1, <1>8, <1>9 DEF Elements

\* A scan that stops below a level has not left the level's bucket.
LEMMA ScanStops ==
    ASSUME NEW then \in Int, NEW now \in Int, then <= now, NoLap(then, now), NEW k \in 0 .. 2,
           ScanDone(k, then, now), NEW l \in k + 1 .. 3
    PROVE  Block(l, then) = Block(l, now)
<1>1. PICK w \in Nat \ {0}, A \in Int, B \in Int :
         /\ w = WHEELSIZE /\ A = Block(k, then) /\ B = Block(k, now) /\ A <= B
         /\ timeout_maskwheel(k, then) = A % w /\ timeout_maskwheel(k, now) = B % w
  <2>1. WHEELSIZE \in Nat \ {0} /\ k \in 0 .. 3
    BY TimeoutAssumption
  <2>2. /\ Block(k, then) \in Int /\ Block(k, now) \in Int /\ Block(k, then) <= Block(k, now)
        /\ timeout_maskwheel(k, then) = Block(k, then) % WHEELSIZE
        /\ timeout_maskwheel(k, now) = Block(k, now) % WHEELSIZE
    BY <2>1, BlockFacts
  <2>3. QED
    BY <2>1, <2>2
<1>2. ~ScanAll(k, then, now) /\ A % w <= B % w
  BY <1>1 DEF ScanDone, ScanFirst, ScanLast
<1>3. B - A < w
  BY <1>1, <1>2 DEF NoLap
<1>4. PICK q \in Int, f \in 0 .. w - 1 : q = A \div w /\ f = A % w /\ A = w * q + f
  BY DivMod
<1>5. PICK p \in Int, g \in 0 .. w - 1 : p = B \div w /\ g = B % w /\ B = w * p + g
  BY DivMod
<1>6. q <= p
  BY <1>1, <1>4, <1>5, DivMono
<1>7. ASSUME p - q >= 1 PROVE FALSE
  <2>1. w * (p - q) >= w /\ w * (p - q) = w * p - w * q
    BY <1>7
  <2>2. PICK u \in Int, v \in Int : u = w * q /\ v = w * p
    OBVIOUS
  <2>3. v - u >= w /\ A = u + f /\ B = v + g
    BY <1>4, <1>5, <2>1, <2>2
  <2>4. f <= g
    BY <1>2, <1>4, <1>5
  <2>5. QED
    BY <1>3, <2>3, <2>4
<1>8. p = q
  BY <1>6, <1>7
<1>9. PICK m \in 0 .. 3 : m = k + 1 /\ l \in m .. 3
  OBVIOUS
<1>10. Block(m, then) = A \div w /\ Block(m, now) = B \div w
  <2>1. k \in 0 .. 3 /\ k < 3
    OBVIOUS
  <2>2. Block(k + 1, then) = Block(k, then) \div WHEELSIZE
        /\ Block(k + 1, now) = Block(k, now) \div WHEELSIZE
    BY <2>1, BlockFacts
  <2>3. QED
    BY <1>1, <1>9, <2>2
<1>11. QED
  BY <1>4, <1>5, <1>8, <1>9, <1>10, BlocksAbove

-----------------------------------------------------------------------------
(* What a dump leaves on the wheel.                                         *)

\* The elements of two sequences, one after the other.
LEMMA ConcatElements ==
    ASSUME NEW T, NEW s \in Seq(T), NEW t \in Seq(T)
    PROVE  s \o t \in Seq(T) /\ Elements(s \o t) = Elements(s) \cup Elements(t)
<1>1. /\ s \o t \in Seq(T) /\ Len(s \o t) = Len(s) + Len(t)
      /\ \A i \in 1 .. Len(s) + Len(t) :
            (s \o t)[i] = IF i <= Len(s) THEN s[i] ELSE t[i - Len(s)]
      /\ Len(s) \in Nat /\ Len(t) \in Nat
  OBVIOUS
<1>2. \A i \in 1 .. Len(s) : i \in 1 .. Len(s) + Len(t) /\ (s \o t)[i] = s[i]
  BY <1>1
<1>3. \A i \in 1 .. Len(t) : i + Len(s) \in 1 .. Len(s) + Len(t) /\ (s \o t)[i + Len(s)] = t[i]
  <2> SUFFICES ASSUME NEW i \in 1 .. Len(t)
               PROVE  i + Len(s) \in 1 .. Len(s) + Len(t) /\ (s \o t)[i + Len(s)] = t[i]
    OBVIOUS
  <2>1. PICK k \in 1 .. Len(s) + Len(t) : k = i + Len(s) /\ ~(k <= Len(s)) /\ k - Len(s) = i
    BY <1>1
  <2>2. QED
    BY <1>1, <2>1
<1>4. \A i \in 1 .. Len(s) + Len(t) : (s \o t)[i] \in Elements(s) \cup Elements(t)
  <2> SUFFICES ASSUME NEW i \in 1 .. Len(s) + Len(t)
               PROVE  (s \o t)[i] \in Elements(s) \cup Elements(t)
    OBVIOUS
  <2>1. CASE i <= Len(s)
    BY <1>1, <2>1 DEF Elements
  <2>2. CASE ~(i <= Len(s))
    <3>1. i - Len(s) \in 1 .. Len(t)
      BY <1>1, <2>2
    <3>2. QED
      BY <1>1, <2>2, <3>1 DEF Elements
  <2>3. QED
    BY <2>1, <2>2
<1>5. Elements(s \o t) = {(s \o t)[i] : i \in 1 .. Len(s) + Len(t)}
  BY <1>1 DEF Elements
<1>6. \A z \in Elements(s) : z \in Elements(s \o t)
  BY <1>2, <1>5 DEF Elements
<1>7. \A z \in Elements(t) : z \in Elements(s \o t)
  BY <1>3, <1>5 DEF Elements
<1>8. \A z \in Elements(s \o t) : z \in Elements(s) \cup Elements(t)
  BY <1>4, <1>5
<1>9. QED
  BY <1>1, <1>6, <1>7, <1>8

\* ... of four.
LEMMA FourElements ==
    ASSUME NEW T, NEW a \in Seq(T), NEW b \in Seq(T), NEW c \in Seq(T), NEW d \in Seq(T)
    PROVE  /\ a \o b \o c \o d \in Seq(T)
           /\ Elements(a \o b \o c \o d)
                = Elements(a) \cup Elements(b) \cup Elements(c) \cup Elements(d)
<1>1. a \o b \in Seq(T) /\ Elements(a \o b) = Elements(a) \cup Elements(b)
  BY ConcatElements
<1>2. PICK y \in Seq(T) : y = a \o b
  BY <1>1
<1>3. y \o c \in Seq(T) /\ Elements(y \o c) = Elements(y) \cup Elements(c)
  BY ConcatElements
<1>4. PICK z \in Seq(T) : z = y \o c
  BY <1>3
<1>5. z \o d \in Seq(T) /\ Elements(z \o d) = Elements(z) \cup Elements(d)
  BY ConcatElements
<1>6. QED
  BY <1>1, <1>2, <1>3, <1>4, <1>5

\* A timeout that stays on a wheel stays in its bucket, which was not among
\* those that were dumped.
LEMMA DumpStays ==
    ASSUME ListTypes, ListsOK, NEW buckets, Dump(buckets), NEW t \in AnyTo, t \in Elements(wheel')
    PROVE  t \in Elements(wheel) /\ bucket'[t] = bucket[t] /\ bucket[t] \notin Elements(buckets)
<1> DEFINE KK == {i \in 1 .. Len(wheel) :
                     \E k \in 1 .. Len(buckets) : buckets[k] = bucket[wheel[i]]}
<1>1. PICK K : K = KK
  OBVIOUS
<1>2. /\ wheel' = Part(wheel, 1 .. Len(wheel) \ K)
      /\ bucket' = [u \in AnyTo |-> IF \E i \in K : wheel[i] = u THEN NIL ELSE bucket[u]]
  BY <1>1 DEF Dump
<1>3. wheel \in Seq(AnyTo) /\ NoDup(wheel) /\ K \in SUBSET (1 .. Len(wheel))
  BY <1>1 DEF ListTypes, ListsOK
<1>4. PICK R \in SUBSET (1 .. Len(wheel)) : R = 1 .. Len(wheel) \ K
  OBVIOUS
<1>5. Elements(wheel') = {wheel[i] : i \in R}
  BY <1>2, <1>3, <1>4, PartFacts
<1>6. PICK i \in R : wheel[i] = t
  BY <1>5
<1>7. i \in 1 .. Len(wheel) /\ i \notin K
  BY <1>4, <1>6
<1>8. \A j \in K : wheel[j] # t
  BY <1>3, <1>6, <1>7 DEF NoDup
<1>9. \A k \in 1 .. Len(buckets) : buckets[k] # bucket[t]
  BY <1>1, <1>6, <1>7
<1>10. t \in Elements(wheel)
  BY <1>6, <1>7 DEF Elements
<1>11. bucket'[t] = bucket[t]
  BY <1>2, <1>8
<1>12. bucket[t] \notin Elements(buckets)
  BY <1>9 DEF Elements
<1>13. QED
  BY <1>10, <1>11, <1>12

\* The buckets that hardclock() dumps, level by level.
LEMMA DumpedBuckets ==
    ASSUME NEW n \in Int, NEW then \in Int, NEW now \in Int
    PROVE  /\ \A l \in 0 .. 3 :
                 Elements(TickLevel(l, n))
                     \subseteq Elements(TickBuckets(n) \o ScanBuckets(then, now))
           /\ \A l \in 0 .. 3 :
                 Elements(ScanLevel(l, then, now))
                     \subseteq Elements(TickBuckets(n) \o ScanBuckets(then, now))
<1>1. ASSUME NEW l \in 0 .. 3 PROVE TickLevel(l, n) \in Seq(BucketSet)
  <2>1. PICK m \in 0 .. WHEELSIZE - 1 : m = MASKWHEEL(l, n)
    BY BucketType
  <2>2. <<"none", l, m>> \in BucketSet
    BY DEF BucketSet
  <2>3. <<>> \in Seq(BucketSet) /\ <<<<"none", l, m>>>> \in Seq(BucketSet)
    BY <2>2
  <2>4. QED
    BY <2>1, <2>3 DEF TickLevel
<1>2. ASSUME NEW l \in 0 .. 3 PROVE ScanLevel(l, then, now) \in Seq(BucketSet)
  <2>1. PICK w \in Nat \ {0} : w = WHEELSIZE
    BY TimeoutAssumption
  <2>2. PICK f \in Int, e \in Int : f = ScanFirst(l, then) /\ e = ScanLast(l, then, now)
    <3>1. timeout_maskwheel(l, then) \in Int /\ timeout_maskwheel(l, now) \in Int
      <4>1. timeout_maskwheel(l, then) \in 0 .. w - 1 /\ timeout_maskwheel(l, now) \in 0 .. w - 1
        BY <2>1, BucketType
      <4>2. QED
        BY <4>1
    <3>2. PICK g \in Int : g = timeout_maskwheel(l, then) - 1
      BY <3>1
    <3>3. g % w \in Int
      BY DivMod
    <3>4. QED
      BY <2>1, <3>1, <3>2, <3>3 DEF ScanFirst, ScanLast
  <2>3. PICK d \in Int : d = e - f
    OBVIOUS
  <2>4. PICK len \in Nat : len = (d % w) + 1
    BY DivMod
  <2>5. ASSUME NEW i \in 1 .. len PROVE <<"uptime", l, (f + i - 1) % w>> \in BucketSet
    <3>1. PICK g \in Int : g = f + i - 1
      BY <2>4
    <3>2. PICK m \in 0 .. w - 1 : m = g % w
      BY DivMod
    <3>3. <<"uptime", l, m>> \in BucketSet
      BY <2>1 DEF BucketSet
    <3>4. QED
      BY <3>1, <3>2, <3>3
  <2>6. [i \in 1 .. len |-> <<"uptime", l, (f + i - 1) % w>>] \in Seq(BucketSet)
    BY <2>4, <2>5
  <2>7. QED
    BY <2>1, <2>2, <2>3, <2>4, <2>6 DEF ScanLevel
<1>3. PICK a \in Seq(BucketSet), b \in Seq(BucketSet), c \in Seq(BucketSet), d \in Seq(BucketSet) :
         /\ a = TickLevel(0, n) /\ b = TickLevel(1, n)
         /\ c = TickLevel(2, n) /\ d = TickLevel(3, n)
  BY <1>1
<1>4. PICK e \in Seq(BucketSet), f \in Seq(BucketSet), g \in Seq(BucketSet), h \in Seq(BucketSet) :
         /\ e = ScanLevel(0, then, now) /\ f = ScanLevel(1, then, now)
         /\ g = ScanLevel(2, then, now) /\ h = ScanLevel(3, then, now)
  BY <1>2
<1>5. PICK x \in Seq(BucketSet) :
         /\ x = a \o b \o c \o d
         /\ Elements(x) = Elements(a) \cup Elements(b) \cup Elements(c) \cup Elements(d)
  <2>1. a \o b \o c \o d \in Seq(BucketSet) /\ Elements(a \o b \o c \o d) = Elements(a) \cup Elements(b) \cup Elements(c) \cup Elements(d)
    BY FourElements
  <2>2. QED
    BY <2>1
<1>6. PICK u \in Seq(BucketSet) :
         /\ u = e \o f \o g \o h
         /\ Elements(u) = Elements(e) \cup Elements(f) \cup Elements(g) \cup Elements(h)
  <2>1. e \o f \o g \o h \in Seq(BucketSet) /\ Elements(e \o f \o g \o h) = Elements(e) \cup Elements(f) \cup Elements(g) \cup Elements(h)
    BY FourElements
  <2>2. QED
    BY <2>1
<1>7. x = TickBuckets(n) /\ u = ScanBuckets(then, now)
  BY <1>3, <1>4, <1>5, <1>6 DEF TickBuckets, ScanBuckets
<1>8. Elements(x \o u) = Elements(x) \cup Elements(u)
  BY ConcatElements
<1>9. ASSUME NEW l \in 0 .. 3
      PROVE  /\ Elements(TickLevel(l, n)) \subseteq Elements(x)
             /\ Elements(ScanLevel(l, then, now)) \subseteq Elements(u)
  <2>1. l = 0 \/ l = 1 \/ l = 2 \/ l = 3
    OBVIOUS
  <2>2. CASE l = 0
    BY <1>3, <1>4, <1>5, <1>6, <2>2
  <2>3. CASE l = 1
    BY <1>3, <1>4, <1>5, <1>6, <2>3
  <2>4. CASE l = 2
    BY <1>3, <1>4, <1>5, <1>6, <2>4
  <2>5. CASE l = 3
    BY <1>3, <1>4, <1>5, <1>6, <2>5
  <2>6. QED
    BY <2>1, <2>2, <2>3, <2>4, <2>5
<1>10. QED
  BY <1>7, <1>8, <1>9

-----------------------------------------------------------------------------
(* No timeout stays on a wheel after its time.                              *)

\* A timeout of the tick wheel is in the bucket of a tick that begins the
\* bucket, is still to come and comes no later than the timeout's own.
TickOK(t) ==
    \E l \in 0 .. 3, e \in 1 .. Left(t) :
        /\ bucket[t] = <<"none", l, MASKWHEEL(l, ticks + e)>>
        /\ (ticks + e) % Span(l) = 0

\* One of the uptime wheel is in the bucket of a time after the last scan and
\* no later than its own, on the higher levels in a later bucket.
UpOK(t) ==
    \E l \in 0 .. 3, a \in kc_lastscan + 1 .. to_time[t] :
        /\ bucket[t] = <<"uptime", l, timeout_maskwheel(l, a)>>
        /\ l > 0 => Block(l, kc_lastscan) < Block(l, a)

WheelOK(t) == IF Clock(t) = "none" THEN TickOK(t) ELSE UpOK(t)
LateInv ==
    /\ kc_lastscan <= uptime
    /\ \A t \in AnyTo : t \in Elements(wheel) => WheelOK(t)

\* Then none is late.
LEMMA InvNotLate ==
    ASSUME TmoInv, LateInv
    PROVE  NotLate
<1> SUFFICES ASSUME NEW t \in Elements(wheel) PROVE Left(t) > 0
  BY DEF NotLate
<1>1. ClockTypes /\ wheel \in Seq(AnyTo)
  BY DEF TmoInv, ListTypes
<1>2. t \in AnyTo
  BY <1>1 DEF Elements
<1>3. WheelOK(t)
  BY <1>2 DEF LateInv
<1>4. Left(t) \in Int /\ to_time[t] \in Int /\ kc_lastscan \in Int
  BY <1>1, <1>2, LeftType DEF ClockTypes
<1>5. CASE Clock(t) = "none"
  <2>1. \E e \in 1 .. Left(t) : TRUE
    BY <1>3, <1>5 DEF WheelOK, TickOK
  <2>2. QED
    BY <1>4, <2>1
<1>6. CASE Clock(t) # "none"
  <2>1. \E a \in kc_lastscan + 1 .. to_time[t] : TRUE
    BY <1>3, <1>6 DEF WheelOK, UpOK
  <2>2. to_time[t] - kc_lastscan > 0
    BY <1>4, <2>1
  <2>3. QED
    BY <1>6, <2>2 DEF Left
<1>7. QED
  BY <1>5, <1>6

\* A timeout that stays in its bucket while the clocks stand still and that
\* is not made earlier.
LEMMA WheelFrame ==
    ASSUME TmoInv, TmoInv', NEW t \in AnyTo, WheelOK(t), bucket'[t] = bucket[t],
           UNCHANGED <<ticks, kc_lastscan>>,
           Clock(t) = "none" => Int32(to_time[t] - ticks) <= Int32(to_time'[t] - ticks),
           Clock(t) # "none" => to_time[t] <= to_time'[t]
    PROVE  WheelOK(t)'
<1>1. ClockTypes /\ ClockTypes'
  BY DEF TmoInv
<1>2. /\ to_time[t] \in Int /\ to_time'[t] \in Int /\ ticks \in Int /\ kc_lastscan \in Int
  BY <1>1, SpanType DEF ClockTypes
<1>3. Clock(t)' = Clock(t)
  BY DEF Clock
<1>4. CASE Clock(t) = "none"
  <2>1. PICK r \in Int, x \in Int : /\ r = Left(t) /\ x = Left(t)' /\ r <= x
    <3>1. to_time[t] - ticks \in Int /\ to_time'[t] - ticks \in Int
      BY <1>2
    <3>2. Int32(to_time[t] - ticks) \in Int /\ Int32(to_time'[t] - ticks) \in Int
      BY <3>1, Int32Type, SpanType
    <3>3. QED
      BY <1>3, <1>4, <3>2 DEF Left
  <2>2. PICK l \in 0 .. 3, e \in 1 .. r :
           /\ bucket[t] = <<"none", l, MASKWHEEL(l, ticks + e)>> /\ (ticks + e) % Span(l) = 0
    BY <1>4, <2>1 DEF WheelOK, TickOK
  <2>3. e \in 1 .. x
    BY <2>1
  <2>4. TickOK(t)'
    BY <2>1, <2>2, <2>3 DEF TickOK, MASKWHEEL, Span
  <2>5. QED
    BY <1>3, <1>4, <2>4 DEF WheelOK
<1>5. CASE Clock(t) # "none"
  <2>1. PICK l \in 0 .. 3, a \in kc_lastscan + 1 .. to_time[t] :
           /\ bucket[t] = <<"uptime", l, timeout_maskwheel(l, a)>>
           /\ l > 0 => Block(l, kc_lastscan) < Block(l, a)
    BY <1>5 DEF WheelOK, UpOK
  <2>2. a \in kc_lastscan + 1 .. to_time'[t]
    BY <1>2, <1>5
  <2>3. UpOK(t)'
    BY <2>1, <2>2 DEF UpOK
  <2>4. QED
    BY <1>3, <1>5, <2>3 DEF WheelOK
<1>6. QED
  BY <1>4, <1>5

\* The insertion on a wheel.
LEMMA LateInsert ==
    ASSUME TmoInv, NEW t \in AnyTo, Left(t) > 0, UNCHANGED <<ticks, kc_lastscan, to_time>>,
           bucket'[t] = IF Clock(t) = "none" THEN BUCKET(Left(t), to_time[t])
                        ELSE timeout_bucket(to_time[t])
    PROVE  WheelOK(t)'
<1>1. ClockTypes
  BY DEF TmoInv
<1>2. /\ to_time[t] \in Int /\ ticks \in Int /\ kc_lastscan \in Int /\ Left(t) \in Int
  BY <1>1, LeftType, SpanType DEF ClockTypes
<1>3. Clock(t)' = Clock(t)
  BY DEF Clock
<1>4. CASE Clock(t) = "none"
  <2>1. PICK r \in Nat, n \in Int, x \in Int :
           r = Left(t) /\ r > 0 /\ n = ticks /\ x = to_time[t] /\ r = Int32(x - n)
    BY <1>2, <1>4 DEF Left
  <2>2. PICK l \in 0 .. 3 : /\ BUCKET(r, x) = <<"none", l, MASKWHEEL(l, x)>>
                            /\ l > 0 => r > Span(l)
    BY BUCKETLevel
  <2>3. PICK e \in 1 .. r : /\ (n + e) % Span(l) = 0
                            /\ MASKWHEEL(l, n + e) = MASKWHEEL(l, n + r)
    BY <2>1, <2>2, TickPlace
  <2>4. MASKWHEEL(l, n + r) = MASKWHEEL(l, x)
    <3>1. PICK d \in Int : d = x - n
      OBVIOUS
    <3>2. MASKWHEEL(l, Int32(d) + n) = MASKWHEEL(l, d + n)
      BY MaskLaps
    <3>3. Int32(d) + n = n + r /\ d + n = x
      BY <2>1, <3>1
    <3>4. QED
      BY <3>2, <3>3
  <2>5. bucket'[t] = <<"none", l, MASKWHEEL(l, n + e)>>
    BY <1>4, <2>1, <2>2, <2>3, <2>4
  <2>6. Left(t)' = r
    BY <1>3, <1>4, <2>1 DEF Left
  <2>7. TickOK(t)'
    BY <2>1, <2>3, <2>5, <2>6 DEF TickOK
  <2>8. QED
    BY <1>3, <1>4, <2>7 DEF WheelOK
<1>5. CASE Clock(t) # "none"
  <2>1. PICK x \in Int, n \in Int : x = to_time[t] /\ n = kc_lastscan /\ n < x
    BY <1>2, <1>5 DEF Left
  <2>2. PICK l \in 0 .. 3 : /\ timeout_bucket(x) = <<"uptime", l, timeout_maskwheel(l, x)>>
                            /\ l > 0 => x - n >= Sub * Span(l)
    <3> DEFINE fits == {l \in 0 .. 2 : x - n < timeout_level_width(l)}
    <3>1. PICK F : F = fits
      OBVIOUS
    <3> HIDE DEF fits
    <3>2. \A l \in 0 .. 2 : l \in F <=> x - n < timeout_level_width(l)
      BY <3>1 DEF fits
    <3>3. F \subseteq {0, 1, 2}
      BY <3>1 DEF fits
    <3>4. PICK v : v = IF F = {} THEN 3 ELSE CHOOSE l \in F : \A k \in F : l <= k
      OBVIOUS
    <3>5. timeout_bucket(x) = <<"uptime", v, timeout_maskwheel(v, x)>>
      BY <2>1, <3>1, <3>4 DEF timeout_bucket, fits
    <3>6. v \in 0 .. 3 /\ \A k \in 0 .. 2 : k < v => k \notin F
      <4>1. CASE F = {}
        BY <3>4, <4>1
      <4>2. CASE F # {}
        <5>1. \E l \in F : \A k \in F : l <= k
          <6>1. CASE 0 \in F
            BY <3>3, <6>1
          <6>2. CASE 0 \notin F /\ 1 \in F
            BY <3>3, <6>2
          <6>3. CASE 0 \notin F /\ 1 \notin F
            <7>1. F \subseteq {2}
              BY <3>3, <6>3
            <7>2. F = {2}
              BY <4>2, <7>1
            <7>3. QED
              BY <7>2
          <6>4. QED
            BY <6>1, <6>2, <6>3
        <5>2. v \in F /\ \A k \in F : v <= k
          BY <3>4, <4>2, <5>1
        <5>3. QED
          BY <3>3, <5>2
      <4>3. QED
        BY <4>1, <4>2
    <3>7. ASSUME v > 0 PROVE x - n >= Sub * Span(v)
      <4>1. PICK k \in 0 .. 2 : v = k + 1
        BY <3>6, <3>7
      <4>2. k \notin F
        BY <3>6, <4>1
      <4>3. PICK u \in Nat, w \in Nat, s \in Nat : u = Sub /\ w = WHEELSIZE /\ s = Span(k)
        BY TimeoutAssumption, SpanType
      <4>4. u * w * s \in Int /\ timeout_level_width(k) = u * w * s
        BY <4>3 DEF timeout_level_width
      <4>5. x - n >= u * w * s
        BY <3>2, <4>2, <4>4
      <4>6. Span(v) = s * w
        BY <4>1, <4>3, SpanFactors
      <4>7. u * (s * w) = u * w * s
        OBVIOUS
      <4>8. QED
        BY <4>3, <4>5, <4>6, <4>7
    <3>8. QED
      BY <3>5, <3>6, <3>7
  <2>3. x \in n + 1 .. x
    BY <2>1
  <2>4. l > 0 => Block(l, n) < Block(l, x)
    BY <2>2, BlockFacts
  <2>5. bucket'[t] = <<"uptime", l, timeout_maskwheel(l, x)>>
    BY <1>5, <2>1, <2>2
  <2>6. UpOK(t)'
    BY <2>1, <2>3, <2>4, <2>5 DEF UpOK
  <2>7. QED
    BY <1>3, <1>5, <2>6 DEF WheelOK
<1>6. QED
  BY <1>4, <1>5

\* A tick: a timeout whose bucket is not dumped has its tick still to come.
LEMMA LateTick ==
    ASSUME TmoInv, NEW t \in AnyTo, Clock(t) = "none", TickOK(t), ticks' = Int32(ticks + 1),
           UNCHANGED to_time, bucket'[t] = bucket[t],
           \A l \in 0 .. 3 : bucket[t] \notin Elements(TickLevel(l, Int32(ticks + 1)))
    PROVE  TickOK(t)'
<1>1. ClockTypes
  BY DEF TmoInv
<1>2. PICK n \in Int, x \in Int, r \in Int : n = ticks /\ x = to_time[t] /\ r = Left(t)
  BY <1>1, LeftType, SpanType DEF ClockTypes
<1>3. r = Int32(x - n)
  BY <1>2 DEF Left
<1>4. PICK l \in 0 .. 3, e \in 1 .. r :
         bucket[t] = <<"none", l, MASKWHEEL(l, n + e)>> /\ (n + e) % Span(l) = 0
  BY <1>2 DEF TickOK
<1>5. PICK m \in Int : m = n + 1
  OBVIOUS
<1>6. ticks' = Int32(m)
  BY <1>2, <1>5
<1>7. ASSUME e = 1 PROVE FALSE
  <2>1. m % Span(l) = 0 /\ bucket[t] = <<"none", l, MASKWHEEL(l, m)>>
    BY <1>4, <1>5, <1>7
  <2>2. \A k \in 0 .. 3 : MASKWHEEL(k, Int32(m)) = MASKWHEEL(k, m)
    <3> SUFFICES ASSUME NEW k \in 0 .. 3 PROVE MASKWHEEL(k, Int32(m)) = MASKWHEEL(k, m)
      OBVIOUS
    <3>1. PICK z \in Int : z = 0
      OBVIOUS
    <3>2. MASKWHEEL(k, Int32(m) + z) = MASKWHEEL(k, m + z)
      BY MaskLaps
    <3>3. Int32(m) \in Int
      BY Int32Type, SpanType
    <3>4. Int32(m) + z = Int32(m) /\ m + z = m
      BY <3>1, <3>3
    <3>5. QED
      BY <3>2, <3>4
  <2>3. \A k \in 0 .. l - 1 : MASKWHEEL(k, Int32(m)) = 0
    <3>1. \A k \in 0 .. l - 1 : MASKWHEEL(k, m) = 0
      BY <2>1, MaskLow
    <3>2. \A k \in 0 .. l - 1 : k \in 0 .. 3
      OBVIOUS
    <3>3. QED
      BY <2>2, <3>1, <3>2
  <2>4. TickLevel(l, Int32(m)) = <<bucket[t]>>
    BY <2>1, <2>2, <2>3 DEF TickLevel
  <2>5. bucket[t] \in Elements(TickLevel(l, Int32(m)))
    BY <2>4 DEF Elements
  <2>6. QED
    BY <1>2, <1>5, <2>5
<1>8. PICK d \in Int : d = e - 1 /\ d \in 1 .. r - 1
  BY <1>4, <1>7
<1>9. Left(t)' = r - 1
  <2>1. Left(t)' = Int32(x - Int32(m))
    BY <1>2, <1>6 DEF Left, Clock
  <2>2. r \in 2 .. INT_MAX /\ INT_MAX \in Nat
    <3>1. x - n \in Int
      OBVIOUS
    <3>2. r \in -INT_MAX - 1 .. INT_MAX
      BY <1>3, <3>1, Int32Type
    <3>3. QED
      BY <1>8, <3>2, SpanType
  <2>3. Int32(x - Int32(m)) = Int32(r - 1)
    <3>1. PICK k \in Int, j \in Int, M \in Int :
             /\ M = 2 * (INT_MAX + 1) /\ Int32(m) = m + M * k /\ r = x - n + M * j
      <4>1. PICK a \in Int : a = x - n
        OBVIOUS
      <4>2. PICK M \in Int : M = 2 * (INT_MAX + 1)
        BY SpanType
      <4>3. \E k \in Int : Int32(m) = m + M * k
        BY <4>2, Int32Multiple
      <4>4. \E j \in Int : Int32(a) = a + M * j
        BY <4>2, Int32Multiple
      <4>5. QED
        BY <1>3, <4>1, <4>2, <4>3, <4>4
    <3>2. PICK y \in Int, i \in Int : y = r - 1 /\ i = -(j + k)
      OBVIOUS
    <3>3. x - Int32(m) = y + M * i
      <4>1. M * i = -(M * j) - M * k
        BY <3>2
      <4>2. PICK u \in Int, v \in Int : u = M * j /\ v = M * k
        OBVIOUS
      <4>3. QED
        BY <1>5, <3>1, <3>2, <4>1, <4>2
    <3>4. PICK h \in Nat, N \in Nat \ {0} : h = INT_MAX /\ N = 2 * (h + 1) /\ N = M
      BY <3>1, SpanType
    <3>5. PICK b \in Int : b = y + h + 1
      OBVIOUS
    <3>6. (b + N * i) % N = b % N
      BY DivAdd
    <3>7. y + M * i + h + 1 = b + N * i
      BY <3>4, <3>5
    <3>8. Int32(y + M * i) = ((b + N * i) % N) - h - 1 /\ Int32(y) = (b % N) - h - 1
      BY <3>4, <3>5, <3>7 DEF Int32
    <3>9. QED
      BY <3>2, <3>3, <3>6, <3>8
  <2>4. r - 1 \in -INT_MAX - 1 .. INT_MAX
    BY <2>2
  <2>5. Int32(r - 1) = r - 1
    BY <2>4, Int32Id
  <2>6. QED
    BY <2>1, <2>3, <2>5
<1>10. PICK p \in Int : p = Int32(m)
  BY Int32Type, SpanType
<1>11. m + d = n + e
  BY <1>5, <1>8
<1>12. MASKWHEEL(l, p + d) = MASKWHEEL(l, n + e) /\ (p + d) % Span(l) = 0
  <2>1. /\ MASKWHEEL(l, Int32(m) + d) = MASKWHEEL(l, m + d)
        /\ (Int32(m) + d) % Span(l) = (m + d) % Span(l)
    BY MaskLaps
  <2>2. QED
    BY <1>4, <1>10, <1>11, <2>1
<1>13. PICK R \in Int : R = r - 1 /\ R = Left(t)' /\ d \in 1 .. R
  BY <1>8, <1>9
<1>14. ticks' = p /\ bucket'[t] = <<"none", l, MASKWHEEL(l, p + d)>>
  BY <1>4, <1>6, <1>10, <1>12
<1>15. QED
  BY <1>12, <1>13, <1>14 DEF TickOK

\* A scan: the same on the other wheel.
LEMMA LateUpScan ==
    ASSUME TmoInv, NEW t \in AnyTo, UpOK(t), UNCHANGED to_time, bucket'[t] = bucket[t],
           NEW now \in Int, kc_lastscan' = now, kc_lastscan <= now, NoLap(kc_lastscan, now),
           \A l \in 0 .. 3 : bucket[t] \notin Elements(ScanLevel(l, kc_lastscan, now))
    PROVE  UpOK(t)'
<1>1. PICK then \in Int, x \in Int : then = kc_lastscan /\ x = to_time[t]
  BY DEF TmoInv, ClockTypes
<1>2. PICK l \in 0 .. 3, a \in then + 1 .. x :
         /\ bucket[t] = <<"uptime", l, timeout_maskwheel(l, a)>>
         /\ l > 0 => Block(l, then) < Block(l, a)
  BY <1>1 DEF UpOK
<1>3. a \in Int /\ then <= a
  OBVIOUS
<1>4. /\ Block(l, a) \in Int /\ Block(l, now) \in Int /\ Block(l, then) \in Int
      /\ Block(l, then) <= Block(l, a)
      /\ timeout_maskwheel(l, a) = Block(l, a) % WHEELSIZE
  BY <1>3, BlockFacts
<1>5. Block(l, now) < Block(l, a)
  <2>1. CASE \E k \in 0 .. l - 1 : ScanDone(k, then, now)
    <3>1. PICK k \in 0 .. l - 1 : ScanDone(k, then, now)
      BY <2>1
    <3>2. k \in 0 .. 2 /\ l \in k + 1 .. 3 /\ l > 0
      OBVIOUS
    <3>3. then <= now /\ NoLap(then, now)
      BY <1>1
    <3>4. Block(l, then) = Block(l, now)
      BY <3>1, <3>2, <3>3, ScanStops
    <3>5. QED
      BY <1>2, <3>2, <3>4
  <2>2. CASE ~\E k \in 0 .. l - 1 : ScanDone(k, then, now)
    <3>1. then <= now /\ NoLap(then, now)
      BY <1>1
    <3>2. bucket[t] \notin Elements(ScanLevel(l, then, now))
      BY <1>1
    <3>3. ASSUME Block(l, a) <= Block(l, now) PROVE FALSE
      <4>1. PICK b \in Int : b = Block(l, a)
        BY <1>4
      <4>2. Block(l, then) <= b /\ b <= Block(l, now)
        BY <1>4, <3>3, <4>1
      <4>3. <<"uptime", l, b % WHEELSIZE>> \in Elements(ScanLevel(l, then, now))
        BY <2>2, <3>1, <4>2, ScanCovers
      <4>4. QED
        BY <1>2, <1>4, <3>2, <4>1, <4>3
    <3>4. QED
      BY <1>4, <3>3
  <2>3. QED
    BY <2>1, <2>2
<1>6. now < a
  <2>1. ASSUME a <= now PROVE FALSE
    <3>1. Block(l, a) <= Block(l, now)
      BY <1>3, <2>1, BlockFacts
    <3>2. QED
      BY <1>4, <1>5, <3>1
  <2>2. QED
    BY <1>3, <2>1
<1>7. a \in now + 1 .. x
  BY <1>6
<1>8. QED
  BY <1>1, <1>2, <1>5, <1>7 DEF UpOK

\* The tick counter is stepped after a suspend: no tick timeout is left.
LEMMA AllBucketsDumped ==
    ASSUME NEW l \in 0 .. 3, NEW m \in 0 .. WHEELSIZE - 1
    PROVE  <<"none", l, m>> \in Elements(AllBuckets)
<1>1. PICK w \in Nat \ {0} : w = WHEELSIZE
  BY TimeoutAssumption
<1>2. PICK a \in Int : a = w * l + m
  BY <1>1
<1>3. a % w = m /\ a \div w = l
  <2>1. l \in Int /\ m \in 0 .. w - 1
    BY <1>1
  <2>2. QED
    BY <1>2, <2>1, DivUnique
<1>4. a >= 0 /\ a < 4 * w
  <2>1. l = 0 \/ l = 1 \/ l = 2 \/ l = 3
    OBVIOUS
  <2>2. m >= 0 /\ m < w
    BY <1>1
  <2>3. QED
    BY <1>2, <2>1, <2>2
<1>5. PICK i \in 1 .. 4 * w : i = a + 1 /\ i - 1 = a
  BY <1>4
<1>6. Len(AllBuckets) = 4 * w /\ AllBuckets[i] = <<"none", l, m>>
  BY <1>1, <1>3, <1>5 DEF AllBuckets
<1>7. QED
  BY <1>5, <1>6 DEF Elements

\* A step that leaves the clocks alone keeps the invariant if what is on the
\* wheel then stays there as it was, or has just been inserted.
LEMMA LateFrame ==
    ASSUME TmoInv, TmoInv', LateInv, UNCHANGED <<ticks, uptime, kc_lastscan>>,
           \A t \in AnyTo : t \in Elements(wheel') =>
              \/ WheelOK(t)'
              \/ t \in Elements(wheel) /\ bucket'[t] = bucket[t] /\ to_time'[t] = to_time[t]
    PROVE  LateInv'
<1>1. kc_lastscan' <= uptime'
  BY DEF LateInv
<1>2. ASSUME NEW t \in AnyTo, t \in Elements(wheel') PROVE WheelOK(t)'
  <2>1. CASE t \in Elements(wheel) /\ bucket'[t] = bucket[t] /\ to_time'[t] = to_time[t]
    <3>1. WheelOK(t)
      BY <2>1 DEF LateInv
    <3>2. to_time[t] \in Int /\ to_time[t] - ticks \in Int
      BY SpanType DEF TmoInv, ClockTypes
    <3>3. Int32(to_time[t] - ticks) \in Int
      BY <3>2, Int32Type, SpanType
    <3>4. /\ Int32(to_time[t] - ticks) <= Int32(to_time'[t] - ticks)
          /\ to_time[t] <= to_time'[t]
      BY <2>1, <3>2, <3>3
    <3>5. QED
      BY <2>1, <3>1, <3>4, WheelFrame
  <2>2. QED
    BY <1>2, <2>1
<1>3. QED
  BY <1>1, <1>2 DEF LateInv

\* hardclock().
LEMMA LateHardclock ==
    ASSUME TmoInv, LateInv, hardclock, NoLap(kc_lastscan, kc_lastscan')
    PROVE  LateInv'
<1>1. PICK step \in load.steps :
         /\ uptime' = uptime + step
         /\ Dump(TickBuckets(Int32(ticks + 1)) \o ScanBuckets(kc_lastscan, uptime + step))
  BY DEF hardclock
<1>2. ticks' = Int32(ticks + 1) /\ kc_lastscan' = uptime' /\ UNCHANGED to_time
  BY DEF hardclock
<1>3. /\ load \in Workloads /\ uptime \in Nat /\ kc_lastscan \in Int /\ ticks \in Int
      /\ ListTypes /\ ListsOK
  BY SpanType DEF TmoInv, ClockTypes
<1>4. step \in Nat
  BY <1>3, WorkloadsAssumption
<1>5. PICK now \in Int, n \in Int, then \in Int :
         /\ now = uptime + step /\ n = Int32(ticks + 1) /\ then = kc_lastscan /\ then <= now
         /\ kc_lastscan' = now /\ uptime' = now
  <2>1. ticks + 1 \in Int
    BY <1>3
  <2>2. Int32(ticks + 1) \in Int
    BY <2>1, Int32Type, SpanType
  <2>3. QED
    BY <1>1, <1>2, <1>3, <1>4, <2>2 DEF LateInv
<1>6. PICK buckets : buckets = TickBuckets(n) \o ScanBuckets(then, now)
  OBVIOUS
<1>7. Dump(buckets)
  BY <1>1, <1>5, <1>6
<1>8. \A l \in 0 .. 3 : /\ Elements(TickLevel(l, n)) \subseteq Elements(buckets)
                        /\ Elements(ScanLevel(l, then, now)) \subseteq Elements(buckets)
  BY <1>6, DumpedBuckets
<1>9. ASSUME NEW t \in AnyTo, t \in Elements(wheel') PROVE WheelOK(t)'
  <2>1. t \in Elements(wheel) /\ bucket'[t] = bucket[t] /\ bucket[t] \notin Elements(buckets)
    BY <1>3, <1>7, <1>9, DumpStays
  <2>2. WheelOK(t) /\ Clock(t)' = Clock(t)
    BY <2>1 DEF LateInv, Clock
  <2>3. CASE Clock(t) = "none"
    <3>1. \A l \in 0 .. 3 : bucket[t] \notin Elements(TickLevel(l, Int32(ticks + 1)))
      BY <1>5, <1>8, <2>1
    <3>2. TickOK(t)
      BY <2>2, <2>3 DEF WheelOK
    <3>3. TickOK(t)'
      BY <1>2, <2>1, <2>3, <3>1, <3>2, LateTick
    <3>4. QED
      BY <2>2, <2>3, <3>3 DEF WheelOK
  <2>4. CASE Clock(t) # "none"
    <3>1. \A l \in 0 .. 3 : bucket[t] \notin Elements(ScanLevel(l, kc_lastscan, now))
      BY <1>5, <1>8, <2>1
    <3>2. UpOK(t)
      BY <2>2, <2>4 DEF WheelOK
    <3>3. kc_lastscan <= now /\ NoLap(kc_lastscan, now) /\ kc_lastscan' = now
      BY <1>5
    <3>4. UpOK(t)'
      BY <1>2, <2>1, <3>1, <3>2, <3>3, LateUpScan
    <3>5. QED
      BY <2>2, <2>4, <3>4 DEF WheelOK
  <2>5. QED
    BY <2>3, <2>4
<1>10. kc_lastscan' <= uptime'
  BY <1>5
<1>11. QED
  BY <1>9, <1>10 DEF LateInv

\* tc_setclock() and timeout_adjust_ticks().
LEMMA LateSuspend ==
    ASSUME TmoInv, TmoInv', LateInv, tc_setclock \/ timeout_adjust_ticks
    PROVE  LateInv'
<1>1. CASE tc_setclock
  <2>1. /\ load \in Workloads /\ uptime \in Nat /\ kc_lastscan \in Int /\ kc_lastscan <= uptime
    BY DEF TmoInv, ClockTypes, LateInv
  <2>2. PICK adj \in load.adjust : uptime' = uptime + adj
    BY <1>1 DEF tc_setclock
  <2>3. adj \in Nat /\ UNCHANGED <<ticks, kc_lastscan, wheel, bucket, to_time>>
    BY <1>1, <2>1, WorkloadsAssumption DEF tc_setclock, linkVars
  <2>4. kc_lastscan' <= uptime'
    BY <2>1, <2>2, <2>3
  <2>5. ASSUME NEW t \in AnyTo, t \in Elements(wheel') PROVE WheelOK(t)'
    <3>1. WheelOK(t)
      BY <2>3, <2>5 DEF LateInv
    <3>2. to_time[t] \in Int /\ to_time[t] - ticks \in Int
      BY SpanType DEF TmoInv, ClockTypes
    <3>3. Int32(to_time[t] - ticks) \in Int
      BY <3>2, Int32Type, SpanType
    <3>4. /\ Int32(to_time[t] - ticks) <= Int32(to_time'[t] - ticks)
          /\ to_time[t] <= to_time'[t] /\ bucket'[t] = bucket[t]
      BY <2>3, <3>2, <3>3
    <3>5. QED
      BY <2>3, <3>1, <3>4, WheelFrame
  <2>6. QED
    BY <2>4, <2>5 DEF LateInv
<1>2. CASE timeout_adjust_ticks
  <2>1. Dump(AllBuckets) /\ UNCHANGED <<uptime, kc_lastscan>>
    BY <1>2 DEF timeout_adjust_ticks
  <2>2. ASSUME NEW t \in AnyTo, t \in Elements(wheel') PROVE WheelOK(t)'
    <3>1. t \in Elements(wheel) /\ bucket'[t] = bucket[t] /\ bucket[t] \notin Elements(AllBuckets)
      BY <2>1, <2>2, DumpStays DEF TmoInv
    <3>2. WheelOK(t) /\ Clock(t)' = Clock(t)
      BY <3>1 DEF LateInv, Clock
    <3>3. Clock(t) # "none"
      <4> SUFFICES ASSUME Clock(t) = "none" PROVE FALSE
        OBVIOUS
      <4>1. ticks \in Int /\ Left(t) \in Int
        BY LeftType, SpanType DEF TmoInv, ClockTypes
      <4>2. PICK l \in 0 .. 3, e \in 1 .. Left(t) :
               bucket[t] = <<"none", l, MASKWHEEL(l, ticks + e)>>
        BY <3>2 DEF WheelOK, TickOK
      <4>3. ticks + e \in Int
        BY <4>1
      <4>4. PICK m \in 0 .. WHEELSIZE - 1 : m = MASKWHEEL(l, ticks + e)
        BY <4>3, BucketType
      <4>5. bucket[t] \in Elements(AllBuckets)
        BY <4>2, <4>4, AllBucketsDumped
      <4>6. QED
        BY <3>1, <4>5
    <3>4. to_time'[t] = to_time[t]
      BY <1>2, <3>3 DEF timeout_adjust_ticks
    <3>5. UpOK(t)
      BY <3>2, <3>3 DEF WheelOK
    <3>6. UpOK(t)'
      BY <2>1, <3>1, <3>4, <3>5 DEF UpOK
    <3>7. QED
      BY <3>2, <3>3, <3>6 DEF WheelOK
  <2>3. QED
    BY <2>1, <2>2 DEF LateInv
<1>3. QED
  BY <1>1, <1>2

\* timeout_add() and timeout_abs_ts(): a timeout that is made earlier leaves
\* the wheel.
LEMMA LateAdd ==
    ASSUME TmoInv, TmoInv', LateInv, NEW b, NEW t \in To, timeout_add(b, t)
    PROVE  LateInv'
<1> USE DEF clockVars, softVars
<1>1. PICK time \in Times(t) : Schedule(t, time)
  BY DEF timeout_add
<1>2. UNCHANGED <<ticks, uptime, kc_lastscan>>
  BY DEF timeout_add
<1>3. /\ t \in AnyTo /\ to_time \in [AnyTo -> Int] /\ ticks \in Int /\ time \in Int /\ ListTypes
      /\ ListsOK
  BY <1>1, TimesType, SpanType DEF TmoInv, ClockTypes, AnyTo
<1>4. to_time' = [to_time EXCEPT ![t] = time]
  BY <1>1 DEF Schedule
<1>5. to_time'[t] = time /\ \A u \in AnyTo \ {t} : to_time'[u] = to_time[u]
  BY <1>3, <1>4
<1>6. CASE MoveToNew(t)
  <2>1. Elements(wheel') = Elements(wheel) \ {t}
    BY <1>3, <1>6, WithoutFacts DEF MoveToNew, ListTypes, ListsOK
  <2>2. \A u \in AnyTo \ {t} : bucket'[u] = bucket[u]
    BY <1>3, <1>6 DEF MoveToNew, ListTypes
  <2>3. QED
    BY <1>2, <1>5, <2>1, <2>2, LateFrame
<1>7. CASE ~MoveToNew(t)
  <2>1. /\ UNCHANGED <<queue, wheel, bucket>>
        /\ Kclock[t] = "none" => ~(Int32(time - ticks) < Int32(to_time[t] - ticks))
        /\ Kclock[t] # "none" => ~(time < to_time[t])
    BY <1>1, <1>7 DEF Schedule
  <2>2. Clock(t) = Kclock[t]
    BY DEF Clock
  <2>3. time - ticks \in Int /\ to_time[t] - ticks \in Int /\ to_time[t] \in Int
    BY <1>3
  <2>4. Int32(time - ticks) \in Int /\ Int32(to_time[t] - ticks) \in Int
    BY <2>3, Int32Type, SpanType
  <2>5. /\ Clock(t) = "none" => Int32(to_time[t] - ticks) <= Int32(to_time'[t] - ticks)
        /\ Clock(t) # "none" => to_time[t] <= to_time'[t]
    BY <1>3, <1>5, <2>1, <2>2, <2>3, <2>4
  <2>6. ASSUME t \in Elements(wheel) PROVE WheelOK(t)'
    <3>1. WheelOK(t)
      BY <1>3, <2>6 DEF LateInv
    <3>2. QED
      BY <1>2, <1>3, <2>1, <2>5, <3>1, WheelFrame
  <2>7. QED
    BY <1>2, <1>5, <2>1, <2>6, LateFrame
<1>8. QED
  BY <1>6, <1>7

\* The insertion by softclock().
LEMMA LateSoftclock ==
    ASSUME TmoInv, TmoInv', LateInv, SoftclockNext
    PROVE  LateInv'
<1> USE DEF clockVars
<1>1. UNCHANGED <<ticks, uptime, kc_lastscan, to_time>>
  BY DEF SoftclockNext
<1>2. PICK t : t = Head(queue["todo"])
  OBVIOUS
<1>3. /\ queue["todo"] # <<>> /\ queue["todo"] \in Seq(AnyTo) /\ NoDup(queue["todo"])
      /\ wheel \in Seq(AnyTo) /\ NoDup(wheel) /\ bucket \in [AnyTo -> {NIL} \cup BucketSet]
  BY DEF SoftclockNext, TmoInv, ListTypes, ListsOK, Queue
<1>4. t \in AnyTo /\ t \in Elements(queue["todo"])
  BY <1>2, <1>3, HeadFacts
<1>5. CASE UNCHANGED <<wheel, bucket>>
  BY <1>1, <1>5, LateFrame
<1>6. CASE ~UNCHANGED <<wheel, bucket>>
  <2>1. PICK b : b = IF Clock(t) = "none" THEN BUCKET(Left(t), to_time[t])
                     ELSE timeout_bucket(to_time[t])
    OBVIOUS
  <2>2. Left(t) > 0 /\ wheel' = Append(wheel, t) /\ bucket' = [bucket EXCEPT ![t] = b]
    BY <1>2, <1>6, <2>1 DEF SoftclockNext
  <2>3. t \notin Elements(wheel)
    <3>1. Marked(t)
      BY <1>4 DEF TmoInv
    <3>2. "todo" \in List /\ "wheel" \in List \ {"todo"} /\ OnList(t, "todo")
      BY <1>4 DEF List, Queue, OnList
    <3>3. QED
      BY <3>1, <3>2 DEF Marked, OnList
  <2>4. Elements(wheel') = Elements(wheel) \cup {t}
    BY <1>3, <1>4, <2>2, <2>3, AppendFacts
  <2>5. bucket'[t] = b /\ \A u \in AnyTo \ {t} : bucket'[u] = bucket[u]
    BY <1>3, <1>4, <2>2
  <2>6. WheelOK(t)'
    BY <1>1, <1>4, <2>1, <2>2, <2>5, LateInsert
  <2>7. ASSUME NEW u \in AnyTo, u \in Elements(wheel')
        PROVE  \/ WheelOK(u)'
               \/ u \in Elements(wheel) /\ bucket'[u] = bucket[u] /\ to_time'[u] = to_time[u]
    <3>1. CASE u = t
      BY <2>6, <3>1
    <3>2. CASE u # t
      BY <1>1, <2>4, <2>5, <2>7, <3>2
    <3>3. QED
      BY <3>1, <3>2
  <2>8. QED
    BY <1>1, <2>7, LateFrame
<1>7. QED
  BY <1>5, <1>6

\* timeout_del().
LEMMA LateDel ==
    ASSUME TmoInv, TmoInv', LateInv, NEW b \in Caller, NEW t \in To, timeout_del(b, t)
    PROVE  LateInv'
<1> USE DEF clockVars, linkVars
<1>1. UNCHANGED <<ticks, uptime, kc_lastscan, to_time>>
  BY DEF timeout_del
<1>2. t \in AnyTo /\ ListTypes /\ ListsOK
  BY DEF TmoInv, AnyTo
<1>3. CASE Unlink(t)
  <2>1. Elements(wheel') = Elements(wheel) \ {t}
    BY <1>2, <1>3, WithoutFacts DEF Unlink, ListTypes, ListsOK
  <2>2. \A u \in AnyTo \ {t} : bucket'[u] = bucket[u]
    BY <1>2, <1>3 DEF Unlink, ListTypes
  <2>3. QED
    BY <1>1, <2>1, <2>2, LateFrame
<1>4. CASE UNCHANGED <<wheel, bucket>>
  BY <1>1, <1>4, LateFrame
<1>5. QED
  BY <1>3, <1>4 DEF timeout_del

\* timeout_barrier(): the barrier is on no list when its time is set.
LEMMA LateBarrier ==
    ASSUME TmoInv, TmoInv', LateInv, NEW c \in Caller, timeout_barrier(c)
    PROVE  LateInv'
<1> USE DEF clockVars
<1>1. UNCHANGED <<ticks, uptime, kc_lastscan, wheel, bucket>> /\ tpc[c] = "barrier"
  BY DEF timeout_barrier, TmoAt
<1>2. to_time \in [AnyTo -> Int]
  BY DEF TmoInv, ClockTypes
<1>3. \A u \in AnyTo \ {c} : to_time'[u] = to_time[u]
  BY <1>2, Apart DEF timeout_barrier
<1>4. c \notin Elements(wheel)
  <2>1. BarrierOK(c)
    BY DEF TmoInv
  <2>2. ~OnList(c, "wheel")
    BY <1>1, <2>1 DEF BarrierOK, Pends, List
  <2>3. QED
    BY <2>2 DEF OnList
<1>5. ASSUME NEW u \in AnyTo, u \in Elements(wheel')
      PROVE  u \in Elements(wheel) /\ bucket'[u] = bucket[u] /\ to_time'[u] = to_time[u]
  BY <1>1, <1>3, <1>4, <1>5
<1>6. QED
  BY <1>1, <1>5, LateFrame

\* No other step touches a wheel.
LEMMA LateRest ==
    ASSUME TmoInv, TmoInv', LateInv,
           \/ softclock \/ SoftclockEnd \/ SoftclockWake \/ UNCHANGED tmoVars
           \/ \E x \in ThreadCtx : ThreadStep(x)
           \/ \E x \in Ctx : BarrierSignal(x) \/ RunDone(x)
           \/ \E c \in Caller : BarrierWait(c) \/ Return(c)
    PROVE  LateInv'
<1> USE DEF clockVars, linkVars
<1>1. UNCHANGED <<ticks, uptime, kc_lastscan, wheel, bucket, to_time>>
  <2>1. CASE softclock \/ SoftclockEnd \/ SoftclockWake \/ UNCHANGED tmoVars
    BY <2>1 DEF softclock, SoftclockEnd, SoftclockWake, tmoVars
  <2>2. ASSUME NEW x \in ThreadCtx, ThreadStep(x)
        PROVE  UNCHANGED <<ticks, uptime, kc_lastscan, wheel, bucket, to_time>>
    BY <2>2 DEF ThreadStep, ThreadSetup, ThreadSleep, ThreadEnter, ThreadNext, ThreadEnd
  <2>3. ASSUME NEW x \in Ctx, BarrierSignal(x) \/ RunDone(x)
        PROVE  UNCHANGED <<ticks, uptime, kc_lastscan, wheel, bucket, to_time>>
    BY <2>3 DEF BarrierSignal, RunDone
  <2>4. ASSUME NEW c \in Caller, BarrierWait(c) \/ Return(c)
        PROVE  UNCHANGED <<ticks, uptime, kc_lastscan, wheel, bucket, to_time>>
    BY <2>4 DEF BarrierWait, Return
  <2>5. QED
    BY <2>1, <2>2, <2>3, <2>4
<1>2. QED
  BY <1>1, LateFrame

\* A tick does not come after almost a lap of a level of the wheel.
NoLapTick == hardclock => NoLap(kc_lastscan, kc_lastscan')

\* A step keeps the invariant.
LEMMA LateNext == TmoInv /\ TmoInv' /\ LateInv /\ [TmoNext]_tmoVars /\ NoLapTick => LateInv'
<1> SUFFICES ASSUME TmoInv, TmoInv', LateInv, [TmoNext]_tmoVars, NoLapTick PROVE LateInv'
  OBVIOUS
<1>1. CASE hardclock
  BY <1>1, LateHardclock DEF NoLapTick
<1>2. CASE tc_setclock \/ timeout_adjust_ticks
  BY <1>2, LateSuspend
<1>3. CASE SoftclockNext
  BY <1>3, LateSoftclock
<1>4. ASSUME NEW b, NEW t \in To, timeout_add(b, t) PROVE LateInv'
  BY <1>4, LateAdd
<1>5. ASSUME NEW b \in Caller, NEW t \in To, timeout_del(b, t) PROVE LateInv'
  BY <1>5, LateDel
<1>6. ASSUME NEW c \in Caller, timeout_barrier(c) PROVE LateInv'
  BY <1>6, LateBarrier
<1>7. CASE \/ softclock \/ SoftclockEnd \/ SoftclockWake \/ UNCHANGED tmoVars
           \/ \E x \in ThreadCtx : ThreadStep(x)
           \/ \E x \in Ctx : BarrierSignal(x) \/ RunDone(x)
           \/ \E c \in Caller : BarrierWait(c) \/ Return(c)
  BY <1>7, LateRest
<1>8. QED
  BY <1>1, <1>2, <1>3, <1>4, <1>5, <1>6, <1>7 DEF TmoNext, SoftclockStep

\* No timeout is left on a wheel after its time, in any number of timeouts,
\* workloads and buckets, if no tick comes after almost a lap of a level.
THEOREM TimeoutsInTime == TmoSpec /\ [][NoLapTick]_tmoVars => []NotLate
<1>1. TmoInit => LateInv
  <2> SUFFICES ASSUME TmoInit PROVE LateInv
    OBVIOUS
  <2>1. Elements(wheel) = {}
    BY DEF TmoInit, Elements
  <2>2. QED
    BY <2>1 DEF TmoInit, LateInv
<1>2. TmoInv /\ TmoInv' /\ LateInv /\ [TmoNext]_tmoVars /\ [NoLapTick]_tmoVars => LateInv'
  <2>1. CASE NoLapTick
    BY <2>1, LateNext
  <2>2. CASE UNCHANGED tmoVars
    BY <2>2, LateRest
  <2>3. QED
    BY <2>1, <2>2
<1>3. TmoInv /\ LateInv => NotLate
  BY InvNotLate
<1>4. QED
  BY <1>1, <1>2, <1>3, TmoInvariant, PTL DEF TmoSpec

\* The workloads without a suspend whose ticks come, on each level of the
\* wheel, after at most all buckets but one, or after the whole level.
SteadyWorkloads ==
    \A w \in Workloads :
        /\ w.adjust = {}
        /\ \A s \in w.steps, l \in 0 .. 3 :
              s <= Sub * Span(l) * (WHEELSIZE - 1) \/ s >= timeout_level_width(l)

\* Such a tick does not come round to the bucket of the last one.
LEMMA SteadyStep ==
    ASSUME NEW then \in Int, NEW step \in Nat, NEW l \in 0 .. 3,
           step <= Sub * Span(l) * (WHEELSIZE - 1)
    PROVE  Block(l, then + step) - Block(l, then) < WHEELSIZE
<1>1. PICK u \in Nat \ {0}, s \in Nat \ {0}, w \in Nat \ {0}, v \in Nat :
         u = Sub /\ s = Span(l) /\ w = WHEELSIZE /\ v = w - 1
  <2>1. PICK w \in Nat \ {0} : w = WHEELSIZE
    BY TimeoutAssumption
  <2>2. w - 1 \in Nat /\ Sub \in Nat \ {0} /\ Span(l) \in Nat \ {0}
    BY SpanType, TimeoutAssumption
  <2>3. QED
    BY <2>1, <2>2
<1>2. PICK k \in Int, n \in Int, a \in Int : k = s * v /\ n = u * k /\ a = then + u * k
  OBVIOUS
<1>3. n = u * s * v
  BY <1>2
<1>4. PICK d \in Int : d = then \div u
  BY DivMod
<1>5. a \div u = d + s * v
  <2>1. (then + u * k) \div u = (then \div u) + k
    BY DivAdd
  <2>2. QED
    BY <1>2, <1>4, <2>1
<1>6. (d + s * v) \div s = (d \div s) + v
  BY DivAdd
<1>7. Block(l, a) = Block(l, then) + v
  BY <1>1, <1>4, <1>5, <1>6 DEF Block
<1>8. PICK b \in Int : b = then + step /\ b <= a
  BY <1>1, <1>2, <1>3
<1>9. Block(l, b) <= Block(l, a)
  BY <1>8, BlockFacts
<1>10. Block(l, b) \in Int /\ Block(l, then) \in Int
  BY BlockFacts
<1>11. QED
  BY <1>1, <1>7, <1>8, <1>9, <1>10

\* The same without a condition on the behaviour: of such workloads no
\* timeout is left on a wheel after its time.
THEOREM TimeoutsInTimeSteady ==
    ASSUME SteadyWorkloads
    PROVE  TmoSpec => []NotLate
<1> DEFINE Scanned == uptime = kc_lastscan
<1>1. TmoInit => Scanned
  BY DEF TmoInit
<1>2. TmoInv /\ Scanned /\ [TmoNext]_tmoVars => Scanned' /\ NoLapTick
  <2> SUFFICES ASSUME TmoInv, Scanned, [TmoNext]_tmoVars PROVE Scanned' /\ NoLapTick
    OBVIOUS
  <2> USE DEF clockVars, linkVars, softVars, callerVars
  <2>1. load \in Workloads /\ kc_lastscan \in Nat /\ uptime = kc_lastscan
    BY DEF TmoInv, ClockTypes
  <2>2. ~tc_setclock
    BY <2>1 DEF SteadyWorkloads, tc_setclock
  <2>3. hardclock => NoLap(kc_lastscan, kc_lastscan') /\ kc_lastscan' = uptime'
    <3> SUFFICES ASSUME hardclock PROVE NoLap(kc_lastscan, kc_lastscan') /\ kc_lastscan' = uptime'
      OBVIOUS
    <3>1. PICK step \in load.steps : uptime' = uptime + step
      BY DEF hardclock
    <3>2. kc_lastscan' = uptime'
      BY DEF hardclock
    <3>3. PICK s \in Nat, then \in Int : s = step /\ then = kc_lastscan /\ kc_lastscan' = then + s
      BY <2>1, <3>1, <3>2, WorkloadsAssumption
    <3>4. ASSUME NEW l \in 0 .. 3
          PROVE  ScanAll(l, then, then + s) \/ Block(l, then + s) - Block(l, then) < WHEELSIZE
      <4>1. CASE s <= Sub * Span(l) * (WHEELSIZE - 1)
        BY <4>1, SteadyStep
      <4>2. CASE s >= timeout_level_width(l)
        <5>1. then + s - then = s
          OBVIOUS
        <5>2. QED
          BY <4>2, <5>1 DEF ScanAll
      <4>3. QED
        BY <2>1, <3>3, <4>1, <4>2 DEF SteadyWorkloads
    <3>5. NoLap(then, then + s)
      BY <3>4 DEF NoLap
    <3>6. QED
      BY <3>2, <3>3, <3>5
  <2>4. ~hardclock => UNCHANGED <<uptime, kc_lastscan>>
    <3> SUFFICES ASSUME ~hardclock PROVE UNCHANGED <<uptime, kc_lastscan>>
      OBVIOUS
    <3>1. CASE timeout_adjust_ticks \/ SoftclockStep \/ UNCHANGED tmoVars
      BY <3>1 DEF timeout_adjust_ticks, SoftclockStep, softclock, SoftclockNext, SoftclockEnd,
                  SoftclockWake, tmoVars
    <3>2. ASSUME NEW x \in ThreadCtx, ThreadStep(x) PROVE UNCHANGED <<uptime, kc_lastscan>>
      BY <3>2 DEF ThreadStep, ThreadSetup, ThreadSleep, ThreadEnter, ThreadNext, ThreadEnd
    <3>3. ASSUME NEW x \in Ctx, BarrierSignal(x) \/ RunDone(x)
          PROVE  UNCHANGED <<uptime, kc_lastscan>>
      BY <3>3 DEF BarrierSignal, RunDone
    <3>4. ASSUME NEW c, NEW t, timeout_add(c, t) \/ timeout_del(c, t)
          PROVE  UNCHANGED <<uptime, kc_lastscan>>
      BY <3>4 DEF timeout_add, timeout_del
    <3>5. ASSUME NEW c, timeout_barrier(c) \/ BarrierWait(c) \/ Return(c)
          PROVE  UNCHANGED <<uptime, kc_lastscan>>
      BY <3>5 DEF timeout_barrier, BarrierWait, Return
    <3>6. QED
      BY <2>2, <3>1, <3>2, <3>3, <3>4, <3>5 DEF TmoNext
  <2>5. QED
    BY <2>1, <2>3, <2>4 DEF NoLapTick
<1>3. TmoSpec => [][NoLapTick]_tmoVars
  <2>1. TmoInv /\ Scanned /\ [TmoNext]_tmoVars => [NoLapTick]_tmoVars
    BY <1>2
  <2>2. QED
    BY <1>1, <1>2, <2>1, TmoInvariant, PTL DEF TmoSpec
<1>4. QED
  BY <1>3, TimeoutsInTime, PTL
=============================================================================
